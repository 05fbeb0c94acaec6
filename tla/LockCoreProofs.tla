--------------------------- MODULE LockCoreProofs ---------------------------
(* Theorems about LockCore for any set of threads. *)
EXTENDS LockCore, TLAPS

\* The hint as seen by whoever is inside the queue.  A popper finds the hint set
\* and leaves it set until its last exchange; a pusher sees it exact until it pushes.
Hint ==
    /\ (k_que_locked \notin m_flags \/ \E t \in Threads : pc[t] = "push")
           => (k_que_notempty \in m_flags <=> m_que # << >>)
    /\ \A t \in Threads :
          /\ pc[t] \in {"pop", "pushed"} => m_que # << >>
          /\ pc[t] \in {"pop", "popped"} => k_que_notempty \in m_flags

\* WaitersAccounted, node by node.
Distinct == \A i, j \in 1..Len(m_que) : m_que[i] = m_que[j] => i = j
QueuedWait == \A i \in 1..Len(m_que) : pc[m_que[i]] \in {"pushed", "waiting"}
PoppedWait ==
    \A t \in Threads : pc[t] = "popped" =>
        /\ pc[head[t]] = "waiting"
        /\ \A i \in 1..Len(m_que) : m_que[i] # head[t]
NobodyLost ==
    \A t \in Threads : pc[t] \in {"pushed", "waiting"} =>
        \/ \E i \in 1..Len(m_que) : m_que[i] = t
        \/ \E u \in Threads : pc[u] = "popped" /\ head[u] = t

Accounts == Distinct /\ QueuedWait /\ PoppedWait /\ NobodyLost

\* A pusher that has not raised the hint yet is the last in the queue, and the hint
\* is about those before it.
PushedLast ==
    \A t \in Threads : pc[t] = "pushed" =>
        /\ Len(m_que) > 0
        /\ m_que[Len(m_que)] = t
        /\ k_que_notempty \in m_flags <=> Len(m_que) > 1

IInv == /\ TypeOK
        /\ MutualExclusion
        /\ QueueExclusion
        /\ Hint
        /\ PushedLast
        /\ Accounts

\* The three bits are different bits.
LEMMA BitsDiffer ==
    /\ k_mtx_locked # k_que_locked
    /\ k_mtx_locked # k_que_notempty
    /\ k_que_locked # k_que_notempty
  BY DEF k_mtx_locked, k_que_locked, k_que_notempty

-----------------------------------------------------------------------------
\* Each action keeps the types.
LEMMA NextTypes ==
    ASSUME TypeOK, [Next]_vars
    PROVE  TypeOK'
  <1> USE DEF TypeOK, Goto
  <1>1. ASSUME NEW t \in Threads, TryLock(t) PROVE TypeOK'
    BY <1>1 DEF TryLock, LockMutex, LockQueueToPush
  <1>2. ASSUME NEW t \in Threads, Push(t) \/ UnlockPushedQueue(t) PROVE TypeOK'
    <2>1. CASE Push(t) BY <2>1 DEF Push
    <2>2. CASE UnlockPushedQueue(t) BY <2>2 DEF UnlockPushedQueue
    <2> QED BY <1>2, <2>1, <2>2
  <1>3. ASSUME NEW t \in Threads, UnlockMutex(t) PROVE TypeOK'
    BY <1>3 DEF UnlockMutex
  <1>4. ASSUME NEW t \in Threads, NEW keep \in BOOLEAN, LockQueueToPop(t, keep) PROVE TypeOK'
    BY <1>4 DEF LockQueueToPop
  <1>5. ASSUME NEW t \in Threads, Pop(t) PROVE TypeOK'
    <2>1. Head(m_que) \in Threads /\ Tail(m_que) \in Seq(Threads)
      BY <1>5 DEF Pop
    <2> QED
      BY <1>5, <2>1 DEF Pop
  <1>6. ASSUME NEW t \in Threads, UnlockPoppedQueue(t) PROVE TypeOK'
    BY <1>6 DEF UnlockPoppedQueue
  <1>7. CASE UNCHANGED vars
    BY <1>7 DEF vars
  <1> QED
    BY <1>1, <1>2, <1>3, <1>4, <1>5, <1>6, <1>7 DEF Next, Proceed

\* The mutex bit always has exactly one holder; a release with a waiter passes it on
\* in the exchange that unlocks the queue.
LEMMA NextMutualExclusion ==
    ASSUME IInv, [Next]_vars
    PROVE  MutualExclusion'
  <1> USE BitsDiffer DEF IInv, TypeOK, MutualExclusion, Holds, Goto
  <1>1. ASSUME NEW t \in Threads, LockMutex(t) PROVE MutualExclusion'
    BY <1>1 DEF LockMutex
  <1>2. ASSUME NEW t \in Threads, LockQueueToPush(t) PROVE MutualExclusion'
    BY <1>2 DEF LockQueueToPush
  <1>3. ASSUME NEW t \in Threads, Push(t) \/ UnlockPushedQueue(t) PROVE MutualExclusion'
    BY <1>3 DEF Push, UnlockPushedQueue
  <1>4. ASSUME NEW t \in Threads, UnlockMutex(t) PROVE MutualExclusion'
    BY <1>4 DEF UnlockMutex
  <1>5. ASSUME NEW t \in Threads, NEW keep \in BOOLEAN, LockQueueToPop(t, keep)
        PROVE  MutualExclusion'
    BY <1>5 DEF LockQueueToPop
  <1>6. ASSUME NEW t \in Threads, Pop(t) PROVE MutualExclusion'
    BY <1>6 DEF Pop
  <1>7. ASSUME NEW t \in Threads, UnlockPoppedQueue(t) PROVE MutualExclusion'
    <2>1. pc[head[t]] = "waiting" /\ head[t] \in Threads /\ head[t] # t
      BY <1>7 DEF UnlockPoppedQueue, Accounts, PoppedWait
    <2> QED
      BY <1>7, <2>1 DEF UnlockPoppedQueue
  <1>8. CASE UNCHANGED vars
    BY <1>8 DEF vars
  <1> QED
    BY <1>1, <1>2, <1>3, <1>4, <1>5, <1>6, <1>7, <1>8 DEF Next, TryLock, Proceed

\* Only the thread that set the queue bit works on the queue.
LEMMA NextQueueExclusion ==
    ASSUME IInv, [Next]_vars
    PROVE  QueueExclusion'
  <1> USE BitsDiffer DEF IInv, TypeOK, QueueExclusion, InQueue, Goto
  <1>1. ASSUME NEW t \in Threads, LockMutex(t) \/ UnlockMutex(t) PROVE QueueExclusion'
    BY <1>1 DEF LockMutex, UnlockMutex
  <1>2. ASSUME NEW t \in Threads, LockQueueToPush(t) PROVE QueueExclusion'
    BY <1>2 DEF LockQueueToPush
  <1>3. ASSUME NEW t \in Threads, Push(t) \/ Pop(t) PROVE QueueExclusion'
    BY <1>3 DEF Push, Pop
  <1>4. ASSUME NEW t \in Threads, UnlockPushedQueue(t) PROVE QueueExclusion'
    BY <1>4 DEF UnlockPushedQueue
  <1>5. ASSUME NEW t \in Threads, NEW keep \in BOOLEAN, LockQueueToPop(t, keep)
        PROVE  QueueExclusion'
    BY <1>5 DEF LockQueueToPop
  <1>6. ASSUME NEW t \in Threads, UnlockPoppedQueue(t) PROVE QueueExclusion'
    <2>1. pc[head[t]] = "waiting" /\ head[t] \in Threads /\ head[t] # t
      BY <1>6 DEF UnlockPoppedQueue, Accounts, PoppedWait
    <2> QED
      BY <1>6, <2>1 DEF UnlockPoppedQueue
  <1>7. CASE UNCHANGED vars
    BY <1>7 DEF vars
  <1> QED
    BY <1>1, <1>2, <1>3, <1>4, <1>5, <1>6, <1>7 DEF Next, TryLock, Proceed

\* The hint is maintained by the thread inside the queue alone.
LEMMA NextHint ==
    ASSUME IInv, [Next]_vars
    PROVE  Hint'
  <1> USE BitsDiffer DEF IInv, TypeOK, QueueExclusion, InQueue, Hint, Goto
  <1>1. ASSUME NEW t \in Threads, LockMutex(t) \/ UnlockMutex(t) PROVE Hint'
    BY <1>1 DEF LockMutex, UnlockMutex
  <1>2. ASSUME NEW t \in Threads, LockQueueToPush(t) PROVE Hint'
    BY <1>2 DEF LockQueueToPush
  <1>3. ASSUME NEW t \in Threads, Push(t) PROVE Hint'
    <2>1. m_que' # << >>
      BY <1>3 DEF Push
    <2>2. \A u \in Threads : pc'[u] \notin {"push", "pop", "popped"}
      BY <1>3 DEF Push
    <2>3. k_que_locked \in m_flags'
      BY <1>3 DEF Push
    <2> QED
      BY <2>1, <2>2, <2>3
  <1>4. ASSUME NEW t \in Threads, UnlockPushedQueue(t) PROVE Hint'
    BY <1>4 DEF UnlockPushedQueue
  <1>5. ASSUME NEW t \in Threads, NEW keep \in BOOLEAN, LockQueueToPop(t, keep) PROVE Hint'
    BY <1>5 DEF LockQueueToPop
  <1>6. ASSUME NEW t \in Threads, Pop(t) PROVE Hint'
    BY <1>6 DEF Pop
  <1>7. ASSUME NEW t \in Threads, UnlockPoppedQueue(t) PROVE Hint'
    <2>1. pc[head[t]] = "waiting" /\ head[t] \in Threads /\ head[t] # t
      BY <1>7 DEF UnlockPoppedQueue, Accounts, PoppedWait
    <2> QED
      BY <1>7, <2>1 DEF UnlockPoppedQueue
  <1>8. CASE UNCHANGED vars
    BY <1>8 DEF vars
  <1> QED
    BY <1>1, <1>2, <1>3, <1>4, <1>5, <1>6, <1>7, <1>8 DEF Next, TryLock, Proceed

\* Between a push and its last exchange only the mutex bit can change.
LEMMA NextPushedLast ==
    ASSUME IInv, [Next]_vars
    PROVE  PushedLast'
  <1> USE BitsDiffer DEF IInv, TypeOK, QueueExclusion, InQueue, PushedLast, Goto
  <1>1. ASSUME NEW t \in Threads, LockMutex(t) \/ UnlockMutex(t) PROVE PushedLast'
    BY <1>1 DEF LockMutex, UnlockMutex
  <1>2. ASSUME NEW t \in Threads, LockQueueToPush(t) PROVE PushedLast'
    BY <1>2 DEF LockQueueToPush
  <1>3. ASSUME NEW t \in Threads, Push(t) PROVE PushedLast'
    <2>1. /\ Len(m_que') = Len(m_que) + 1
          /\ m_que'[Len(m_que')] = t
          /\ Len(m_que) \in Nat
      BY <1>3 DEF Push
    <2>2. k_que_notempty \in m_flags' <=> Len(m_que) > 0
      BY <1>3 DEF Push, Hint
    <2>3. \A u \in Threads : pc'[u] = "pushed" => u = t
      BY <1>3 DEF Push
    <2> QED
      BY <2>1, <2>2, <2>3
  <1>4. ASSUME NEW t \in Threads, UnlockPushedQueue(t) PROVE PushedLast'
    BY <1>4 DEF UnlockPushedQueue
  <1>5. ASSUME NEW t \in Threads, NEW keep \in BOOLEAN, LockQueueToPop(t, keep)
        PROVE  PushedLast'
    BY <1>5 DEF LockQueueToPop
  <1>6. ASSUME NEW t \in Threads, Pop(t) PROVE PushedLast'
    BY <1>6 DEF Pop
  <1>7. ASSUME NEW t \in Threads, UnlockPoppedQueue(t) PROVE PushedLast'
    BY <1>7 DEF UnlockPoppedQueue
  <1>8. CASE UNCHANGED vars
    BY <1>8 DEF vars
  <1> QED
    BY <1>1, <1>2, <1>3, <1>4, <1>5, <1>6, <1>7, <1>8 DEF Next, TryLock, Proceed

\* No node is lost or queued twice.
LEMMA NextAccounts ==
    ASSUME IInv, [Next]_vars
    PROVE  Accounts'
  <1> USE DEF IInv, TypeOK, Accounts, Goto
  <1>0. ASSUME m_que' = m_que, head' = head,
               \A u \in Threads :
                   /\ pc'[u] \in {"pushed", "waiting"} <=> pc[u] \in {"pushed", "waiting"}
                   /\ pc[u] = "waiting" => pc'[u] = "waiting"
                   /\ pc'[u] = "popped" <=> pc[u] = "popped"
        PROVE  Accounts'
    <2>1. Distinct'
      BY <1>0 DEF Distinct
    <2>2. \A i \in 1..Len(m_que) : m_que[i] \in Threads
      OBVIOUS
    <2>3. QueuedWait'
      BY <1>0, <2>2 DEF QueuedWait
    <2>4. PoppedWait'
      BY <1>0 DEF PoppedWait
    <2>5. NobodyLost'
      BY <1>0 DEF NobodyLost
    <2> QED
      BY <2>1, <2>3, <2>4, <2>5
  <1>1. ASSUME NEW t \in Threads, TryLock(t) PROVE Accounts'
    BY <1>0, <1>1 DEF TryLock, LockMutex, LockQueueToPush
  <1>2. ASSUME NEW t \in Threads, UnlockPushedQueue(t) \/ UnlockMutex(t) PROVE Accounts'
    <2>1. /\ m_que' = m_que /\ head' = head
          /\ \/ pc[t] = "pushed" /\ pc' = [pc EXCEPT ![t] = "waiting"]
             \/ pc[t] = "own" /\ pc' = [pc EXCEPT ![t] = "out"]
      BY <1>2 DEF UnlockPushedQueue, UnlockMutex
    <2> QED
      BY <1>0, <2>1
  <1>3. ASSUME NEW t \in Threads, NEW keep \in BOOLEAN, LockQueueToPop(t, keep)
        PROVE  Accounts'
    <2>1. /\ m_que' = m_que /\ head' = head
          /\ pc[t] = "own" /\ pc' = [pc EXCEPT ![t] = "pop"]
      BY <1>3 DEF LockQueueToPop
    <2> QED
      BY <1>0, <2>1
  <1>4. ASSUME NEW t \in Threads, Push(t) PROVE Accounts'
    <2>1. /\ Len(m_que') = Len(m_que) + 1
          /\ m_que'[Len(m_que) + 1] = t
          /\ \A i \in 1..Len(m_que) : m_que'[i] = m_que[i] /\ m_que[i] # t
      BY <1>4 DEF Push, QueuedWait
    <2>2. \A u \in Threads : pc'[u] # "popped"
      BY <1>4 DEF Push, QueueExclusion, InQueue
    <2>3. Distinct' /\ QueuedWait' /\ PoppedWait'
      BY <1>4, <2>1, <2>2 DEF Push, Distinct, QueuedWait, PoppedWait
    <2>4. NobodyLost'
      BY <1>4, <2>1, <2>2 DEF Push, NobodyLost, QueueExclusion, InQueue
    <2> QED
      BY <2>3, <2>4
  <1>5. ASSUME NEW t \in Threads, Pop(t) PROVE Accounts'
    <2>1. /\ Len(m_que) > 0
          /\ Len(m_que') = Len(m_que) - 1
          /\ \A i \in 1..Len(m_que') : m_que'[i] = m_que[i + 1]
          /\ head'[t] = m_que[1]
      BY <1>5 DEF Pop
    <2>2. \A u \in Threads \ {t} : pc'[u] = pc[u] /\ pc[u] \notin {"pushed", "popped"}
      BY <1>5 DEF Pop, QueueExclusion, InQueue
    <2>3. pc'[t] = "popped" /\ pc[t] = "pop"
      BY <1>5 DEF Pop
    <2>a. \A i \in 1..Len(m_que') : i + 1 \in 1..Len(m_que)
      BY <2>1
    <2>b. Distinct'
      BY <2>1, <2>a DEF Distinct
    <2>c. QueuedWait'
      BY <2>1, <2>2, <2>3, <2>a DEF QueuedWait
    <2>4. Distinct' /\ QueuedWait'
      BY <2>b, <2>c
    <2>5. PoppedWait'
      BY <2>1, <2>2, <2>3 DEF Distinct, QueuedWait, PoppedWait
    <2>6. ASSUME NEW u \in Threads, pc'[u] \in {"pushed", "waiting"}
          PROVE  \/ \E i \in 1..Len(m_que') : m_que'[i] = u
                 \/ \E w \in Threads : pc'[w] = "popped" /\ head'[w] = u
      <3>1. PICK i \in 1..Len(m_que) : m_que[i] = u
        BY <2>2, <2>3, <2>6 DEF NobodyLost
      <3>2. CASE i = 1
        BY <2>1, <2>3, <3>1, <3>2
      <3>3. CASE i # 1
        <4>1. i - 1 \in 1..Len(m_que') /\ m_que'[i - 1] = u
          BY <2>1, <3>1, <3>3
        <4> QED
          BY <4>1
      <3> QED
        BY <3>2, <3>3
    <2> QED
      BY <2>4, <2>5, <2>6 DEF NobodyLost
  <1>6. ASSUME NEW t \in Threads, UnlockPoppedQueue(t) PROVE Accounts'
    <2>1. /\ pc[head[t]] = "waiting" /\ head[t] \in Threads /\ head[t] # t
          /\ \A i \in 1..Len(m_que) : m_que[i] # head[t]
      BY <1>6 DEF UnlockPoppedQueue, PoppedWait
    <2>2. \A u \in Threads \ {t} : pc[u] \notin {"pushed", "popped"}
      BY <1>6 DEF UnlockPoppedQueue, QueueExclusion, InQueue
    <2>3. /\ pc'[t] = "out" /\ pc'[head[t]] \in {"own", "out"}
          /\ \A u \in Threads \ {t, head[t]} : pc'[u] = pc[u]
          /\ m_que' = m_que /\ head' = head
      BY <1>6, <2>1 DEF UnlockPoppedQueue
    <2>4. Distinct' /\ QueuedWait' /\ PoppedWait'
      BY <1>6, <2>1, <2>2, <2>3 DEF UnlockPoppedQueue, Distinct, QueuedWait, PoppedWait
    <2>5. NobodyLost'
      BY <1>6, <2>1, <2>2, <2>3 DEF UnlockPoppedQueue, NobodyLost
    <2> QED
      BY <2>4, <2>5
  <1>7. CASE UNCHANGED vars
    BY <1>7 DEF vars, Distinct, QueuedWait, PoppedWait, NobodyLost
  <1> QED
    BY <1>1, <1>2, <1>3, <1>4, <1>5, <1>6, <1>7 DEF Next, Proceed

-----------------------------------------------------------------------------
\* The inductive invariant.
THEOREM Inductive == Spec => []IInv
  <1>1. Init => IInv
    <2> SUFFICES ASSUME Init PROVE IInv
      OBVIOUS
    <2> USE DEF Init, InitialFlags
    <2>1. TypeOK
      BY DEF TypeOK
    <2>2. MutualExclusion /\ QueueExclusion
      BY DEF MutualExclusion, Holds, QueueExclusion, InQueue
    <2>3. Hint /\ PushedLast /\ Accounts
      BY DEF Hint, PushedLast, Accounts, Distinct, QueuedWait, PoppedWait, NobodyLost
    <2> QED
      BY <2>1, <2>2, <2>3 DEF IInv
  <1>2. IInv /\ [Next]_vars => IInv'
    BY NextTypes, NextMutualExclusion, NextQueueExclusion, NextHint, NextPushedLast,
       NextAccounts
    DEF IInv
  <1> QED
    BY <1>1, <1>2, PTL DEF Spec

\* Every variable of the lock keeps its type.
THEOREM TypeCorrect == Spec => []TypeOK
  BY Inductive, PTL DEF IInv

\* One holder of the mutex at most, also across a hand-over to a waiter.
THEOREM MutexIsExclusive == Spec => []MutualExclusion
  <1>1. IInv => MutualExclusion
    BY DEF IInv
  <1> QED
    BY <1>1, Inductive, PTL

\* One thread inside the waiter queue at most: the exit(1) on que_thd_cnt is dead code.
THEOREM QueueIsExclusive == Spec => []QueueExclusion
  <1>1. IInv => QueueExclusion
    BY DEF IInv
  <1> QED
    BY <1>1, Inductive, PTL

\* k_que_notempty tells the truth whenever the queue is not locked, and pop_nocheck
\* always finds a node.
THEOREM HintIsExact == Spec => []HintExact
  <1>1. IInv => HintExact
    <2> SUFFICES ASSUME IInv PROVE HintExact
      OBVIOUS
    <2>1. ASSUME k_que_notempty \in m_flags, \A t \in Threads : pc[t] # "popped"
          PROVE  m_que # << >>
      <3>1. CASE k_que_locked \notin m_flags
        BY <2>1, <3>1 DEF IInv, Hint
      <3>2. CASE k_que_locked \in m_flags
        <4>1. PICK t \in Threads : pc[t] \in {"push", "pushed", "pop"}
          BY <2>1, <3>2 DEF IInv, QueueExclusion, InQueue
        <4> QED
          BY <2>1, <4>1 DEF IInv, Hint
      <3> QED
        BY <3>1, <3>2
    <2> QED
      BY <2>1 DEF IInv, Hint, HintExact
  <1> QED
    BY <1>1, Inductive, PTL

\* Every waiting node is in the queue exactly once or in the hand of its popper.
THEOREM NoWaiterLost == Spec => []WaitersAccounted
  <1>1. IInv => WaitersAccounted
    <2> SUFFICES ASSUME IInv PROVE WaitersAccounted
      OBVIOUS
    <2> USE DEF IInv, TypeOK, Accounts
    <2>1. DOMAIN m_que = 1..Len(m_que)
      OBVIOUS
    <2>2. IsInjective(m_que)
      BY <2>1 DEF IsInjective, Distinct
    <2>3. Range(m_que) = {m_que[i] : i \in 1..Len(m_que)}
      BY <2>1 DEF Range
    <2>4. \A t \in Threads : pc[t] = "popped" => head[t] \notin Range(m_que)
      BY <2>3 DEF PoppedWait
    <2>5. {t \in Threads : pc[t] \in {"pushed", "waiting"}} =
              Range(m_que) \cup {head[t] : t \in {u \in Threads : pc[u] = "popped"}}
      BY <2>3 DEF QueuedWait, PoppedWait, NobodyLost
    <2> QED
      BY <2>2, <2>4, <2>5 DEF WaitersAccounted
  <1> QED
    BY <1>1, Inductive, PTL

-----------------------------------------------------------------------------
(* Refinement: LockCore is a WaitLock *)

\* What the listed waiters are, by who is inside the queue.
LEMMA ListedCases ==
    ASSUME IInv
    PROVE  /\ \A t \in Threads : pc[t] = "pop" => Listed = Tail(m_que)
           /\ \A t \in Threads :
                 pc[t] = "pushed" => Listed = SubSeq(m_que, 1, Len(m_que) - 1)
           /\ (\A t \in Threads : pc[t] \notin {"pop", "pushed"}) => Listed = m_que
  <1> USE DEF IInv, QueueExclusion, InQueue, Listed
  <1>1. ASSUME NEW t \in Threads, pc[t] = "pop" PROVE Listed = Tail(m_que)
    BY <1>1
  <1>2. ASSUME NEW t \in Threads, pc[t] = "pushed"
        PROVE  Listed = SubSeq(m_que, 1, Len(m_que) - 1)
    <2>1. \A u \in Threads : pc[u] # "pop"
      BY <1>2
    <2> QED
      BY <1>2, <2>1
  <1>3. ASSUME \A t \in Threads : pc[t] \notin {"pop", "pushed"} PROVE Listed = m_que
    BY <1>3
  <1> QED
    BY <1>1, <1>2, <1>3

\* A positive length that is not above one is one.
LEMMA OnlyOne ==
    ASSUME NEW n \in Nat, n > 0, ~(n > 1)
    PROVE  n = 1
  OBVIOUS

\* Every exchange on m_flags is one step of the WaitLock; the steps on the queue
\* itself are invisible.
LEMMA NextRefines ==
    ASSUME IInv, IInv', [Next]_vars
    PROVE  [Abstract!Next]_Abstract!vars
  <1> USE BitsDiffer DEF Abstract!Next, Abstract!vars, Goto
  <1>i. /\ TypeOK /\ QueueExclusion /\ Hint /\ PushedLast
        /\ TypeOK' /\ QueueExclusion'
    BY DEF IInv
  <1> USE DEF TypeOK
  <1>1. ASSUME NEW t \in Threads, LockMutex(t) PROVE Abstract!Lock
    <2>1. Listed' = Listed /\ Arriving' = Arriving
      BY <1>1, <1>i DEF LockMutex, Listed, Arriving
    <2> QED
      BY <1>1, <2>1 DEF LockMutex, Abstract!Lock
  <1>2. ASSUME NEW t \in Threads, LockQueueToPush(t) PROVE Abstract!Arrive(t)
    <2>1. Listed' = Listed /\ Arriving' = Arriving \cup {t}
      BY <1>2, <1>i DEF LockQueueToPush, Listed, Arriving
    <2> QED
      BY <1>2, <2>1 DEF LockQueueToPush, Abstract!Arrive
  <1>3. ASSUME NEW t \in Threads, Push(t) PROVE UNCHANGED Abstract!vars
    <2>1. Listed = m_que
      BY <1>3, <1>i, ListedCases DEF Push, QueueExclusion, InQueue
    <2>2. Listed' = SubSeq(m_que', 1, Len(m_que') - 1)
      BY <1>3, <1>i DEF Push, QueueExclusion, InQueue, Listed
    <2>3. SubSeq(m_que', 1, Len(m_que') - 1) = m_que
      BY <1>3, <1>i DEF Push
    <2>4. Arriving' = Arriving
      BY <1>3, <1>i DEF Push, Arriving
    <2> QED
      BY <1>3, <2>1, <2>2, <2>3, <2>4 DEF Push
  <1>4. ASSUME NEW t \in Threads, UnlockPushedQueue(t) PROVE Abstract!Join(t)
    <2>1. Listed = SubSeq(m_que, 1, Len(m_que) - 1)
      BY <1>4, ListedCases DEF UnlockPushedQueue
    <2>2. Listed' = m_que
      BY <1>4, <1>i DEF UnlockPushedQueue, QueueExclusion, InQueue, Listed
    <2>3. m_que = Append(SubSeq(m_que, 1, Len(m_que) - 1), t)
      BY <1>4, <1>i DEF UnlockPushedQueue, PushedLast
    <2>4. t \in Arriving /\ Arriving' = Arriving \ {t}
      BY <1>4, <1>i DEF UnlockPushedQueue, Arriving
    <2>5. Listed' = Append(Listed, t)
      BY <2>1, <2>2, <2>3
    <2>6. (k_mtx_locked \in m_flags)' = (k_mtx_locked \in m_flags)
      BY <1>4 DEF UnlockPushedQueue
    <2> QED
      BY <2>4, <2>5, <2>6 DEF Abstract!Join
  <1>5. ASSUME NEW t \in Threads, UnlockMutex(t) PROVE Abstract!Free
    <2>1. Listed = << >>
      <3>1. CASE \E u \in Threads : pc[u] = "pushed"
        <4>1. PICK u \in Threads : pc[u] = "pushed"
          BY <3>1
        <4>2. Len(m_que) = 1
          <5>1. Len(m_que) \in Nat
            BY <1>i
          <5>2. Len(m_que) > 0 /\ ~(Len(m_que) > 1)
            BY <1>5, <1>i, <4>1 DEF UnlockMutex, PushedLast
          <5> QED
            BY <5>1, <5>2, OnlyOne
        <4>3. SubSeq(m_que, 1, Len(m_que) - 1) = << >>
          BY <4>2, <1>i
        <4> QED
          BY <4>1, <4>3, ListedCases
      <3>2. CASE \A u \in Threads : pc[u] # "pushed"
        <4>1. \A u \in Threads : pc[u] \notin {"pop", "popped", "pushed"}
          BY <1>5, <1>i, <3>2 DEF UnlockMutex, Hint
        <4>2. k_que_locked \notin m_flags \/ \E u \in Threads : pc[u] = "push"
          BY <1>i, <4>1 DEF QueueExclusion, InQueue
        <4>3. m_que = << >>
          BY <1>5, <1>i, <4>2 DEF UnlockMutex, Hint
        <4> QED
          BY <4>1, <4>3, ListedCases
      <3> QED
        BY <3>1, <3>2
    <2>2. Listed' = Listed /\ Arriving' = Arriving
      BY <1>5, <1>i DEF UnlockMutex, Listed, Arriving
    <2>3. k_mtx_locked \in m_flags
      BY <1>5, <1>i DEF UnlockMutex, IInv, MutualExclusion, Holds
    <2> QED
      BY <1>5, <2>1, <2>2, <2>3 DEF UnlockMutex, Abstract!Free
  <1>6. ASSUME NEW t \in Threads, NEW keep \in BOOLEAN, LockQueueToPop(t, keep)
        PROVE  Abstract!Release(keep)
    <2>1. Listed = m_que /\ m_que # << >>
      BY <1>6, <1>i, ListedCases DEF LockQueueToPop, QueueExclusion, InQueue, Hint
    <2>a. Arriving' = Arriving
      BY <1>6, <1>i DEF LockQueueToPop, Arriving
    <2>b. /\ pc'[t] = "pop" /\ m_que' = m_que
          /\ \A u \in Threads : pc'[u] # "pushed"
      BY <1>6, <1>i DEF LockQueueToPop, QueueExclusion, InQueue
    <2>c. Listed' = Tail(m_que)
      BY <2>b DEF Listed
    <2>2. Listed' = Tail(m_que) /\ Arriving' = Arriving
      BY <2>a, <2>c
    <2>3. k_mtx_locked \in m_flags
      BY <1>6, <1>i DEF LockQueueToPop, IInv, MutualExclusion, Holds
    <2> QED
      BY <1>6, <2>1, <2>2, <2>3 DEF LockQueueToPop, Abstract!Release
  <1>7. ASSUME NEW t \in Threads, Pop(t) PROVE UNCHANGED Abstract!vars
    <2>1. Listed = Tail(m_que)
      BY <1>7, ListedCases DEF Pop
    <2>2. Listed' = m_que' /\ Arriving' = Arriving
      BY <1>7, <1>i DEF Pop, QueueExclusion, InQueue, Listed, Arriving
    <2> QED
      BY <1>7, <2>1, <2>2 DEF Pop
  <1>8. ASSUME NEW t \in Threads, UnlockPoppedQueue(t) PROVE UNCHANGED Abstract!vars
    <2>1. Listed = m_que
      BY <1>8, <1>i, ListedCases DEF UnlockPoppedQueue, QueueExclusion, InQueue
    <2>2. Listed' = m_que
      BY <1>8, <1>i DEF UnlockPoppedQueue, QueueExclusion, InQueue, Listed
    <2>3. pc[head[t]] = "waiting" /\ head[t] \in Threads /\ head[t] # t
      BY <1>8 DEF UnlockPoppedQueue, IInv, Accounts, PoppedWait
    <2>4. Arriving' = Arriving
      BY <1>8, <1>i, <2>3 DEF UnlockPoppedQueue, Arriving
    <2> QED
      BY <1>8, <2>1, <2>2, <2>4 DEF UnlockPoppedQueue
  <1>9. CASE UNCHANGED vars
    BY <1>9 DEF vars, Listed, Arriving
  <1> QED
    BY <1>1, <1>2, <1>3, <1>4, <1>5, <1>6, <1>7, <1>8, <1>9 DEF Next, TryLock, Proceed

\* ImplementsWaitLock for any number of threads: every exchange on the three bits is
\* one atomic step of a lock with a fair list of waiters.
THEOREM RefinesWaitLock == Spec => ImplementsWaitLock
  <1>1. Init => Abstract!Init
    BY DEF Init, InitialFlags, Abstract!Init, Arriving, Listed
  <1>2. IInv /\ IInv' /\ [Next]_vars => [Abstract!Next]_Abstract!vars
    BY NextRefines
  <1> QED
    BY <1>1, <1>2, Inductive, PTL DEF Spec, Abstract!Spec, ImplementsWaitLock
=============================================================================

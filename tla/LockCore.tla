------------------------------ MODULE LockCore ------------------------------
(***************************************************************************)
(* LockCore of mutex.h: a mutex, the lock of its waiter queue and a hint   *)
(* that the queue is not empty, all in the bits of one atomic integer,     *)
(* together with the use Mutex::unlock makes of the popped waiter.         *)
(*                                                                         *)
(* A compare_exchange loop that recomputes its expected value on failure   *)
(* is the one action in which the exchange succeeds; its guard is what the *)
(* expected value assumes of the bits.                                     *)
(***************************************************************************)
EXTENDS Naturals, Sequences, FiniteSets, Functions

CONSTANT Threads

VARIABLES m_flags, \* the bits that are set
          m_que,   \* the queued nodes; a node is named by the thread waiting on it
          pc,
          head,    \* unlock's local: the popped node
          mtx_kept \* unlock's argument unlock_mtx_only_if_que_empty

vars == <<m_flags, m_que, pc, head, mtx_kept>>

k_mtx_locked == "mtx_locked"
k_que_locked == "que_locked"
k_que_notempty == "que_notempty"

TypeOK ==
    /\ m_flags \in SUBSET {k_mtx_locked, k_que_locked, k_que_notempty}
    /\ m_que \in Seq(Threads)
    /\ pc \in [Threads -> {"out", "push", "pushed", "waiting", "own", "pop", "popped"}]
    /\ head \in [Threads -> Threads]
    /\ mtx_kept \in [Threads -> BOOLEAN]

\* Faulty variant: the atomic is left uninitialized.
UninitializedFlags == {"garbage"}

InitialFlags == {}

Init ==
    /\ m_flags = InitialFlags
    /\ m_que = << >>
    /\ pc = [t \in Threads |-> "out"]
    /\ head = [t \in Threads |-> t]
    /\ mtx_kept = [t \in Threads |-> FALSE]

Goto(t, here, there) ==
    /\ pc[t] = here
    /\ pc' = [pc EXCEPT ![t] = there]

-----------------------------------------------------------------------------
(* try_lock *)

LockMutex(t) ==
    /\ Goto(t, "out", "own")
    /\ k_mtx_locked \notin m_flags
    /\ m_flags' = m_flags \cup {k_mtx_locked}
    /\ UNCHANGED <<m_que, head, mtx_kept>>

\* Faulty variant: the queue's own lock is not looked at.
LockQueueToPushBlindly(t) ==
    /\ Goto(t, "out", "push")
    /\ k_mtx_locked \in m_flags
    /\ m_flags' = m_flags \cup {k_que_locked}
    /\ UNCHANGED <<m_que, head, mtx_kept>>

LockQueueToPush(t) ==
    /\ Goto(t, "out", "push")
    /\ k_mtx_locked \in m_flags
    /\ k_que_locked \notin m_flags
    /\ m_flags' = m_flags \cup {k_que_locked}
    /\ UNCHANGED <<m_que, head, mtx_kept>>

\* Faulty variant: the waiter is put first.
PushFront(t) ==
    /\ Goto(t, "push", "pushed")
    /\ m_que' = <<t>> \o m_que
    /\ UNCHANGED <<m_flags, head, mtx_kept>>

Push(t) ==
    /\ Goto(t, "push", "pushed")
    /\ m_que' = Append(m_que, t)
    /\ UNCHANGED <<m_flags, head, mtx_kept>>

\* Faulty variant: the hint is not raised.
UnlockPushedQueueOnly(t) ==
    /\ Goto(t, "pushed", "waiting")
    /\ m_flags' = m_flags \ {k_que_locked}
    /\ UNCHANGED <<m_que, head, mtx_kept>>

UnlockPushedQueue(t) ==
    /\ Goto(t, "pushed", "waiting")
    /\ m_flags' = (m_flags \ {k_que_locked}) \cup {k_que_notempty}
    /\ UNCHANGED <<m_que, head, mtx_kept>>

-----------------------------------------------------------------------------
(* unlock(keep) *)

UnlockMutex(t) ==
    /\ Goto(t, "own", "out")
    /\ k_que_notempty \notin m_flags
    /\ m_flags' = m_flags \ {k_mtx_locked}
    /\ UNCHANGED <<m_que, head, mtx_kept>>

\* Faulty variant: the mutex is released whatever the caller asked for.
LockQueueDropMutex(t, keep) ==
    /\ Goto(t, "own", "pop")
    /\ k_que_notempty \in m_flags
    /\ k_que_locked \notin m_flags
    /\ m_flags' = (m_flags \cup {k_que_locked}) \ {k_mtx_locked}
    /\ mtx_kept' = [mtx_kept EXCEPT ![t] = keep]
    /\ UNCHANGED <<m_que, head>>

LockQueueToPop(t, keep) ==
    /\ Goto(t, "own", "pop")
    /\ k_que_notempty \in m_flags
    /\ k_que_locked \notin m_flags
    /\ m_flags' = (m_flags \cup {k_que_locked}) \ (IF keep THEN {} ELSE {k_mtx_locked})
    /\ mtx_kept' = [mtx_kept EXCEPT ![t] = keep]
    /\ UNCHANGED <<m_que, head>>

\* Faulty variant: the node is not unlinked.
PopLinked(t) ==
    /\ Goto(t, "pop", "popped")
    /\ m_que # << >>
    /\ head' = [head EXCEPT ![t] = Head(m_que)]
    /\ UNCHANGED <<m_que, m_flags, mtx_kept>>

Pop(t) ==
    /\ Goto(t, "pop", "popped")
    /\ m_que # << >>
    /\ head' = [head EXCEPT ![t] = Head(m_que)]
    /\ m_que' = Tail(m_que)
    /\ UNCHANGED <<m_flags, mtx_kept>>

\* Faulty variant: the hint is cleared although the queue may not be empty.
UnlockPoppedQueueAndHint(t) ==
    /\ pc[t] = "popped"
    /\ m_flags' = m_flags \ {k_que_locked, k_que_notempty}
    /\ pc' = [pc EXCEPT ![t] = "out", ![head[t]] = IF mtx_kept[t] THEN "own" ELSE "out"]
    /\ UNCHANGED <<m_que, head, mtx_kept>>

\* The popped waiter owns the kept mutex (Mutex::unlock posts it to its context),
\* or is back where it may try again.
UnlockPoppedQueue(t) ==
    /\ pc[t] = "popped"
    /\ m_flags' = m_flags \ (IF m_que = << >> THEN {k_que_locked, k_que_notempty}
                                              ELSE {k_que_locked})
    /\ pc' = [pc EXCEPT ![t] = "out", ![head[t]] = IF mtx_kept[t] THEN "own" ELSE "out"]
    /\ UNCHANGED <<m_que, head, mtx_kept>>

-----------------------------------------------------------------------------
TryLock(t) == LockMutex(t) \/ LockQueueToPush(t)

\* The steps a thread that has begun to push, own or pop goes on with.
Proceed(t) ==
    \/ Push(t) \/ UnlockPushedQueue(t)
    \/ UnlockMutex(t) \/ (\E keep \in BOOLEAN : LockQueueToPop(t, keep))
    \/ Pop(t) \/ UnlockPoppedQueue(t)

Next == \E t \in Threads : TryLock(t) \/ Proceed(t)

Spec == Init /\ [][Next]_vars

\* Nobody has to call try_lock, but every owner unlocks and no thread stops half way.
FairSpec == Spec /\ \A t \in Threads : WF_vars(Proceed(t))

-----------------------------------------------------------------------------
(* Properties *)

\* The threads that own the mutex or, popping a waiter, still hold it for that waiter.
Holds(t) == pc[t] = "own" \/ (pc[t] \in {"pop", "popped"} /\ mtx_kept[t])
InQueue(t) == pc[t] \in {"push", "pushed", "pop", "popped"}

\* The mutex has one holder at most, also while it is passed to a waiter, and the
\* bit is set exactly while it has one.
MutualExclusion ==
    /\ \A t, u \in Threads : Holds(t) /\ Holds(u) => t = u
    /\ k_mtx_locked \in m_flags <=> \E t \in Threads : Holds(t)

\* que_thd_cnt never exceeds one: pushers and poppers exclude each other although
\* a pusher holds no mutex and a popper may have released it.
QueueExclusion ==
    /\ \A t, u \in Threads : InQueue(t) /\ InQueue(u) => t = u
    /\ k_que_locked \in m_flags <=> \E t \in Threads : InQueue(t)

\* Whenever nobody is inside the queue the hint is exact, and the unchecked pop
\* finds a node.
HintExact ==
    /\ k_que_locked \notin m_flags => (k_que_notempty \in m_flags <=> m_que # << >>)
    /\ (k_que_notempty \in m_flags /\ \A t \in Threads : pc[t] # "popped") => m_que # << >>

\* Every waiter is in exactly one place: in the queue, once, or in the hand of the
\* one thread that popped it.
WaitersAccounted ==
    /\ IsInjective(m_que)
    /\ {t \in Threads : pc[t] \in {"pushed", "waiting"}} =
           Range(m_que) \cup {head[t] : t \in {u \in Threads : pc[u] = "popped"}}
    /\ \A t \in Threads : pc[t] = "popped" => head[t] \notin Range(m_que)

\* In terms of WaitLock a waiter joins when the pusher raises the hint, and leaves
\* when the popper takes the queue's lock.
Arriving == {t \in Threads : pc[t] \in {"push", "pushed"}}
Listed ==
    CASE \E t \in Threads : pc[t] = "pop" -> Tail(m_que)
      [] \E t \in Threads : pc[t] = "pushed" -> SubSeq(m_que, 1, Len(m_que) - 1)
      [] OTHER -> m_que

Abstract == INSTANCE WaitLock WITH
    Waiters <- Threads,
    locked <- k_mtx_locked \in m_flags, arriving <- Arriving, queue <- Listed

\* Each of the exchanges on m_flags is one atomic lock operation: waiters are served
\* in the order they joined, and only joining is apart from finding the lock taken.
ImplementsWaitLock == Abstract!Spec

\* As long as the mutex keeps being used, every waiter gets its turn.
WaitersServed ==
    \A t \in Threads :
        []<>(\E u \in Threads : pc[u] = "own") => (pc[t] = "waiting" ~> pc[t] # "waiting")

\* With every call finished and the mutex free nobody is left in the queue:
\* the assertion lc._count() == 0 at the end of examples/lockcore.
NobodyLeftBehind ==
    (k_mtx_locked \notin m_flags /\ \A t \in Threads : pc[t] \in {"out", "waiting"})
        => m_que = << >>
=============================================================================

---------------------------- MODULE DnsResolver ----------------------------
(***************************************************************************)
(* DnsResolver of dns_resolver.h: coroutines on context threads push       *)
(* requests, worker threads pop and resolve them and post the answers      *)
(* back, and a destructor stops the workers and joins them.                *)
(*                                                                         *)
(* m_requests is guarded by m_spinlock, which is held for single accesses; *)
(* m_threads is written under m_mutex and read under m_spinlock; m_abort   *)
(* is written under m_mutex and mostly read without it.                    *)
(***************************************************************************)
EXTENDS Naturals, Sequences, FiniteSets, Functions

CONSTANTS Requests, \* the awaiters: each is a coroutine that may ask again
          Workers,  \* the threads that can be started at most
          callers,  \* the context threads, each inside one await_suspend at most
          Nobody

ASSUME NamesAssumption == /\ IsFiniteSet(Workers) /\ IsFiniteSet(Requests)
                          /\ Requests \cap Workers = {}
                          /\ Nobody \notin Requests \cup Workers
ASSUME CallersAssumption == callers \in Nat

VARIABLES m_mutex,    \* its owner
          m_condv,    \* the workers inside m_condv.wait that were not notified
          m_requests,
          m_threads,  \* the workers that were started
          m_abort,
          request,    \* where each request is
          notifying,  \* the callers that pushed a request and have yet to notify
          worker,     \* where each worker is
          awaiter,    \* the request each worker has popped
          destructor

requestVars == <<request, notifying>>
workerVars == <<worker, awaiter>>
dnsVars == <<m_mutex, m_condv, m_requests, m_threads, m_abort, request, notifying, worker,
          awaiter, destructor>>

TypeOK ==
    /\ m_mutex \in Workers \cup Requests \cup {Nobody}
    /\ m_condv \in SUBSET Workers
    /\ m_requests \in Seq(Requests)
    /\ m_threads = {w \in Workers : worker[w] # "none"}
    /\ m_abort \in BOOLEAN
    /\ request \in [Requests -> {"running", "add", "adding", "push", "asked", "posted"}]
    /\ notifying \in 0..callers
    /\ worker \in [Workers -> {"none", "outer", "lock", "inner", "empty", "waiting",
                               "unlock", "check", "resolve", "exit"}]
    /\ awaiter \in [Workers -> Requests \cup {Nobody}]
    /\ destructor \in {"no", "notify", "join", "done"}

\* add_workers may have been called before.
DnsInit ==
    /\ m_mutex = Nobody
    /\ m_condv = {}
    /\ m_requests = << >>
    /\ m_threads \in SUBSET Workers
    /\ m_abort = FALSE
    /\ request = [r \in Requests |-> "running"]
    /\ notifying = 0
    /\ worker = [w \in Workers |-> IF w \in m_threads THEN "outer" ELSE "none"]
    /\ awaiter = [w \in Workers |-> Nobody]
    /\ destructor = "no"

LockMutex(who) == m_mutex = Nobody /\ m_mutex' = who
UnlockMutex(who) == m_mutex = who /\ m_mutex' = Nobody

-----------------------------------------------------------------------------
(* DnsResolverAwaiter::await_suspend *)

Moves(r, here, there) ==
    /\ request[r] = here
    /\ request' = [request EXCEPT ![r] = there]

Adding == {r \in Requests : request[r] \in {"add", "adding", "push"}}

\* Faulty variant: a stack in place of the queue.
PushOnTop(r) == m_requests' = <<r>> \o m_requests /\ notifying' = notifying + 1

Push(r) == m_requests' = Append(m_requests, r) /\ notifying' = notifying + 1

\* Does m_threads.size() = 0?  While another caller is adding, the vector is written
\* under the other lock, and the answer is either.
Workerless == IF m_mutex \in Requests THEN BOOLEAN ELSE {m_threads = {}}

\* With workers, the check and the push are one critical section.
Ask(r) ==
    /\ destructor = "no" /\ notifying + Cardinality(Adding) < callers
    /\ \/ FALSE \in Workerless /\ Moves(r, "running", "asked") /\ Push(r)
       \/ /\ TRUE \in Workerless /\ Moves(r, "running", "add")
          /\ Cardinality(Adding) < Cardinality({w \in Workers : worker[w] = "none"})
          /\ UNCHANGED <<m_requests, notifying>>
    /\ UNCHANGED <<m_mutex, m_condv, m_threads, m_abort, workerVars, destructor>>

add_worker(r, w) ==
    /\ Moves(r, "add", "adding") /\ LockMutex(r)
    /\ worker[w] = "none"
    /\ worker' = [worker EXCEPT ![w] = "outer"]
    /\ m_threads' = m_threads \cup {w}
    /\ UNCHANGED <<m_condv, m_requests, m_abort, notifying, awaiter, destructor>>

AddedWorker(r) ==
    /\ Moves(r, "adding", "push") /\ UnlockMutex(r)
    /\ UNCHANGED <<m_condv, m_requests, m_threads, m_abort, notifying, workerVars,
                   destructor>>

PushRequest(r) ==
    /\ Moves(r, "push", "asked") /\ Push(r)
    /\ UNCHANGED <<m_mutex, m_condv, m_threads, m_abort, workerVars, destructor>>

WakeOne ==
    \/ m_condv = {} /\ UNCHANGED m_condv
    \/ \E w \in m_condv : m_condv' = m_condv \ {w}

\* notify_one, without m_mutex.  The request may have been answered by now.
NotifyOne ==
    /\ notifying > 0
    /\ notifying' = notifying - 1
    /\ WakeOne
    /\ UNCHANGED <<m_mutex, m_requests, m_threads, m_abort, request, workerVars,
                   destructor>>

do_local_task(r) ==
    /\ Moves(r, "posted", "running")
    /\ UNCHANGED <<m_mutex, m_condv, m_requests, m_threads, m_abort, notifying,
                   workerVars, destructor>>

-----------------------------------------------------------------------------
(* work *)

Goto(w, here, there) ==
    /\ worker[w] = here
    /\ worker' = [worker EXCEPT ![w] = there]

StartRound(w) ==
    /\ Goto(w, "outer", IF m_abort THEN "exit" ELSE "lock")
    /\ UNCHANGED <<m_mutex, m_condv, m_requests, m_threads, m_abort, requestVars,
                   awaiter, destructor>>

Lock(w) ==
    /\ Goto(w, "lock", "inner") /\ LockMutex(w)
    /\ UNCHANGED <<m_condv, m_requests, m_threads, m_abort, requestVars, awaiter,
                   destructor>>

\* Faulty variant: the request stays in the queue.
PeekRequest(w) ==
    /\ \/ m_abort /\ Goto(w, "inner", "unlock") /\ UNCHANGED awaiter
       \/ ~m_abort /\ m_requests = << >> /\ Goto(w, "inner", "empty") /\ UNCHANGED awaiter
       \/ /\ ~m_abort /\ m_requests # << >> /\ Goto(w, "inner", "unlock")
          /\ awaiter' = [awaiter EXCEPT ![w] = Head(m_requests)]
    /\ UNCHANGED <<m_requests, m_mutex, m_condv, m_threads, m_abort, requestVars,
                   destructor>>

\* Faulty variant: m_abort is not read again under the mutex.
PopRequestAnyway(w) ==
    /\ \/ /\ m_requests = << >> /\ Goto(w, "inner", "empty")
          /\ UNCHANGED <<m_requests, awaiter>>
       \/ /\ m_requests # << >> /\ Goto(w, "inner", "unlock")
          /\ awaiter' = [awaiter EXCEPT ![w] = Head(m_requests)]
          /\ m_requests' = Tail(m_requests)
    /\ UNCHANGED <<m_mutex, m_condv, m_threads, m_abort, requestVars, destructor>>

PopRequest(w) ==
    /\ \/ /\ m_abort /\ Goto(w, "inner", "unlock")
          /\ UNCHANGED <<m_requests, awaiter>>
       \/ /\ ~m_abort /\ m_requests = << >> /\ Goto(w, "inner", "empty")
          /\ UNCHANGED <<m_requests, awaiter>>
       \/ /\ ~m_abort /\ m_requests # << >> /\ Goto(w, "inner", "unlock")
          /\ awaiter' = [awaiter EXCEPT ![w] = Head(m_requests)]
          /\ m_requests' = Tail(m_requests)
    /\ UNCHANGED <<m_mutex, m_condv, m_threads, m_abort, requestVars, destructor>>

Wait(w) ==
    /\ Goto(w, "empty", "waiting") /\ UnlockMutex(w)
    /\ m_condv' = m_condv \cup {w}
    /\ UNCHANGED <<m_requests, m_threads, m_abort, requestVars, awaiter, destructor>>

Wakeup(w) ==
    /\ w \notin m_condv
    /\ Goto(w, "waiting", "inner") /\ LockMutex(w)
    /\ UNCHANGED <<m_condv, m_requests, m_threads, m_abort, requestVars, awaiter,
                   destructor>>

\* A condition variable may return from wait without a notification.
SpuriousWakeup(w) ==
    /\ w \in m_condv
    /\ m_condv' = m_condv \ {w}
    /\ UNCHANGED <<m_mutex, m_requests, m_threads, m_abort, requestVars, workerVars,
                   destructor>>

Unlock(w) ==
    /\ Goto(w, "unlock", "check") /\ UnlockMutex(w)
    /\ UNCHANGED <<m_condv, m_requests, m_threads, m_abort, requestVars, awaiter,
                   destructor>>

\* Faulty variant: m_abort is not read again after the mutex is released.
CheckNothing(w) ==
    /\ Goto(w, "check", "resolve")
    /\ UNCHANGED <<m_mutex, m_condv, m_requests, m_threads, m_abort, requestVars,
                   awaiter, destructor>>

\* A request popped before an abort is dropped.
CheckAbort(w) ==
    /\ Goto(w, "check", IF m_abort THEN "exit" ELSE "resolve")
    /\ UNCHANGED <<m_mutex, m_condv, m_requests, m_threads, m_abort, requestVars,
                   awaiter, destructor>>

\* gethostaddr returned: post the answer.
Resolve(w) ==
    /\ Goto(w, "resolve", "outer")
    /\ Moves(awaiter[w], "asked", "posted")
    /\ awaiter' = [awaiter EXCEPT ![w] = Nobody]
    /\ UNCHANGED <<m_mutex, m_condv, m_requests, m_threads, m_abort, notifying,
                   destructor>>

-----------------------------------------------------------------------------
(* ~DnsResolver, when no call of await_suspend is under way *)

DestructorMoves(here, there) == destructor = here /\ destructor' = there

SetAbort ==
    /\ DestructorMoves("no", "notify")
    /\ m_mutex = Nobody /\ notifying = 0 /\ Adding = {}
    /\ m_abort' = TRUE
    /\ UNCHANGED <<m_mutex, m_condv, m_requests, m_threads, requestVars, workerVars>>

\* Faulty variant: one worker is woken to stop.
NotifyOneToStop ==
    /\ DestructorMoves("notify", "join")
    /\ WakeOne
    /\ UNCHANGED <<m_mutex, m_requests, m_threads, m_abort, requestVars, workerVars>>

NotifyAll ==
    /\ DestructorMoves("notify", "join")
    /\ m_condv' = {}
    /\ UNCHANGED <<m_mutex, m_requests, m_threads, m_abort, requestVars, workerVars>>

Join ==
    /\ DestructorMoves("join", "done")
    /\ \A w \in m_threads : worker[w] = "exit"
    /\ UNCHANGED <<m_mutex, m_condv, m_requests, m_threads, m_abort, requestVars,
                   workerVars>>

-----------------------------------------------------------------------------
Suspending(r) ==
    (\E w \in Workers : add_worker(r, w)) \/ AddedWorker(r) \/ PushRequest(r)

Work(w) ==
    \/ StartRound(w) \/ Lock(w) \/ PopRequest(w) \/ Wait(w) \/ Wakeup(w)
    \/ Unlock(w) \/ CheckAbort(w) \/ Resolve(w)

DnsNext ==
    \/ \E r \in Requests : Ask(r) \/ Suspending(r) \/ do_local_task(r)
    \/ NotifyOne
    \/ \E w \in Workers : Work(w) \/ SpuriousWakeup(w)
    \/ SetAbort \/ NotifyAll \/ Join

DnsSpec == DnsInit /\ [][DnsNext]_dnsVars

\* Every thread goes on, getaddrinfo returns, and a thread that keeps trying gets
\* m_mutex; nobody has to ask or to destroy the resolver.
FairSpec ==
    /\ DnsSpec
    /\ \A r \in Requests : SF_dnsVars(Suspending(r)) /\ WF_dnsVars(do_local_task(r))
    /\ WF_dnsVars(NotifyOne)
    /\ \A w \in Workers : SF_dnsVars(Work(w))
    /\ WF_dnsVars(NotifyAll \/ Join)

-----------------------------------------------------------------------------
(* Properties *)

\* A request that waits for its answer is in the queue, once, or in the hand of one
\* worker, and no other request is: so it is answered once, and the awaiter that a
\* worker writes its result to is still suspended.
RequestsAccounted ==
    \A r \in Requests :
        Cardinality({<<"queue", i>> : i \in {j \in DOMAIN m_requests : m_requests[j] = r}}
                    \cup {<<"worker", w>> : w \in {v \in Workers : awaiter[v] = r}})
            = IF request[r] = "asked" THEN 1 ELSE 0

\* A worker that resolves has popped a request, although m_abort is read three times
\* with and without the mutex.
ResolvesARequest == \A w \in Workers : worker[w] = "resolve" => awaiter[w] # Nobody

\* No worker goes to sleep after the destructor's notify_all: the destructor sets
\* m_abort under the mutex the workers hold from reading it until they wait.
NobodySleepsThroughAbort == destructor \in {"join", "done"} => m_condv = {}

\* The destructor returns: every worker leaves work().
DestructorReturns == destructor = "notify" ~> destructor = "done"

\* While requests keep coming, each leaves the queue: whatever the wakeups that are
\* lost, a worker that is woken for a later request takes the oldest first.
RequestsServed ==
    \A r \in Requests :
        []<>(notifying > 0) => (r \in Range(m_requests) ~> r \notin Range(m_requests))

\* A request in the queue has a worker that will look there: one that is not asleep,
\* or a caller that will wake one.
NoRequestForgotten ==
    m_requests # << >> /\ ~m_abort =>
        \/ notifying > 0
        \/ m_threads \ m_condv # {}
=============================================================================

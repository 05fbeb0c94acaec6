# tinyasync in TLA+

TLA+ models of the coroutine IO library in `src/include/tinyasync`, TLC configurations that
check them on small instances, and TLAPS proofs of what holds for every instance.  All
references are to files below `src/`; headers without a directory are those of
`src/include/tinyasync`.  The models follow the Unix branch (epoll) of every `#ifdef`.

    tlc -config IoContext_pass.cfg MCIoContext        # the runs are listed below
    tlapm IoContextProofs.tla                         # and the other *Proofs.tla

## 1. The system

tinyasync is a header-only library of stackless coroutines over epoll.  A coroutine that must
wait suspends in an *awaiter*, an object in its frame.  The awaiter is linked into a list of
whatever it waits for, and something later calls `TINYASYNC_RESUME` on it: the event loop on an
epoll event, a posted task, another coroutine.  Almost everything that can go wrong is about
these lists and about what may have happened to an object while a coroutine ran.

| part | file | state | operations | modelled by |
|---|---|---|---|---|
| event loop, run queue | `io_context.h` | task queue and its size, count of sleeping threads, abort flag, epoll with an eventfd that wakes one thread | `post_task`, `request_abort`, `wakeup_a_thread`, `run` | `IoContext`, `Executor` |
| LockCore | `mutex.h` 9-248 | one word of three bits, a list of waiters | `try_lock`, `unlock(keep)` | `LockCore`, `WaitLock` |
| Mutex, MutexLockAwaiter | `mutex.h` | a LockCore | `lock`, `unlock`, the posted resumption | `Condv` (on `WaitLock`) |
| Condv, CondvAwaiter | `mutex.h` 660-830 | a list of awaiters | `wait`, `notify_one`, `notify_all`, `on_notify` | `Condv`, `Monitor` |
| Event | `mutex.h` 530-660 | a list of awaiters | `wait`, `notify_one`, `notify_all`, `on_notify` | `Event` (on `Tasks`) |
| intrusive lists | `basics.h` 700-830 | links inside the nodes | `push`, `pop` | `Queue` |
| DNS resolver | `dns_resolver.h` | queue of requests, worker threads, condition variable, abort flag | `await_suspend`, `work`, `add_workers`, the destructor | `DnsResolver` |
| connections | `awaiters.h` 220-1080 | descriptor, shutdown and readiness flags, two lists, reference count | `async_read`, `async_send`, `on_callback`, shutdown, `close`, the destructors | `Connection` |
| acceptor | `awaiters.h` 1085-1525 | listening socket in an epoll, a list of awaiters | `async_accept`, `on_callback`, `await_resume` | `Acceptor`, `Network` |
| connector | `awaiters.h` 1527-1845 | a socket, one awaiter | `async_connect`, `on_callback`, `await_resume` | `Connector`, `Network` |
| timer | `awaiters.h` 1849-2060 | a timerfd | `async_sleep`, `on_callback`, `await_resume` | `Timer`, `Network` |
| tasks, generators, spawn | `task.h` | continuation, stored exception, owner of the frame | `resume`, `co_await`, `join`, `co_yield`, `co_spawn`, the destructors | `Tasks`, `Event` |
| memory pools | `memory_pool.h` | boundary tags, free lists by block order; a list of equal blocks; a stack | `allocate`, `free` | `PoolImpl`, `Pool`, `StackfulPool`, `MemoryResource`, `Allocator` |
| spin locks | `basics.h` 840-905 | two counters, or a pthread lock | `lock`, `unlock` | not modelled |
| buffers, string views, logging | `buffer.h`, `basics.h` | none | | not modelled |

How they interact.  Every component posts to or registers with an `IoContext` and is called back
by `run()`.  `Mutex` posts the resumption of the coroutine it was handed to; `Condv::notify_*`
posts a task that locks the mutex for each notified coroutine; a DNS worker posts the resumption
of the coroutine that asked; `Connection::close` posts the task that wakes its awaiters and
releases its memory.  So the promise of the event loop (posted tasks run, once, in order) is what
the other models start from, and it is stated as a specification of its own, `Executor`.  In the
same way `WaitLock` is what `LockCore` promises and what the model of `Mutex` and `Condv` uses.
Every coroutine frame is a block of a memory resource, which `Allocator` describes; every suspended
frame is continued by the task that awaits it, by an event, or by nobody, which `Tasks` is about.

What is hard, by component, and what makes each correct:

* **Event loop.**  A wakeup is one oneshot event for all sleeping threads, and the decision to
  pass it on is taken from a queue size read earlier and from flags read without the lock.
  Correct: no task is queued while threads sleep and no wakeup is on its way; the counters are
  exact; an abort reaches every thread; the loop is a first-in-first-out executor.
* **LockCore.**  Mutex, lock of the waiters' list and a hint that the list is not empty share a
  word.  Correct: both locks exclude, the hint can be trusted by an unchecked pop, waiters are
  neither lost nor served out of turn.
* **Mutex and Condv.**  A waiter enlists and unlocks in two steps; a notification is executed later
  by any thread, on behalf of a coroutine that is suspended, and follows links that live in frames
  of coroutines it has just resumed.  Correct: together they are a monitor.
* **DNS resolver.**  Three locks with overlapping protection, a flag that is read with and without
  the mutex, a destructor that joins threads which may be about to sleep.  Correct: each request is
  resolved once by one worker, and the destructor returns.
* **Connections.**  Edge-triggered events are reported once, and remembered in flags that are
  changed before and after user code runs.  Correct: no readiness is lost, each suspended coroutine
  is resumed by exactly one of event and close, the object outlives its last use.
* **Acceptors.**  One listening socket is in the epoll of several threads.  Between the report and
  `accept` another thread may accept, and the awaiter has been taken from its list already; and
  `await_resume` takes another one.  Correct would be that nobody is lost; what holds is that whoever
  got the last answer of `accept` is in a list, so that somebody goes on accepting.
* **Connectors.**  The awaiter is set and the socket registered before `connect`, which may succeed at
  once, be in progress, or throw.  An exception destroys the connector while the epoll still points at
  its callback, so it cannot be correct that every event finds an awaiter; what holds is that a connected
  client goes on unless an exception has ended the process.
* **Tasks.**  Who resumes whom is kept in continuations that are set and read at different times, frames
  are destroyed by objects in other frames, `co_spawn` destroys itself, and an exception goes through
  whatever resumed.  Correct: who waits for a task is its continuation, a frame is destroyed once, by
  its owner, and by nobody while something is to resume it.
* **Event.**  A list of waiters is handed to a posted task and walked while its members run.  Correct:
  each waiter is in one list once, and each notified waiter runs.  Both hold only while no waiter that runs
  waits again in the same place, or is destroyed, before the walk is past it.
* **Memory pools.**  Blocks are split and merged, with tags that are kept twice and lists through the
  free ones.  Correct: allocations are aligned and apart, whatever was freed before.  The code needs more of
  its programs for that than it says.

## 2. The modules

| module | content |
|---|---|
| `Executor` | what the event loop promises |
| `IoContext` | `IoCtx<MultiThreadTrait>`: refines `Executor` |
| `IoContextProofs` | its theorems |
| `WaitLock` | what LockCore promises |
| `LockCore` | `LockCore`, one action per atomic exchange or list access: refines `WaitLock` |
| `LockCoreProofs` | its theorems |
| `Monitor` | what Mutex and Condv promise together |
| `Queue` | the intrusive list as operators on links |
| `QueueProofs` | `push`, `pop` and `Chain` on the sequence that the links represent |
| `Condv` | Mutex and Condv, composed of `WaitLock`, `Queue` and a run queue: refines `Monitor` |
| `CondvProofs` | its theorems |
| `DnsResolver` | the resolver, its callers, workers and destructor |
| `Connection` | `ConnImpl`, `Connection`, both awaiters, and the socket |
| `ConnectionProofs` | its theorems |
| `Tasks` | frames, continuations, owners, exceptions |
| `Event` | the event with the coroutines of `Tasks` that wait for it, and the event loop that runs its tasks |
| `EventProofs` | theorems about `Tasks` and `Event` |
| `Acceptor`, `Connector`, `Timer` | one class each, with its part of the kernel |
| `Network` | the three together: a client's connect is a connection in the server's backlog |
| `NetworkProofs` | theorems about `Network` and `DnsResolver` |
| `Allocator` | what a memory resource promises |
| `PoolImpl`, `Pool`, `StackfulPool` | the three allocators as operators from a pool to a pool |
| `MemoryResource` | any of them under a program that allocates and frees: refines `Allocator` |
| `MemoryProofs` | its theorems |
| `MC*` | constants and symmetry for TLC |

Names of variables, functions and fields are those of the source.  Each module says in its head
what one action stands for.  `PROJECT.json` maps definitions to lines.  Operators that are called a
"faulty variant" are not used by any specification: each is a plausible bug in the definition that
follows it, and the property it is meant for fails when it takes that definition's place.

### IoContext

A section under `m_que_lock` is one action; every access outside is one of its own: the
`EPOLL_CTL_MOD` of `wakeup_a_thread` (`waking` holds the actors between decision and call),
`epoll_wait`, and the unlocked reads of `m_thread_waiting` and `m_abort_requested` at lines 534
and 535.  `armed` is the oneshot registration of the eventfd, which is created readable and never
read, so that arming is all that counts.  `ready` are the sources no `epoll_wait` has reported;
`epoll_wait` reports all that is ready up to `maxevents` of them.  `epoll_wait` may fail (a
signal): `run()` throws and the thread is "failed".  Tasks and callbacks are user code: the thread
may call `post_task` and `request_abort` from them.

### LockCore

`m_flags` is the set of the bits that are set.  Each successful `compare_exchange` is an action and
so is each push and pop; the retries change nothing.  An unlocking thread chooses `keep`, the
argument of `unlock`.  `UnlockMutex` frees a mutex without waiters.

### Queue and Condv

The links are a function, so that a node which is popped and one which is in a list again are told
apart, as on_notify's `node->m_next` does not.  Threads run coroutines; `Resume` and `Suspend` stand
for everything a coroutine waits for besides.  `mutex.lock`, `unlock` and `wait` are split where the
code is: finding the mutex taken and joining its waiters are two steps (`LockCore` shows why), so
are enlisting in the Condv and unlocking.  `on_notify` is one action per link it visits.
`SlotsReused` says whether a coroutine builds its awaiters in one place, as a loop does.

### DnsResolver

`await_suspend` is split into the check, the start of a worker under `m_mutex`, the push under
`m_spinlock`, and the notification, which holds neither.  Concurrent first callers write and read
`m_threads` under different locks; that race is a free choice of what the reader sees.  The worker's
loop has an action for each locked section and each read of `m_abort`.  The condition variable
wakes spuriously.  `getaddrinfo` is a step that returns.  The destructor runs when no call of
`await_suspend` is under way, which the language requires.  Its specification is
`DnsSpec`.

### Connection

One thread runs `run()`; the repository's README rules out several.  `at`, `dir` and `awaiter` say
where library code is, `running` which coroutine runs on top of it.  Receiving and sending are two
copies of the same code in the source, and one set of actions with a direction here.  The socket is external:
buffers of `MaxData` and `MaxSpace` units, orderly end and reset by the peer, an edge when data
arrives, the stream ends, or space returns to a sender that had run out of it.  A size is not kept
with a call: a call is "full" when it got all it asked for, "short" else.  The running coroutine may
read, send, shut down, close, destroy the connection, or suspend on something else, at any point.
`register_` and `reset` are called by nobody; `fprintf` and `exit` after an event that is neither IN
nor OUT cannot be reached, because the socket reports IN with every hangup and error.

### Tasks and Event

A frame has a kind, a state, an owner (the frame in whose locals the `Task` object is, `Main` for
everything that is not a coroutine, or nobody for `co_spawn`'s), and its promise's
`m_continuation` and stored exception.  `calls` is the machine stack: one entry for each `resume()`
that has not returned, with the coroutine that runs in it now.  So a symmetric transfer changes the
entry, a suspension without one removes it, and an exception that nothing catches removes it too and
is `thrown`.  Destroying a frame destroys its locals' frames (`Tree`).  Coroutines are otherwise free;
`Droppable`, `Owns` and `Resumable` are the rules of the C++ standard and of the class comments.

`Event` adds the list of the event and the posted tasks, on one thread: the class has no lock.
`on_notify` is one action per link (`Visit`, `Advance`), and the resumed coroutine runs in between.  It
reads the link of a node after the resumption (`mutex.h:638`), and two things may have happened by then.
The coroutine has waited again in the same place of its frame, as the loops of the examples do: the node
is in the event's list, its link is null, and `on_notify` ends before the rest of its batch, which nobody will
resume (`skipped`).  Or somebody has waited behind it, or its frame is gone: then `on_notify` goes
on into the event's list, or into freed memory (`misled`), and the model ends there.  A coroutine that
waits again in another place of its frame, which is harmless, has left its earlier node, `past`, to the walk.

An exception that no coroutine catches leaves through the innermost `resume()`.  If user code called that,
it may catch it (`Catch`).  If it was `on_notify` or another callback, it reaches `run()`, which calls
`std::terminate` (`io_context.h:434`, `561`): `Unwinds` sets `terminated`, and nothing happens any more.

### Acceptor, Connector, Timer, Network

Each acceptor has the loop of a thread of its own and shares the listening socket, as
`reset_io_context` makes them.  The socket is level-triggered and `EPOLLEXCLUSIVE`; the report of
`epoll_wait` and the callback are two steps.  `lost` (awaiters in no list whose coroutine is suspended)
and `latest` are history, not state of the code.  `await_suspend` pushes the awaiter before `epoll_ctl`; when that
fails (`Thrown`) the exception destroys an awaiter that stays in the list (`stale`).  The next use of that
list would write to it, so the model uses such an acceptor no more.

`Connect` is `await_suspend` when `connect` succeeds or is in progress, `Throws` when `epoll_ctl` or `connect`
throws; the coroutine may try again, with a connector and a socket of its own.  Connector and awaiter are
temporaries, and `~ConnectorImpl` neither closes the socket nor takes it out of the epoll (`awaiters.h:1614`), so
if it was registered (`dangling`) the epoll may report it at any time, to a callback that does not exist:
`ConnectorCallback` then ends the process, as it does for a socket that failed, whose exception reaches
`run()`.  `Establish` and `Refuse` are the kernel's.  A timer is armed, expired or, when it was set to zero,
disarmed.  `Network` joins them: an established connection is an entry of the backlog, and a backlog
without room delays it.

### Memory

`PoolImpl` keeps the two words in front of each block as functions of the address, `m_size` and
`m_prev_size`, since that is where the code's redundancy is, and the free lists as sequences by order.
`k_max_order`, `k_malloc_order` scale the orders down.  `Power` is 2^n, as a function.  `MemoryResource`
picks one of the resources and one of the sets of requests in `Programs`, and runs any program on it that
frees what it allocated, with the size it asked for; frames on a `StackfulPool` end in the reverse order.
`live` are the blocks in use.  What is too large for the pool is put anywhere below the chunks, aligned
and apart from what is in use (`AllocateLarge`).  `Pool::alloc` may return nullptr (`Declines`).

Some programs make the code do what C++ leaves undefined, and the model has these too: `defined` becomes
false and nothing is said of what follows.  Three steps can.  `break_` is given a block that is too small,
which its assertion at `memory_pool.h:347` rejects.  `free` goes on from the word behind a chunk: the tag
that should end the chunk is written 24 bytes too low (line 430), into the block that is free at that time,
where nobody reads it and whoever gets the block may overwrite it; the word that `free` reads is the one
`malloc` left, which may read as a free block or not (`garbage`, `unwritten`).  And `StackfulPool`
saves the old base outside of the stack.  `WellUsed` says what a program must keep to, and `StaysDefined` that this
is enough.  `ImplementsAllocator` is about every program, up to that step; it says how blocks are aligned
(`Promised`), which is not always as asked.

## 3. What is checked

Every property is checked on the whole state space of its run.

| run | instance | properties | result | states |
|---|---|---|---|---|
| `io` | 2 threads, 1 client, 2 tasks, 1 source, `maxevents` 1 | `CountersExact`, `NoStrandedTask`, `AbortReachesWaiters`, `EveryTaskRuns`, `AbortStopsEveryThread`, `ImplementsExecutor` | hold | 69,444 |
| `lock_core` | 3 threads | `TypeOK`, `MutualExclusion`, `QueueExclusion`, `HintExact`, `WaitersAccounted`, `ImplementsWaitLock`, `WaitersServed` | hold | 9,125 |
| `lock_left_behind` | 3 threads | `NobodyLeftBehind` | violated | |
| `condv` | 2 threads, 3 coroutines that wait 2, 1 and 0 times, slots not reused | `OneHolder`, `WaitersReachable`, `ImplementsMonitor`, `NotifiedGoesOn` | hold | 30,496 |
| `condv_slot_reused` | the same with `SlotsReused` | `VisitedNodeDangling` | violated | |
| `dns` | 3 requests, 2 workers, 2 callers | `RequestsAccounted`, `ResolvesARequest`, `NobodySleepsThroughAbort`, `DestructorReturns`, `RequestsServed` | hold | 23,800 |
| `dns_forgotten` | the same | `NoRequestForgotten` | violated | |
| `connection` | a reader, a sender, a third coroutine, buffers of 2 | `AwaitersListed`, `ServesSuspended`, `NoUseAfterDelete`, `ReadinessServed`, `CloseEndsAll` | hold | 109,199 |
| `connection_end` | the same | `EndIsReported` | violated | |
| `tasks` | 3 frames, 3 nested calls, 2 posted tasks | `AwaitersLinked`, `FramesOwned`, `WaitersListed`, `NotifiedResumed` | hold | 281,127 |
| `net` | 3 servers on 2 acceptors, 2 clients, a backlog of 2, 1 failing `accept` or `epoll_ctl` | `NotAllLost`, `AwaitersQueued`, `ConnectionAccepted`, `ClientGoesOn` | hold | 279,069 |
| `pool` | each resource, 5 sets of requests, 3 blocks at a time | `ImplementsAllocator`, `BookkeepingApart`, `TagsExact`, `FreeListsExact`, `StaysDefined` | hold | 46,953 |

Why these bounds:

* `io`: two threads, so that a wakeup is consumed by one and needed by the other while a client posts,
  two tasks so that "more than one" is true, and an array of one, so that events delay the wakeup again
  and again, which is what fairness has to exclude.  That a wakeup passes through more threads than
  these, and arrays of any size, are left to the proofs below.  Symmetry is not used with liveness.
* `lock_core`: an owner, a pusher and a popper at once; three waiters give every length of the list a
  transition depends on.  The safety part is proved for any number.
* `condv`: two threads are enough for `on_notify` to race with an owner; a coroutine that waits twice
  meets its own earlier node; the third notifies.  A list of two shows order and `notify_all`.
* `dns`: two workers for the race of two first callers; a third request keeps the queue from running
  empty while one is resolved.
* `connection`: two units make full, short and exhausted transfers different; three coroutines let a
  close come from the reader, the sender and from outside.
* `tasks`: three frames are a coroutine that waits, what it waits for, and a third that destroys, joins
  or throws; `co_spawn` needs one for itself.  Three calls nest a spawned task in a generator in a
  resumed task.  Two posted tasks are two batches of waiters, one walked while the other waits; with three
  frames a waiter can be skipped by one that waits again.
* `net`: two coroutines at one acceptor are needed for `await_resume` to pop another's awaiter, and a
  second acceptor for the race of threads.  Two clients fill the backlog and let the failure of one end
  `run()` for the other.  `Elapses` of 0 and 1 are a disarmed timer and one that fires.
* `pool`: the smallest free blocks with a neighbour on both sides take three allocations; the sizes fill
  an order, leave a rest that is too small to be a block, and exceed `k_malloc_order`.  A second program mixes
  alignments and sizes that do not always fit, so that a block too small for `break_`, a free block read behind
  a chunk, several chunks and misaligned blocks occur.  Nodes of 24 bytes are asked for alignments that 24 gives
  and that it does not.  Of the two programs of the stack one leaves room for the saved base.

Deadlock is not checked: each of the systems may rest (after an abort, a destructor, a close or the end
of the process, with no caller, or because the model says nothing of what follows).  Where one should
go on is what the liveness properties say.

### Fairness

* IoContext: each thread keeps taking steps of `run()`; a callback or task returns, so it posts only
  finitely often (strong, as each post interrupts it); `epoll_wait` does not pass over an armed wakeup
  for ever, because the kernel rotates its ready list.  Nobody has to post or abort.
* LockCore: a thread that has begun to push, owns the mutex, or pops goes on.  Nobody has to lock.
* Condv: threads go on, owners leave, coroutines suspend at last, and `run()` comes to posted tasks.
  Nobody has to notify, so `NotifiedGoesOn` is about notified waiters only; and since a waiter may be
  left in the list of a free mutex (finding 1), it assumes that the mutex is locked and unlocked
  again and again.
* DnsResolver: threads go on and a thread that keeps trying gets `m_mutex`; `getaddrinfo` returns.
  Spurious wakeups are never required.
* Connection: the loop goes on, epoll gets round to a ready descriptor and `run()` to a posted task
  even if other events keep coming, and no coroutine runs for ever.  The peer need not do anything.
* Event: the thread goes on and `run()` comes to posted tasks, also when coroutines keep posting; and no
  coroutine keeps the thread for ever (`[]<>(calls = << >>)`, unless the model has ended).
* Network: the loops go on, time passes, and a server accepts again, as the loops of the examples do.
  The kernel need not establish any connection.

### What the violations show

1. `lock_left_behind`: `try_lock` decides to enqueue while the mutex is locked, and pushes later.  An
   `unlock` in between frees the mutex; the waiter is left in the list of a free mutex until somebody
   locks and unlocks again, against `mutex.h:71` and the assertion at
   `examples/lockcore/lockcore.cpp:233`.
2. `condv_slot_reused`: `on_notify` reads the link of a node after its coroutine ran; a coroutine that
   waits again in the same place (a loop) leads it into the list of those nobody notified.
3. `dns_forgotten`: a push and its notification without the mutex fall between a worker's look into
   the queue and its wait.  The request is forgotten until the next one.
4. `connection_end`: data and the end of the stream in one edge; the read is short, `m_ready_to_recv`
   is cleared, and a reader that suspends on something else before it reads again never learns of the
   end.

What the acceptor and the event lose is not a violation of anything the repository says, so it is stated as
what remains true.  `AwaitersQueued` says that every other waiting coroutine is in its acceptor's list once,
and nobody who does not wait, but for an awaiter that a failing `epoll_ctl` left; `NotAllLost` says who is never
lost, and `ConnectionAccepted` excepts the case.  `WaitersListed` and `NotifiedResumed` except those who stood
behind a coroutine that waited again in the same place, and a walk that has read a link no longer its own;
`NotifiedResumed` excepts the end of the process too.

## 4. What is proved

`IoContextProofs` (any finite set of threads, any clients, tasks and sources, any `maxevents`; from
`ThreadsAssumption`, `HandlesAssumption`, `MaxeventsAssumption`):

* `TypeCorrect`, `CountersCorrect`, `NeverStranded`, `AbortIsHandedOn`: `Spec => []` of `TypeOK`,
  `CountersExact`, `NoStrandedTask`, `AbortReachesWaiters`.
* `RefinesExecutor`: `Spec => Abstract!Spec`, the safety part of the refinement.

The inductive invariant `IInv` adds `HasEvent` to the checked ones: a thread that reaches the unlocked
reads has an event in hand.  It is needed because the wakeup of an abort is carried by such a thread.
`CountersExact` is what turns the code's test of `m_thread_waiting` into "some thread sleeps", via the
cardinality lemmas `WaitersEntered`, `WaitersLeft` and `SleeperIsCounted`.

`LockCoreProofs` (any set of threads, no assumption):

* `TypeCorrect`, `MutexIsExclusive`, `QueueIsExclusive`, `HintIsExact`, `NoWaiterLost` for the five
  invariants of the run, and `RefinesWaitLock`: every step is a step of `WaitLock` or stutters.

Here `IInv` needs more than the checked invariants.  `Hint` says what the hint means to the one thread
that is inside the queue; `PushedLast` says that a pusher that has not raised the hint is the last of
the list, so that the list without it is what `WaitLock` sees; `Accounts` says node by node what
`WaitersAccounted` says with sets.

`QueueProofs` (any finite set of nodes): `Path` says that a sequence of nodes, none twice, is what a walk
along the links from a pointer meets; `Represents` adds a tail.  `PushRepresents` and `PopRepresents` say
that `push` appends and `pop` takes the first, `PushApart` and `PathKept` that a list is left alone by
links that change elsewhere, `PathTail` that a walk goes on with the rest.  `PathChain` is what lets the
invariants that TLC evaluates, which follow the links with `Chain`, be proved from paths.  `Chain` walks
a list of any length, and the provers have no induction over data; `PathChain` argues instead with the
smallest number of steps at which the walk and the path part (`Least`, from the well-foundedness of `<`
on the naturals).

`CondvProofs` (any threads and coroutines):

* `TypeCorrect`, and `MutexHeldOnce` for `OneHolder`, with slots reused or not.  `Sole` says that at most one
  of a running coroutine, a thread about to unlock, and a posted resumption has the mutex, and exactly one
  while it is locked.  It does not depend on the links, so it survives the defect of finding 2.
* `Reachable`, `WaitersInOnePlace` for `WaitersReachable`, `VisitedIsDangling` for `VisitedNodeDangling`, and
  `CondvIsMonitor` for `ImplementsMonitor`: every step of threads, loop and coroutines is a step of `Monitor`
  or stutters.  These hold if no slot is reused (`~SlotsReused`), and `condv_slot_reused` shows that they
  do not otherwise.

Their inductive invariant `Reach` has three parts.  `Linked`: the list of the condition variable, that of
each posted task and what is left of each list a thread walks are paths, and no two of them share a node.
`Passed`: a node a thread has visited, and has not read the link of, is in no path; this is what
a coroutine that waits in a new slot keeps true, and one that waits in its old slot does not.  `Placed`: who
waits on the condition variable is in exactly one path.  The refinement maps the owner to `Owner`, the
waiting coroutines to those of the event's list and the notified ones to the other paths; `notify_all`
moves a whole path at once, `Visit` turns one notified coroutine into one that locks, and the hand-over of
`unlock` by a posted task is the step at which `Monitor` changes the owner.

`ConnectionProofs` (any coroutines, buffers and transfers; from `ConnectionAssumption`):

* `DeletedIsForgotten` for `NoUseAfterDelete`, without any further hypothesis.  `Life` counts the references:
  the connection's, and one that stands for the open descriptor, then for the posted task of `close`, then for
  that task while it runs; and a reported event is pending only while one of those is.
* `ConnectionTypes` for `TypeOK`, `ListsAreExact` for `AwaitersListed`, `SuspendedIsServed` for
  `ServesSuspended`, if each direction has at most one coroutine (`OneOfAKind`).  `await_resume` pops the front
  of the list for whoever is resumed (`awaiters.h:803`), so this is what the code relies on, and every
  example keeps to it.  `Walk` relates what `on_callback` and the task of `close` have read to the
  lists as they are when user code has run in between.

`NetworkProofs` (any servers, acceptors, clients, backlog; uses `QueueProofs`): `SomebodyAccepts` for
`NotAllLost`, `WaitersAreQueued` for `AwaitersQueued`.  `ListsSound`
gives every acceptor's list a sequence of its own servers, and `LatestSafe` says where the receiver of the
last answer is; the step that matters is `await_resume`, which pops somebody else's awaiter but never the
one that has just been answered.  `StaleSound` says that an acceptor with a destroyed awaiter is in no epoll and
has no other: nobody waited there before, because whoever does has the socket registered.

The second half of `NetworkProofs` is about `DnsResolver` (any finite sets of requests and workers, any bound
on the callers; from `NamesAssumption` and `CallersAssumption`): `DnsTypeCorrect`, `AnsweredOnce`,
`NeverEmptyHanded`, `AbortWakesWorkers` for `TypeOK`, `RequestsAccounted`, `ResolvesARequest`,
`NobodySleepsThroughAbort`.  `Accounts` says request by request where it is; `Abort` ties `m_abort` to the
destructor and to the holder of the mutex, which is what makes the two unlocked reads harmless: whoever has
seen the flag unset inside the lock and found a request keeps it.  `CallsBounded` is about the model's own
bound.

`EventProofs` (any frames, depth of calls and posted tasks; uses `QueueProofs`; from `NamesAssumption`, by which
`Main`, `Nobody` and `noop` are no frames, `FramesAssumption` and `NodesAssumption`): `AwaitersAreLinked` for
`AwaitersLinked`, `FramesAreOwned` for `FramesOwned`, `WaitersAreListed` for `WaitersListed`.  Their invariant
`EventInv` is in two halves.

* `Sound` is about frames and calls.  `Waits` says who continues whom.  `Owners` says that every frame
  has a live owner and that no set of frames owns itself, which replaces a measure of depth.  `Running`
  says that who runs is on the stack, once, and that whoever called `Task::resume` owns its root.
  The last is why `Return` may write to the root after its coroutine has run: what a destructor frees
  is a tree, a tree holds neither its owner nor a running frame, and so only a caller further down
  the stack could have freed it (`Held`, `KeepsHeld`).
* `Listed` is about the event: the list of the event, those of the posted tasks and what is left of the list
  that `on_notify` walks (`Ahead`) are paths, no two share a node, and together they hold exactly the waiters that
  were not skipped; `Ended` says that the tail of the event's list is its last node.  It holds until `misled`; the
  step that matters is a coroutine that waits again at the node at which the walk is, which cuts the rest
  off and joins the event's list.  A frame that waits for the event is in no tree that a step frees: this is
  a rule of the programs (`Droppable`).

`MemoryProofs` (any scale of the orders, node size, stack and sets of requests; from `OrdersAssumption`,
`RequestsAssumption` and the assumptions of `Pool` and `StackfulPool`): `ResourcesAllocate` for
`ImplementsAllocator`, `PoolTagsExact` for `TagsExact`, `PoolFreeListsExact` for `FreeListsExact`,
`ResourceWordsApart` for `BookkeepingApart`, `WellUsedStaysDefined` for `StaysDefined`.
`RequestsAssumption` says no more than that sizes and alignments are those of objects and that a node
is large enough; what a program must keep to besides is the hypothesis `WellUsed` of the last theorem, and
the others hold for every program until an operation is undefined.  All follow from the inductive invariant
`IInv` (`Accounted`), which says that the blocks in use are apart and aligned as promised (`LiveOK`) and, of
the resource at hand, one of:

* `PoolHolds`.  The blocks tile the chunks: each chunk starts and ends with one, each ends where another
  starts, none reaches over the start of another, both copies of a tag agree, and no two neighbours are free (`Tiled`).
  The lists hold the free blocks (`Listed`).  The blocks that are neither free nor a sentinel are those in
  use (`Used`).  `free` finds its neighbours by the sizes in the tags: one stale tag, or a start inside a
  block, and it would merge what somebody holds, so neither the refinement nor the exact tags are
  inductive without the tiling.
  `TagExcept`, `AddFreeBlock`, `RemoveFreeBlock`, `MoveBlockEffect` say what one operation changes;
  `FreeEffect` composes them in the four cases of `free` and `AllocEffect` in `add_chunk` and the two of
  `break_`, each about the blocks and not about the words.  `OrderBound` says that a block is no larger
  than its order says, `RequestFits` that what is listed under an order which `alloc` searches is large
  enough.  The provers have no induction, so `Power` is shown to satisfy its equation with the smallest
  counterexample (`Least`).
* `FixHolds`.  The nodes of the list and the blocks in use are multiples of the node size below what has been
  taken from `malloc`, and disjoint.
* `StackHolds`.  Nothing in use is below `m_base`; freeing the lowest frame moves `m_base` to where the next
  one starts or lower; each over-aligned frame has one saved word behind it (`StackPush`, `StackPushOver`,
  `StackPop`).

Every invariant that a passing run checks is stated by a theorem.  Only model-checked: all liveness (fairness is
out of the prover's reach), and with it `NotifiedResumed` of `Event` and the fair half of `ImplementsExecutor`.

## 5. What is not modelled, and why

* `IoCtx<SingleThreadTrait>`: the same loop without lock, counters and wakeups; nothing interleaves.
* The Windows branches.
* Spin locks.  `SysSpinLock` wraps a pthread lock and its sections are atomic in the models;
  `TicketSpinLock` is used by nothing.  Memory order: the exchanges of LockCore are sequentially
  consistent in the models.  Unlocked reads of `IoContext` and `DnsResolver` see the current value at
  their step, which may be stale at the next.
* Destruction of a frame that is linked in a `Condv` or whose node its `on_notify` visits: `Condv` keeps frames
  for ever.  `Event` has the second case, for instance when `co_spawn`'s frame ends inside
  `on_notify`, and stops there (`misled`): the code reads freed memory at `mutex.h:638`.  A frame that is
  linked in an event is destroyed by no program of the model.
* Assertions and debug counters are not steps; where their meaning matters it is a property
  (`MutualExclusion`, the second half of `AwaitersListed`, `StaysDefined`).  Those that do not agree
  with the code they watch: `mtx_thd_cnt` is decremented once per retry (`mutex.h:167`); `notify_all`
  empties a list and not its `m_size` (`mutex.h:723`), so that the assertion of `pop` at
  `basics.h:798` fails in a later `notify_one`; `safe_shutdown_recv_send` reaches the
  assertion of `shutdown_recv` when both directions are shut down (`awaiters.h:506`).
* The task that `notify_one` and `notify_all` allocate before they know of a waiter, and leak when there
  is none (`mutex.h:695`).
* Two readers, or two senders, of one connection: `await_resume` pops the front of the list and not its own
  awaiter (hazard).  No example has two.  A descriptor number that is reused while `on_callback` holds it.
* What follows when the list of an acceptor is used that has a destroyed awaiter in it, after `epoll_ctl` failed
  (`awaiters.h:1386`): the acceptor is used no more.  That a descriptor number is used again by a later
  socket.
* `SocketMixin::reset` and the destructors of acceptors.  Acceptors that share a listening
  socket all close it, the second close fails, and the program exits (`awaiters.h:1159`): a
  program can only keep them, as the model does.
* The timer: a sleep of zero is disarmed and never ends (`awaiters.h:2015`, hazard; `ClientGoesOn` leaves it
  out), `epoll_ctl` is called with two arguments exchanged and does nothing (`awaiters.h:1908`), and if the
  registration fails another handle than the new one is closed (`awaiters.h:2042`).
* Tasks: results are data; `detach` does not compile (it names `m_dangling`, which a promise does not have);
  a second join, which would replace the first one's continuation, is against the rule `~Awaited`.
* Pools: what follows an undefined operation.  The programs that get there are in the model, and so is what
  these say of the code:
  - sizes whose order is rounded up to one their block does not fill (`Fits`), such as 168, 168 and then, the
    first of them freed, 176 bytes aligned to 16, which the assertion at `memory_pool.h:347` rejects;
  - the word behind a chunk, which no line writes and `free` reads (`memory_pool.h:430`, `436`, `503`);
  - different alignments asked of one `PoolResource`: a block that is used whole is returned where it
    starts (`memory_pool.h:358`), so it is aligned to 16 only if all are asked to be, to 8 else (`Grain`);
  - nodes of a `FixPoolResource` are aligned as their size and their chunk happen to be: the resource of
    `examples/memory_pool/memory_pool.cpp:134` ignores the alignment it is asked for, so that nodes of 15
    bytes are not aligned to 8 (`Promised`);
  - over-aligned frames on a `StackfulPool` whose saved base falls into the neighbour
    (`memory_pool.h:633`).

  That `malloc` fails is modelled in `Pool::alloc`, which looks; `PoolImpl::alloc` and the constructor of
  `StackfulPool` do not, and use what they get.  `Pool`'s move operations are used by nothing.
* Buffers, string views, logging, and the examples, which were read for how the library is used.

## 6. What could follow

* Two readers in `Connection`, and the destructors of acceptors.

------------------------------ MODULE Acceptor ------------------------------
(***************************************************************************)
(* Acceptor of awaiters.h: acceptors that share one listening socket, as   *)
(* reset_io_context makes them, each with the event loop of a thread of    *)
(* its own, and the coroutines that accept from them.                      *)
(*                                                                         *)
(* The socket is level-triggered and EPOLLEXCLUSIVE in every epoll: a      *)
(* connection that arrives makes it ready in one of them, perhaps in more. *)
(* A report of epoll_wait and its callback are separate steps, between     *)
(* which another thread may accept.                                        *)
(*                                                                         *)
(* on_callback takes its awaiter from the list before it calls accept, and *)
(* await_resume takes one more: the code loses awaiters.  An exception of  *)
(* await_suspend destroys an awaiter that stays in the list.  `lost` and   *)
(* `stale` say which, `latest` who got the last answer of accept; none of  *)
(* them is state of the code.  The model ends where the code reads a       *)
(* destroyed awaiter: an acceptor that has one is used no more.            *)
(***************************************************************************)
EXTENDS Queue, SequencesExt

CONSTANTS Servers,   \* the coroutines that accept; their awaiters' nodes are the Nodes
          Acceptors,
          acceptor,  \* the acceptor of each coroutine
          MaxErrors  \* bounds the calls of accept and of epoll_ctl that fail

ASSUME ServersAssumption ==
    /\ Servers = Nodes /\ Servers # {}
    /\ acceptor \in [Servers -> Acceptors]
    /\ MaxErrors \in Nat

VARIABLES backlog,                \* connections that nobody has accepted
          m_added_to_event_pool,  \* acceptors whose epoll has the socket
          m_awaiter_que, m_next,  \* the awaiters of each acceptor, the links
          ready,                  \* acceptors in whose epoll the socket is listed as ready
          reported,               \* acceptors whose thread is about to call on_callback
          waiting,                \* coroutines suspended in async_accept
          errors, lost, stale, latest

awaiterVars == <<m_awaiter_que, m_next, waiting>>
acceptorVars == <<backlog, m_added_to_event_pool, m_awaiter_que, m_next, ready, reported,
                  waiting, errors, lost, stale, latest>>

AcceptorInit ==
    /\ backlog = << >>
    /\ m_added_to_event_pool = {}
    /\ m_awaiter_que = [a \in Acceptors |-> EmptyList]
    /\ m_next = [s \in Nodes |-> NULL]
    /\ ready = {} /\ reported = {}
    /\ waiting = {} /\ lost = {} /\ stale = {}
    /\ errors = 0 /\ latest = NULL

\* The kernel: a connection is complete.
Arrive(conn) ==
    /\ backlog' = Append(backlog, conn)
    /\ IF m_added_to_event_pool = {} THEN UNCHANGED ready
       ELSE \E woken \in SUBSET m_added_to_event_pool :
               woken # {} /\ ready' = ready \cup woken
    /\ UNCHANGED <<m_added_to_event_pool, awaiterVars, reported, errors, lost, stale, latest>>

Spoiled == {acceptor[s] : s \in stale}

\* epoll_ctl looks at the socket at once.
Suspended(s) ==
    LET a == acceptor[s] IN
    /\ waiting' = waiting \cup {s}
    /\ m_added_to_event_pool' = m_added_to_event_pool \cup {a}
    /\ ready' = IF a \notin m_added_to_event_pool /\ backlog # << >> THEN ready \cup {a} ELSE ready
    /\ UNCHANGED <<errors, stale>>

\* epoll_ctl fails: the coroutine gets an exception, and does not wait.
Thrown(s) ==
    /\ acceptor[s] \notin m_added_to_event_pool /\ errors < MaxErrors
    /\ errors' = errors + 1
    /\ stale' = stale \cup {s}
    /\ UNCHANGED <<waiting, m_added_to_event_pool, ready>>

\* AcceptorAwaiter::await_suspend: the awaiter is in the list before epoll_ctl is called.
await_suspend(s) ==
    LET a == acceptor[s] IN
    /\ s \notin waiting /\ a \notin Spoiled
    /\ m_awaiter_que' = [m_awaiter_que EXCEPT ![a] = PushList(@, s)]
    /\ m_next' = PushLinks(m_awaiter_que[a], m_next, s)
    /\ Suspended(s) \/ Thrown(s)
    /\ UNCHANGED <<backlog, reported, lost, latest>>

\* Faulty variant: edge-triggered.
ReportOnce(a) ==
    /\ a \in ready \ reported
    /\ ready' = ready \ {a}
    /\ reported' = IF backlog # << >> THEN reported \cup {a} ELSE reported
    /\ UNCHANGED <<backlog, m_added_to_event_pool, awaiterVars, errors, lost, stale, latest>>

\* epoll_wait looks again at what is listed.
Report(a) ==
    /\ a \in ready \ reported
    /\ IF backlog # << >>
       THEN reported' = reported \cup {a} /\ UNCHANGED ready
       ELSE ready' = ready \ {a} /\ UNCHANGED reported
    /\ UNCHANGED <<backlog, m_added_to_event_pool, awaiterVars, errors, lost, stale, latest>>

Popped(a) == [m_awaiter_que EXCEPT ![a] = PopList(@, m_next)]

\* The coroutine s goes on, with a connection or an exception; await_resume pops what is
\* now the first of the list.
await_resume(a, s) ==
    LET rest == Popped(a)[a] IN
    /\ m_awaiter_que' = [m_awaiter_que EXCEPT ![a] = PopList(rest, m_next)]
    /\ waiting' = waiting \ {s}
    /\ latest' = s
    /\ lost' = lost \cup ({rest.head} \ {NULL})

\* accept: a connection, or an error such as EMFILE.
Accept == \/ backlog # << >> /\ backlog' = Tail(backlog) /\ UNCHANGED errors
          \/ errors < MaxErrors /\ errors' = errors + 1 /\ UNCHANGED backlog

\* Faulty variant: on_callback returns on every error of accept.
ForgetOnError(a, s) ==
    /\ backlog = << >> \/ errors < MaxErrors
    /\ m_awaiter_que' = Popped(a)
    /\ lost' = lost \cup {s}
    /\ UNCHANGED <<backlog, errors, waiting, latest>>

\* accept finds nothing: EAGAIN, and the awaiter is in no list any more.
Forget(a, s) ==
    /\ backlog = << >>
    /\ m_awaiter_que' = Popped(a)
    /\ lost' = lost \cup {s}
    /\ UNCHANGED <<backlog, errors, waiting, latest>>

\* AcceptorCallback::on_callback
on_callback(a) ==
    LET s == m_awaiter_que[a].head IN
    /\ a \in reported
    /\ reported' = reported \ {a}
    /\ \/ s = NULL /\ UNCHANGED <<backlog, errors, awaiterVars, lost, latest>>
       \/ s # NULL /\ UNCHANGED m_next /\ (Forget(a, s) \/ (Accept /\ await_resume(a, s)))
    /\ UNCHANGED <<m_added_to_event_pool, ready, stale>>

ServerStep == \/ \E s \in Servers : await_suspend(s)
              \/ \E a \in Acceptors : Report(a) \/ on_callback(a)

-----------------------------------------------------------------------------
(* Properties *)

\* However many awaiters a race of the threads loses, whoever got the last answer of
\* accept is not among them, and nobody is before the first: somebody goes on accepting.
NotAllLost == IF latest = NULL THEN lost = {} ELSE latest \in Servers \ lost

\* A coroutine that waits is in the list of its acceptor, once, or lost.  Nobody else is
\* in a list, but the awaiter that an exception has destroyed, and it is there alone.
AwaitersQueued ==
    /\ waiting \cup stale =
          lost \cup UNION {Range(Chain(m_next, m_awaiter_que[a].head)) : a \in Acceptors}
    /\ \A a \in Acceptors :
          LET chain == Chain(m_next, m_awaiter_que[a].head)
          IN  /\ IsInjective(chain)
              /\ Range(chain) \subseteq {s \in Servers \ lost : acceptor[s] = a}
              /\ m_awaiter_que[a].tail = IF chain = << >> THEN NULL ELSE Last(chain)
              /\ a \in Spoiled => Len(chain) = 1
    /\ waiting \cap stale = {}
=============================================================================

----------------------------- MODULE Connector -----------------------------
(***************************************************************************)
(* ConnectorImpl of awaiters.h, one for each coroutine that connects, all  *)
(* on the event loop of one thread.  The socket is in the epoll, level-    *)
(* triggered, before connect is called, and until await_resume.            *)
(*                                                                         *)
(* Connector and awaiter are temporaries of the co_await expression: every *)
(* attempt has its own, and an exception of await_suspend destroys them.   *)
(* ~ConnectorImpl leaves the socket open, and in the epoll, whose report   *)
(* then calls the callback of a destroyed connector: `dangling`.           *)
(***************************************************************************)
EXTENDS Integers

CONSTANTS Clients

VARIABLES socket,      \* of each client, in the kernel: new, syn, established or failed
          m_awaiter,   \* clients whose connector has an awaiter
          registered,  \* clients whose socket is in the epoll
          connecting,  \* coroutines suspended in async_connect
          dangling,    \* clients one of whose sockets in the epoll has lost its connector
          running      \* no exception has reached run(), which calls std::terminate

connectorVars == <<socket, m_awaiter, registered, connecting, dangling, running>>

ConnectorInit ==
    /\ socket = [c \in Clients |-> "new"]
    /\ m_awaiter = {} /\ registered = {} /\ connecting = {} /\ dangling = {}
    /\ running = TRUE

\* Faulty variant: the socket is not put in the epoll when it is connected at once.
ConnectAtOnce(c, result) ==
    /\ running /\ c \notin m_awaiter /\ socket[c] = "new"
    /\ m_awaiter' = m_awaiter \cup {c}
    /\ registered' = IF result = "established" THEN registered ELSE registered \cup {c}
    /\ socket' = [socket EXCEPT ![c] = result]
    /\ connecting' = connecting \cup {c}
    /\ UNCHANGED <<dangling, running>>

\* ConnectorAwaiter::await_suspend: connect connects at once or says EINPROGRESS.  The
\* coroutine suspends even if it is connected.
Connect(c, result) ==
    /\ running /\ c \notin m_awaiter /\ socket[c] = "new"
    /\ m_awaiter' = m_awaiter \cup {c}
    /\ registered' = registered \cup {c}
    /\ socket' = [socket EXCEPT ![c] = result]
    /\ connecting' = connecting \cup {c}
    /\ UNCHANGED <<dangling, running>>

\* The same, when epoll_ctl fails, or after it connect.  The coroutine gets an exception;
\* it may try again, with a new socket.
Throws(c) ==
    /\ running /\ c \notin m_awaiter /\ socket[c] = "new"
    /\ dangling' \in {dangling, dangling \cup {c}}
    /\ UNCHANGED <<socket, m_awaiter, registered, connecting, running>>

Establish(c) ==
    /\ socket[c] = "syn"
    /\ socket' = [socket EXCEPT ![c] = "established"]
    /\ UNCHANGED <<m_awaiter, registered, connecting, dangling, running>>

Refuse(c) ==
    /\ socket[c] = "syn"
    /\ socket' = [socket EXCEPT ![c] = "failed"]
    /\ UNCHANGED <<m_awaiter, registered, connecting, dangling, running>>

unregister(c) ==
    /\ m_awaiter' = m_awaiter \ {c}
    /\ registered' = registered \ {c}

\* The epoll reports a socket, and run() calls ConnectorCallback::on_callback.  A socket
\* that failed reports EPOLLHUP: the callback throws.  So does one that was never
\* connected, to a callback that is destroyed: it throws, or an assertion fails, or the
\* call itself does.  All of it ends the process.
ConnectorCallback(c) ==
    /\ running
    /\ \/ /\ c \in dangling \/ (c \in registered /\ socket[c] = "failed")
          /\ running' = FALSE
          /\ UNCHANGED <<m_awaiter, registered, connecting>>
       \/ /\ c \in registered /\ socket[c] = "established"
          /\ unregister(c)
          /\ connecting' = connecting \ {c}
          /\ UNCHANGED running
    /\ UNCHANGED <<socket, dangling>>
=============================================================================

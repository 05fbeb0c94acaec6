------------------------------ MODULE Network ------------------------------
(***************************************************************************)
(* Acceptors and connectors of awaiters.h together, with the kernel's      *)
(* backlog between them: a connection that a client's connect starts is    *)
(* established when the backlog takes it.  Clients sleep, and connect; the *)
(* coroutines of the server accept, and accept again.                      *)
(***************************************************************************)
EXTENDS Acceptor, Connector, Timer

CONSTANTS max_pendding_connection

ASSUME PendingAssumption == max_pendding_connection \in Nat \ {0}
ASSUME ClientsAssumption == Sleepers = Clients

vars == <<acceptorVars, connectorVars, timer>>

Init == AcceptorInit /\ ConnectorInit /\ TimerInit

Room == Len(backlog) < max_pendding_connection

Start(c) ==
    /\ timer[c] = "none"
    /\ \/ Connect(c, "established") /\ Room /\ Arrive(c)
       \/ (Connect(c, "syn") \/ Throws(c)) /\ UNCHANGED acceptorVars
    /\ UNCHANGED timer

Sleep(c) ==
    /\ running /\ socket[c] = "new" /\ c \notin m_awaiter
    /\ async_sleep(c)
    /\ UNCHANGED <<acceptorVars, connectorVars>>

Fire(c) == Expire(c) /\ UNCHANGED <<acceptorVars, connectorVars>>
Wake(c) == running /\ TimerCallback(c) /\ UNCHANGED <<acceptorVars, connectorVars>>
Connected(c) == ConnectorCallback(c) /\ UNCHANGED <<acceptorVars, timer>>

Handshake(c) == /\ \/ Establish(c) /\ Room /\ Arrive(c)
                   \/ Refuse(c) /\ UNCHANGED acceptorVars
                /\ UNCHANGED timer

ServerNext == ServerStep /\ UNCHANGED <<connectorVars, timer>>

Next == \/ ServerNext
        \/ \E c \in Clients : Start(c) \/ Sleep(c) \/ Fire(c) \/ Wake(c) \/ Connected(c) \/ Handshake(c)

\* The threads go on, time passes, and the server accepts again as every example does.
Fairness ==
    /\ \A s \in Servers : WF_vars(await_suspend(s) /\ UNCHANGED <<connectorVars, timer>>)
    /\ \A a \in Acceptors : WF_vars((Report(a) \/ on_callback(a)) /\ UNCHANGED <<connectorVars, timer>>)
    /\ \A c \in Clients : WF_vars(Fire(c)) /\ WF_vars(Wake(c)) /\ WF_vars(Connected(c))

Spec == Init /\ [][Next]_vars /\ Fairness

-----------------------------------------------------------------------------
(* Properties *)

\* A connection is accepted, unless an awaiter is lost: then the threads that hear of it
\* may be the ones that have none.  Nor is it if no acceptor can be used any more.
ConnectionAccepted ==
    \A c \in Clients :
        c \in Range(backlog) ~> (c \notin Range(backlog) \/ lost # {} \/ Spoiled = Acceptors)

\* A client whose timer is armed, or whose connection is established, goes on, unless a
\* socket that failed has ended the process: run() calls std::terminate.
ClientGoesOn ==
    \A c \in Clients :
        (timer[c] = "armed" \/ (c \in connecting /\ socket[c] = "established"))
        ~> (~running \/ (timer[c] = "none" /\ c \notin connecting))
=============================================================================

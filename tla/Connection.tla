----------------------------- MODULE Connection -----------------------------
(***************************************************************************)
(* ConnImpl and Connection of awaiters.h with their two awaiters, for the  *)
(* coroutines of a context that one thread runs, over a nonblocking stream *)
(* socket that epoll reports edge-triggered.                               *)
(*                                                                         *)
(* Receiving ("in") and sending ("out") are written twice in the source    *)
(* and once here.  Bytes come in units; a call that asked for as much as   *)
(* it got is "full".  Actions of the code end where the thread goes from   *)
(* library code to a coroutine or back; assertions are not steps.          *)
(***************************************************************************)
EXTENDS Naturals

CONSTANTS Coros, Readers, Senders, \* who calls async_read and async_send
          MaxData, MaxSpace,       \* the sizes of the socket's two buffers
          NULL

ASSUME ConnectionAssumption ==
    /\ NULL \notin Coros /\ Readers \subseteq Coros /\ Senders \subseteq Coros
    /\ MaxData \in Nat \ {0} /\ MaxSpace \in Nat \ {0}

Directions == {"in", "out"}
Users == [d \in Directions |-> IF d = "in" THEN Readers ELSE Senders]

\* What await_resume relies on, which pops the front of the list for whoever resumes.
OneOfAKind == \A d \in Directions : \A c, e \in Users[d] : c = e

VARIABLES
    data,    \* received and not read yet
    space,   \* left in the send buffer
    nospace, \* the socket's sender wants to know when there is space again
    peer,    \* "up", "fin" or "reset" sent, "ended" or "gone": some call reported it
    edge,    \* epoll has the socket in its ready list
    evt,     \* what epoll_wait reported and on_callback has yet to finish
    open,        \* m_conn_handle # NULL_SOCKET
    m_shutdown,  \* m_recv_shutdown, m_send_shutdown
    m_ready,     \* m_ready_to_recv, m_ready_to_send
    m_awaiter,   \* m_recv_awaiter, m_send_awaiter: the fronts of two lists
    m_next,      \* the link of each coroutine's awaiter
    m_ref_cnt, deleted, destroyed, \* deleted: the ConnImpl; destroyed: the Connection
    posted,  \* m_post_task is in the context's queue
    at, dir, awaiter, send_awaiter, nbytes, \* where the library code is, its locals
    running, \* the coroutine that runs, on top of the library code
    state    \* what each coroutine is doing

kernelVars == <<data, space, nospace, peer, edge>>
flagVars == <<open, m_shutdown, posted>>
lifeVars == <<m_ref_cnt, deleted, destroyed>>
listVars == <<m_awaiter, m_next>>
localVars == <<at, dir, awaiter, send_awaiter, nbytes>>
coroVars == <<running, state>>
vars == <<kernelVars, evt, flagVars, m_ready, listVars, lifeVars, localVars, coroVars>>

Pointers == Coros \cup {NULL}

Peers == {"up", "fin", "ended", "reset", "gone"}

TypeOK ==
    /\ data \in 0..MaxData /\ space \in 0..MaxSpace
    /\ nospace \in BOOLEAN /\ edge \in BOOLEAN /\ peer \in Peers
    /\ evt \in SUBSET Directions
    /\ open \in BOOLEAN /\ posted \in BOOLEAN
    /\ m_shutdown \in [Directions -> BOOLEAN] /\ m_ready \in [Directions -> BOOLEAN]
    /\ m_awaiter \in [Directions -> Pointers]
    /\ m_next \in [Directions -> [Coros -> Pointers]]
    /\ m_ref_cnt \in 0..2 /\ deleted \in BOOLEAN /\ destroyed \in BOOLEAN
    /\ at \in {"loop", "batch", "serve", "served", "close"}
    /\ dir \in Directions /\ awaiter \in Pointers /\ send_awaiter \in Pointers
    /\ nbytes \in {"full", "short", "error"}
    /\ running \in Pointers
    /\ state \in [Coros -> {"away", "user"} \cup Directions]

Init ==
    /\ data = 0 /\ space = MaxSpace /\ nospace = FALSE /\ peer = "up" /\ edge = TRUE
    /\ evt = {}
    /\ open = TRUE /\ posted = FALSE
    /\ m_shutdown = [d \in Directions |-> FALSE]
    /\ m_ready = [d \in Directions |-> TRUE]
    /\ m_awaiter = [d \in Directions |-> NULL]
    /\ m_next = [d \in Directions |-> [c \in Coros |-> NULL]]
    /\ m_ref_cnt = 2 /\ deleted = FALSE /\ destroyed = FALSE
    /\ at = "loop" /\ dir = "in" /\ awaiter = NULL /\ send_awaiter = NULL /\ nbytes = "full"
    /\ running = NULL /\ state = [c \in Coros |-> "away"]

-----------------------------------------------------------------------------
(* The socket *)

Broken == peer \in {"reset", "gone"}

\* What poll reports.
Pollable(d) ==
    \/ m_shutdown[d] \/ Broken
    \/ d = "in" /\ (data > 0 \/ peer \in {"fin", "ended"})
    \/ d = "out" /\ space > 0

Arrive ==
    /\ open /\ peer = "up" /\ data < MaxData
    /\ data' = data + 1 /\ edge' = TRUE
    /\ UNCHANGED <<space, nospace, peer>>

PeerEnds ==
    /\ open
    /\ \/ peer = "up" /\ peer' = "fin"
       \/ peer \in {"up", "fin", "ended"} /\ peer' = "reset"
    /\ edge' = TRUE
    /\ UNCHANGED <<data, space, nospace>>

Drain ==
    /\ open /\ space < MaxSpace
    /\ space' = space + 1
    /\ edge' = (edge \/ nospace) /\ nospace' = FALSE
    /\ UNCHANGED <<data, peer>>

Socket == (Arrive \/ PeerEnds \/ Drain)
          /\ UNCHANGED <<evt, flagVars, m_ready, listVars, lifeVars, localVars, coroVars>>

\* A reset is an error of the next call, and of later calls of send.
ReportReset == peer' = IF peer = "reset" THEN "gone" ELSE peer
ReportEnd == peer' = IF peer = "fin" THEN "ended" ELSE peer

\* ::recv returned n; the end of the stream is 0, and short of every buffer.
recv(n) ==
    /\ \/ n = "full" /\ \E k \in 1..data : data' = data - k /\ UNCHANGED peer
       \/ n = "short" /\ data > 0 /\ data' = 0 /\ UNCHANGED peer
       \/ /\ data = 0 /\ UNCHANGED data
          /\ \/ n = "error" /\ peer = "reset" /\ ReportReset
             \/ n = "short" /\ peer # "reset" /\ Pollable("in") /\ ReportEnd
             \/ n = "again" /\ ~Pollable("in") /\ UNCHANGED peer
    /\ UNCHANGED <<space, nospace, edge>>

\* ::send returned n.
send(n) ==
    /\ \/ /\ n = "error" /\ (m_shutdown["out"] \/ Broken) /\ ReportReset
          /\ UNCHANGED <<space, nospace>>
       \/ /\ ~m_shutdown["out"] /\ ~Broken /\ UNCHANGED peer
          /\ \/ /\ n = "full" /\ \E k \in 1..space : space' = space - k
                /\ UNCHANGED nospace
             \/ /\ n = (IF space > 0 THEN "short" ELSE "again")
                /\ space' = 0 /\ nospace' = TRUE
    /\ UNCHANGED <<data, edge>>

\* The call on a descriptor that was closed since it was read from m_conn_handle.
Transfer(d, n) ==
    IF ~open THEN n = "error" /\ UNCHANGED kernelVars
    ELSE IF d = "in" THEN recv(n) ELSE send(n)

Transferred == {"full", "short", "error"}

-----------------------------------------------------------------------------
(* The thread in library code *)

To(there, d, w) == at' = there /\ dir' = d /\ awaiter' = w

\* The rest of on_callback: serve the senders that were there when it began, or return.
GoSend(events, sender) ==
    IF "out" \in events /\ sender # NULL
    THEN To("serve", "out", sender) /\ evt' = events /\ send_awaiter' = sender
    ELSE To("loop", "in", NULL) /\ evt' = {} /\ send_awaiter' = NULL

EndPhase == GoSend(IF dir = "in" THEN evt ELSE {}, send_awaiter)

\* Faulty variant: await_resume does not pop.
ResumeAwaiterListed(d, w) ==
    /\ state' = [state EXCEPT ![w] = "user"] /\ running' = w
    /\ UNCHANGED listVars

\* Resume the coroutine of w, whose await_resume pops the front of the list.
ResumeAwaiter(d, w) ==
    /\ m_awaiter' = [m_awaiter EXCEPT ![d] = m_next[d][@]]
    /\ state' = [state EXCEPT ![w] = "user"] /\ running' = w
    /\ UNCHANGED m_next

\* epoll_wait takes the socket from the ready list and asks what is ready now.
EpollWait ==
    /\ at = "loop" /\ running = NULL /\ open /\ ~posted /\ edge
    /\ edge' = FALSE
    /\ evt' = {d \in Directions : Pollable(d)}
    /\ nospace' = (nospace \/ ~Pollable("out"))
    /\ at' = IF evt' = {} THEN "loop" ELSE "batch"
    /\ UNCHANGED <<data, space, peer, flagVars, m_ready, listVars, lifeVars, dir, awaiter,
                   send_awaiter, nbytes, coroVars>>

\* Faulty variant: the flags are set for the directions somebody waits in.
on_callback_for_awaiters ==
    /\ at = "batch" /\ running = NULL
    /\ m_ready' = [d \in Directions |-> m_ready[d] \/ (open /\ d \in evt /\ m_awaiter[d] # NULL)]
    /\ IF open /\ "in" \in evt /\ m_awaiter["in"] # NULL
       THEN /\ To("serve", "in", m_awaiter["in"]) /\ send_awaiter' = m_awaiter["out"]
            /\ UNCHANGED evt
       ELSE GoSend(IF open THEN evt ELSE {}, m_awaiter["out"])
    /\ UNCHANGED <<kernelVars, flagVars, listVars, lifeVars, nbytes, coroVars>>

on_callback ==
    /\ at = "batch" /\ running = NULL
    /\ m_ready' = [d \in Directions |-> m_ready[d] \/ (open /\ d \in evt)]
    /\ IF open /\ "in" \in evt /\ m_awaiter["in"] # NULL
       THEN /\ To("serve", "in", m_awaiter["in"]) /\ send_awaiter' = m_awaiter["out"]
            /\ UNCHANGED evt
       ELSE GoSend(IF open THEN evt ELSE {}, m_awaiter["out"])
    /\ UNCHANGED <<kernelVars, flagVars, listVars, lifeVars, nbytes, coroVars>>

\* One round of on_callback's loops, up to the resumption.
Serve ==
    /\ at = "serve" /\ running = NULL
    /\ \/ /\ Transfer(dir, "again")
          /\ m_ready' = [m_ready EXCEPT ![dir] = FALSE]
          /\ EndPhase
          /\ UNCHANGED <<listVars, nbytes, coroVars>>
       \/ \E n \in Transferred :
             /\ Transfer(dir, n) /\ nbytes' = n
             /\ ResumeAwaiter(dir, awaiter) /\ at' = "served"
             /\ UNCHANGED <<evt, m_ready, dir, awaiter, send_awaiter>>
    /\ UNCHANGED <<flagVars, lifeVars>>

\* Faulty variant: the loop does not advance.
ServedAgain ==
    /\ at = "served" /\ running = NULL
    /\ m_ready' = [m_ready EXCEPT ![dir] = @ /\ nbytes # "short"]
    /\ IF nbytes # "short"
       THEN To("serve", dir, awaiter) /\ UNCHANGED <<evt, send_awaiter>>
       ELSE EndPhase
    /\ UNCHANGED <<kernelVars, flagVars, listVars, lifeVars, nbytes, coroVars>>

\* The rest of the round, after the coroutine has suspended itself again.  An error is
\* -1, which is no less than a size_t.
Served ==
    /\ at = "served" /\ running = NULL
    /\ m_ready' = [m_ready EXCEPT ![dir] = @ /\ nbytes # "short"]
    /\ LET next == m_next[dir][awaiter] IN
       IF nbytes # "short" /\ next # NULL
       THEN To("serve", dir, next) /\ UNCHANGED <<evt, send_awaiter>>
       ELSE EndPhase
    /\ UNCHANGED <<kernelVars, flagVars, listVars, lifeVars, nbytes, coroVars>>

\* Drop one of the two references.
Release(gone) ==
    /\ m_ref_cnt' = m_ref_cnt - 1
    /\ deleted' = (m_ref_cnt = 1)
    /\ destroyed' = gone

\* The posted task: wakeup_awaiter_on_close.
StartWakeup ==
    /\ at = "loop" /\ running = NULL /\ posted
    /\ posted' = FALSE
    /\ To("close", "in", m_awaiter["in"])
    /\ UNCHANGED <<kernelVars, evt, open, m_shutdown, m_ready, listVars, lifeVars,
                   send_awaiter, nbytes, coroVars>>

Wakeup ==
    /\ at = "close" /\ running = NULL /\ awaiter # NULL
    /\ ResumeAwaiter(dir, awaiter)
    /\ awaiter' = m_next[dir][awaiter]
    /\ UNCHANGED <<kernelVars, evt, flagVars, m_ready, lifeVars, at, dir, send_awaiter,
                   nbytes>>

\* Faulty variant: the task forgets the senders.
WakeupNoSenders ==
    /\ at = "close" /\ running = NULL /\ awaiter = NULL /\ dir = "in"
    /\ To("close", "out", NULL)
    /\ UNCHANGED <<kernelVars, evt, flagVars, m_ready, listVars, lifeVars, send_awaiter,
                   nbytes, coroVars>>

WakeupSenders ==
    /\ at = "close" /\ running = NULL /\ awaiter = NULL /\ dir = "in"
    /\ To("close", "out", m_awaiter["out"])
    /\ UNCHANGED <<kernelVars, evt, flagVars, m_ready, listVars, lifeVars, send_awaiter,
                   nbytes, coroVars>>

\* Faulty variant: the task deletes the ConnImpl whoever else refers to it.
FinishWakeupDeleting ==
    /\ at = "close" /\ running = NULL /\ awaiter = NULL /\ dir = "out"
    /\ m_ref_cnt' = m_ref_cnt - 1 /\ deleted' = TRUE /\ UNCHANGED destroyed
    /\ To("loop", "in", NULL)
    /\ UNCHANGED <<kernelVars, evt, flagVars, m_ready, listVars, send_awaiter, nbytes,
                   coroVars>>

FinishWakeup ==
    /\ at = "close" /\ running = NULL /\ awaiter = NULL /\ dir = "out"
    /\ Release(destroyed)
    /\ To("loop", "in", NULL)
    /\ UNCHANGED <<kernelVars, evt, flagVars, m_ready, listVars, send_awaiter, nbytes,
                   coroVars>>

-----------------------------------------------------------------------------
(* The coroutines *)

\* Another event or task resumes a coroutine that waits for something else.
Resume(c) ==
    /\ at \in {"loop", "batch"} /\ running = NULL /\ state[c] = "away"
    /\ state' = [state EXCEPT ![c] = "user"] /\ running' = c
    /\ UNCHANGED <<kernelVars, evt, flagVars, m_ready, listVars, lifeVars, localVars>>

Suspend(c, there) ==
    /\ state' = [state EXCEPT ![c] = there] /\ running' = NULL

SuspendElsewhere(c) ==
    /\ running = c /\ Suspend(c, "away")
    /\ UNCHANGED <<kernelVars, evt, flagVars, m_ready, listVars, lifeVars, localVars>>

\* await_suspend calls the socket at once, and need not suspend.
TryNow(d, c) ==
    /\ m_ready[d]
    /\ \E n \in Transferred : Transfer(d, n)
    /\ m_next' = [m_next EXCEPT ![d][c] = NULL]
    /\ UNCHANGED <<m_ready, m_awaiter, coroVars>>

\* await_suspend inserts the awaiter in front of the list.
Enlist(d, c) ==
    /\ IF m_ready[d] THEN Transfer(d, "again") ELSE UNCHANGED kernelVars
    /\ m_ready' = [m_ready EXCEPT ![d] = FALSE]
    /\ m_next' = [m_next EXCEPT ![d][c] = m_awaiter[d]]
    /\ m_awaiter' = [m_awaiter EXCEPT ![d] = c]
    /\ Suspend(c, d)

\* co_await async_read or async_send: a new awaiter, await_ready, await_suspend.
Await(d, c) ==
    /\ running = c /\ c \in Users[d] /\ ~destroyed
    /\ open /\ ~m_shutdown[d]
    /\ TryNow(d, c) \/ Enlist(d, c)
    /\ UNCHANGED <<evt, flagVars, lifeVars, localVars>>

\* safe_shutdown_recv, safe_shutdown_send and safe_shutdown_recv_send.
Shutdown(ds) ==
    /\ running # NULL /\ ~destroyed /\ open
    /\ \A d \in ds : ~m_shutdown[d]
    /\ m_shutdown' = [d \in Directions |-> m_shutdown[d] \/ d \in ds]
    /\ edge' = TRUE
    /\ UNCHANGED <<data, space, nospace, peer, evt, open, posted, m_ready, listVars, lifeVars,
                   localVars, coroVars>>

\* The rest of close: the socket leaves epoll, and the task is posted.
Closed ==
    /\ open' = FALSE /\ edge' = FALSE /\ posted' = TRUE
    /\ m_shutdown' = [d \in Directions |-> TRUE]
    /\ UNCHANGED <<data, space, nospace, peer>>

close ==
    /\ running # NULL /\ ~destroyed /\ open
    /\ Closed
    /\ UNCHANGED <<evt, m_ready, listVars, lifeVars, localVars, coroVars>>

\* ~Connection.
Destroy ==
    /\ running # NULL /\ ~destroyed
    /\ IF open THEN Closed ELSE UNCHANGED <<kernelVars, flagVars>>
    /\ Release(TRUE)
    /\ UNCHANGED <<evt, m_ready, listVars, localVars, coroVars>>

-----------------------------------------------------------------------------
Library == EpollWait \/ on_callback \/ Serve \/ Served \/ StartWakeup \/ Wakeup
           \/ WakeupSenders \/ FinishWakeup

Next ==
    \/ Socket
    \/ Library
    \/ \E c \in Coros : Resume(c) \/ SuspendElsewhere(c) \/ \E d \in Directions : Await(d, c)
    \/ \E ds \in SUBSET Directions \ {{}} : Shutdown(ds)
    \/ close \/ Destroy

Spec == Init /\ [][Next]_vars

\* The loop goes on, epoll_wait comes to every descriptor that is ready and run to every
\* posted task, also when others keep coming, and no coroutine runs for ever.
FairSpec == Spec /\ SF_vars(Library) /\ WF_vars(\E c \in Coros : SuspendElsewhere(c))

-----------------------------------------------------------------------------
(* Properties *)

\* The coroutines whose awaiters are met on the way from the front of a list: those in
\* every set that has the front and follows the links.
Listed(d) ==
    LET Follows(S) == /\ m_awaiter[d] \in S \cup {NULL}
                      /\ \A c \in S : m_next[d][c] \in S \cup {NULL}
    IN  {c \in Coros : \A S \in SUBSET Coros : Follows(S) => c \in S}

\* The list of each direction holds the coroutines that are suspended in it and no
\* other, and it is empty when the ConnImpl is deleted, which the destructor asserts.
AwaitersListed ==
    \A d \in Directions : /\ Listed(d) = {c \in Coros : state[c] = d}
                          /\ deleted => Listed(d) = {}

\* The awaiter that on_callback or the task of close goes on with is suspended, also
\* the sender that on_callback read before it resumed a reader, who may have closed.
ServesSuspended ==
    at \in {"serve", "close"} /\ running = NULL /\ awaiter # NULL => state[awaiter] = dir

\* Nothing leads to the ConnImpl after its deletion: no frame of its functions, no
\* event that is reported already, no task and no awaiter.
NoUseAfterDelete ==
    deleted => at = "loop" /\ evt = {} /\ ~posted /\ ~edge /\ destroyed

\* Edge-triggered events do not get lost between the socket, the two flags and the two
\* lists: a reader goes on when there is data, a sender when there is space.
ReadinessServed ==
    /\ \A c \in Coros : state[c] = "in" /\ data > 0 ~> state[c] # "in"
    /\ \A c \in Coros : state[c] = "out" /\ space > 0 ~> state[c] # "out" \/ space = 0

\* close wakes every awaiter, and a ConnImpl without its Connection goes away.
CloseEndsAll ==
    /\ ~open ~> \A c \in Coros : state[c] \notin Directions
    /\ destroyed ~> deleted

\* A reader that waits learns that the peer has ended the stream, if no call has
\* reported it yet: an event is on its way.
EndIsReported ==
    \A c \in Coros : state[c] = "in" /\ peer = "fin" /\ open => edge \/ "in" \in evt
=============================================================================

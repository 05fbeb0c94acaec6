-------------------------- MODULE ConnectionProofs --------------------------
(***************************************************************************)
(* Theorems about Connection for any coroutines and buffers.  What depends *)
(* on the lists holds with one reader and one sender, as await_resume pops *)
(* the front of a list for whoever is resumed.                             *)
(***************************************************************************)
EXTENDS Connection, TLAPS

\* The two references: the Connection's, and that of the task close posts, which the
\* open connection will need.
References ==
    m_ref_cnt = (IF destroyed THEN 0 ELSE 1)
                + (IF open \/ posted \/ at = "close" THEN 1 ELSE 0)

\* While on_callback or a reported event is pending the task of close has not begun.
Life ==
    /\ at \in {"loop", "batch", "serve", "served", "close"}
    /\ edge \in BOOLEAN /\ open \in BOOLEAN /\ posted \in BOOLEAN
    /\ destroyed \in BOOLEAN /\ deleted \in BOOLEAN
    /\ References
    /\ deleted <=> m_ref_cnt = 0
    /\ destroyed => ~open
    /\ open => ~posted /\ at # "close"
    /\ posted => at # "close"
    /\ at \in {"batch", "serve", "served"} => open \/ posted
    /\ at \in {"loop", "close"} => evt = {}
    /\ edge => open

\* With one coroutine each, a list is empty or has that coroutine.
Lists ==
    /\ running # NULL => state[running] = "user"
    /\ \A d \in Directions, c \in Coros :
          /\ m_next[d][c] = NULL
          /\ state[c] = d <=> m_awaiter[d] = c
          /\ state[c] = d => c \in Users[d]

\* Where library code goes on, and what it has read before.
Walk ==
    /\ at = "serve" => running = NULL /\ awaiter # NULL /\ awaiter = m_awaiter[dir]
    /\ at = "served" => awaiter \in Coros
    /\ at \in {"serve", "served"} /\ dir = "in" /\ send_awaiter # NULL =>
          send_awaiter = m_awaiter["out"]
    /\ at = "close" => awaiter = m_awaiter[dir]
    /\ at = "close" /\ dir = "out" => m_awaiter["in"] = NULL
    /\ ~open /\ ~posted /\ at # "close" => \A d \in Directions : m_awaiter[d] = NULL

IInv == TypeOK /\ Life /\ Lists /\ Walk

-----------------------------------------------------------------------------
(* The life of the ConnImpl, whatever is in the lists *)

\* A call of recv or send changes nothing about the events of the socket.
LEMMA TransferKeepsEdge ==
    ASSUME NEW d, NEW n, Transfer(d, n)
    PROVE  edge' = edge
  BY DEF Transfer, recv, send, kernelVars

\* Where the rest of on_callback leads.
LEMMA GoSendLeads ==
    ASSUME NEW events, NEW sender, GoSend(events, sender)
    PROVE  (at' = "loop" /\ evt' = {}) \/ at' = "serve"
  BY DEF GoSend, To

LEMMA InitLife == Init => Life
  <1> SUFFICES ASSUME Init PROVE Life
    OBVIOUS
  <1>1. /\ m_ref_cnt = 2 /\ destroyed = FALSE /\ open = TRUE /\ posted = FALSE /\ at = "loop"
        /\ deleted = FALSE /\ evt = {} /\ edge = TRUE
    BY DEF Init
  <1>2. References /\ m_ref_cnt # 0
    BY <1>1 DEF References
  <1> QED BY <1>1, <1>2 DEF Life

LEMMA NextLife ==
    ASSUME Life, [Next]_vars
    PROVE  Life'
  <1> USE DEF Life, References, flagVars, lifeVars, localVars, kernelVars
  <1>1. CASE Socket
    BY <1>1 DEF Socket, Arrive, PeerEnds, Drain
  <1>2. CASE EpollWait
    BY <1>2 DEF EpollWait
  <1>3. CASE on_callback
    <2>1. /\ at = "batch" /\ UNCHANGED <<edge, open, posted, m_ref_cnt, deleted, destroyed>>
      BY <1>3 DEF on_callback
    <2>2. (at' = "loop" /\ evt' = {}) \/ at' = "serve"
      BY <1>3, GoSendLeads DEF on_callback, To
    <2> QED BY <2>1, <2>2
  <1>4. CASE Serve
    <2>1. at = "serve" /\ UNCHANGED <<open, posted, m_ref_cnt, deleted, destroyed>>
      BY <1>4 DEF Serve
    <2>2. edge' = edge
      BY <1>4, TransferKeepsEdge DEF Serve
    <2>3. (at' = "loop" /\ evt' = {}) \/ at' = "serve" \/ at' = "served"
      BY <1>4, GoSendLeads DEF Serve, EndPhase
    <2> QED BY <2>1, <2>2, <2>3
  <1>5. CASE Served
    <2>1. /\ at = "served" /\ UNCHANGED <<edge, open, posted, m_ref_cnt, deleted, destroyed>>
      BY <1>5 DEF Served
    <2>2. (at' = "loop" /\ evt' = {}) \/ at' = "serve"
      BY <1>5, GoSendLeads DEF Served, EndPhase, To
    <2> QED BY <2>1, <2>2
  <1>6. CASE StartWakeup
    BY <1>6 DEF StartWakeup, To
  <1>7. CASE Wakeup
    BY <1>7 DEF Wakeup
  <1>8. CASE WakeupSenders
    BY <1>8 DEF WakeupSenders, To
  <1>9. CASE FinishWakeup
    <2>1. /\ at = "close" /\ at' = "loop" /\ UNCHANGED <<edge, evt, open, posted>>
          /\ destroyed' = destroyed /\ m_ref_cnt' = m_ref_cnt - 1
      BY <1>9 DEF FinishWakeup, Release, To
    <2>2. m_ref_cnt = (IF destroyed THEN 0 ELSE 1) + 1 /\ ~open /\ ~posted
      BY <2>1
    <2>3. m_ref_cnt' = IF destroyed THEN 0 ELSE 1
      BY <2>1, <2>2
    <2>4. deleted' = destroyed
      BY <1>9, <2>2 DEF FinishWakeup, Release
    <2> QED BY <2>1, <2>2, <2>3, <2>4
  <1>10. ASSUME NEW c \in Coros, Resume(c) \/ SuspendElsewhere(c) PROVE Life'
    BY <1>10 DEF Resume, SuspendElsewhere
  <1>11. ASSUME NEW c \in Coros, NEW d \in Directions, Await(d, c) PROVE Life'
    <2>1. UNCHANGED <<evt, flagVars, lifeVars, localVars>>
      BY <1>11 DEF Await
    <2>2. edge' = edge
      BY <1>11, TransferKeepsEdge DEF Await, TryNow, Enlist
    <2> QED BY <2>1, <2>2
  <1>12. ASSUME NEW ds, Shutdown(ds) PROVE Life'
    BY <1>12 DEF Shutdown
  <1>13. CASE close
    BY <1>13 DEF close, Closed
  <1>14. CASE Destroy
    <2>1. /\ ~destroyed /\ destroyed' = TRUE /\ m_ref_cnt' = m_ref_cnt - 1
          /\ UNCHANGED <<evt, at>>
          /\ open' = FALSE /\ (edge' => edge) /\ (posted' <=> open \/ posted)
          /\ posted' \in BOOLEAN
      BY <1>14 DEF Destroy, Closed, Release
    <2>2. deleted' = (m_ref_cnt = 1)
      BY <1>14 DEF Destroy, Release
    <2>3. m_ref_cnt = 1 + (IF open \/ posted \/ at = "close" THEN 1 ELSE 0)
      BY <2>1
    <2>4. /\ m_ref_cnt' = IF posted' \/ at' = "close" THEN 1 ELSE 0
          /\ References'
          /\ m_ref_cnt' = 0 <=> m_ref_cnt = 1
      BY <2>1, <2>3
    <2>5. edge' = FALSE
      <3>1. CASE open
        BY <1>14, <3>1 DEF Destroy, Closed
      <3>2. CASE ~open
        BY <1>14, <3>2 DEF Destroy
      <3> QED BY <3>1, <3>2
    <2>6. posted' => at' # "close"
      BY <2>1
    <2>7. at' \in {"batch", "serve", "served"} => posted'
      BY <2>1
    <2>8. deleted' \in BOOLEAN /\ (deleted' <=> m_ref_cnt' = 0)
      <3> HIDE DEF References
      <3> QED BY <2>2, <2>4, Zenon
    <2> HIDE DEF References
    <2> QED BY <2>1, <2>4, <2>5, <2>6, <2>7, <2>8
  <1>15. CASE UNCHANGED vars
    BY <1>15 DEF vars
  <1> QED BY <1>1, <1>2, <1>3, <1>4, <1>5, <1>6, <1>7, <1>8, <1>9, <1>10, <1>11, <1>12,
             <1>13, <1>14, <1>15 DEF Next, Library

\* After the deletion nothing leads to the ConnImpl: whichever of the posted task and
\* ~Connection is last, for any number of readers and senders.
THEOREM DeletedIsForgotten == Spec => []NoUseAfterDelete
  <1>1. Life => NoUseAfterDelete
    BY DEF Life, References, NoUseAfterDelete
  <1> QED BY <1>1, InitLife, NextLife, PTL DEF Spec

-----------------------------------------------------------------------------
(* Types and lists, with one reader and one sender *)

\* The parts of TypeOK that Life does not have.
KernelTypes ==
    /\ data \in 0..MaxData /\ space \in 0..MaxSpace
    /\ nospace \in BOOLEAN /\ edge \in BOOLEAN /\ peer \in Peers

States == {"away", "user"} \cup Directions

LocalTypes ==
    /\ evt \in SUBSET Directions
    /\ dir \in Directions /\ awaiter \in Pointers /\ send_awaiter \in Pointers
    /\ nbytes \in {"full", "short", "error"}

FlagTypes == m_shutdown \in [Directions -> BOOLEAN] /\ m_ready \in [Directions -> BOOLEAN]

ListTypes ==
    /\ m_awaiter \in [Directions -> Pointers]
    /\ m_next \in [Directions -> [Coros -> Pointers]]
    /\ running \in Pointers
    /\ state \in [Coros -> States]

LEMMA Types == Life => (TypeOK <=> KernelTypes /\ LocalTypes /\ FlagTypes /\ ListTypes)
  <1> SUFFICES ASSUME Life PROVE TypeOK <=> KernelTypes /\ LocalTypes /\ FlagTypes /\ ListTypes
    OBVIOUS
  <1>1. m_ref_cnt \in 0..2
    BY DEF Life, References
  <1>2. /\ at \in {"loop", "batch", "serve", "served", "close"}
        /\ open \in BOOLEAN /\ posted \in BOOLEAN
        /\ destroyed \in BOOLEAN /\ deleted \in BOOLEAN
    BY DEF Life
  <1> QED BY <1>1, <1>2, Zenon DEF TypeOK, KernelTypes, LocalTypes, FlagTypes, ListTypes, States

\* A call of recv or send keeps the socket's buffers in bounds.
LEMMA TransferKeeps ==
    ASSUME TypeOK, NEW d \in Directions, NEW n, Transfer(d, n)
    PROVE  KernelTypes'
  <1> USE ConnectionAssumption DEF TypeOK, KernelTypes, Peers
  <1>1. CASE ~open
    BY <1>1 DEF Transfer, kernelVars
  <1>2. CASE open /\ d = "in"
    BY <1>2 DEF Transfer, recv, ReportReset, ReportEnd
  <1>3. CASE open /\ d # "in"
    <2>1. send(n)
      BY <1>3 DEF Transfer
    <2>2. UNCHANGED <<data, edge>>
      BY <2>1 DEF send
    <2>3. peer' \in Peers
      BY <2>1 DEF send, ReportReset
    <2>4. space' \in 0..MaxSpace
      BY <2>1 DEF send
    <2>5. nospace' \in BOOLEAN
      BY <2>1, Zenon DEF send
    <2> QED BY <2>2, <2>3, <2>4, <2>5
  <1> QED BY <1>1, <1>2, <1>3

\* The first of a list is suspended in it, a running coroutine is in none.
LEMMA FrontSuspended ==
    ASSUME TypeOK, Lists, NEW d \in Directions, m_awaiter[d] # NULL
    PROVE  m_awaiter[d] \in Users[d] /\ m_awaiter[d] \in Coros /\ state[m_awaiter[d]] = d
  BY DEF TypeOK, Lists, Pointers

LEMMA RunningUnlisted ==
    ASSUME OneOfAKind, TypeOK, Lists, NEW d \in Directions, NEW c \in Users[d], running = c
    PROVE  m_awaiter[d] = NULL
  <1>1. c \in Coros /\ c # NULL
    BY ConnectionAssumption DEF Users, Directions
  <1>2. state[c] = "user" /\ state[c] # d
    BY <1>1 DEF Lists, Directions
  <1> QED BY <1>1, <1>2, FrontSuspended DEF OneOfAKind

\* Who is resumed leaves its list, which was its own.
LEMMA ResumeKeeps ==
    ASSUME TypeOK, Lists, NEW d \in Directions, m_awaiter[d] # NULL,
           ResumeAwaiter(d, m_awaiter[d])
    PROVE  /\ m_awaiter' = [m_awaiter EXCEPT ![d] = NULL] /\ m_next' = m_next
           /\ m_awaiter' \in [Directions -> Pointers]
           /\ running' \in Coros /\ running' = m_awaiter[d]
           /\ state' \in [Coros -> States]
           /\ Lists'
  <1> DEFINE w == m_awaiter[d]
  <1>1. w \in Coros /\ state[w] = d
    BY FrontSuspended
  <1>2. m_awaiter' = [m_awaiter EXCEPT ![d] = NULL] /\ m_next' = m_next
    <2>1. m_next[d][w] = NULL BY <1>1 DEF Lists
    <2> QED BY <2>1 DEF ResumeAwaiter, TypeOK
  <1>3. state' = [state EXCEPT ![w] = "user"] /\ running' = w
    BY DEF ResumeAwaiter
  <1>4. m_awaiter' \in [Directions -> Pointers] /\ state' \in [Coros -> States]
    BY <1>2, <1>3 DEF TypeOK, Pointers, States
  <1>5. running' # NULL => state'[running'] = "user"
    BY <1>1, <1>3 DEF TypeOK
  <1>6. ASSUME NEW e \in Directions, NEW c \in Coros
        PROVE  /\ m_next'[e][c] = NULL
               /\ state'[c] = e <=> m_awaiter'[e] = c
               /\ state'[c] = e => c \in Users[e]
    <2>1. m_next'[e][c] = NULL
      BY <1>2 DEF Lists
    <2>2. e # "user" /\ c # NULL
      BY ConnectionAssumption DEF Directions
    <2>3. CASE c = w
      <3>1. state'[c] = "user" BY <1>3, <2>3 DEF TypeOK
      <3>2. m_awaiter'[e] # c
        BY <1>1, <1>2, <2>2, <2>3 DEF Lists, TypeOK
      <3> QED BY <2>1, <2>2, <3>1, <3>2
    <2>4. CASE c # w
      <3>1. state'[c] = state[c] BY <1>3, <2>4 DEF TypeOK
      <3>2. m_awaiter'[e] = c <=> m_awaiter[e] = c
        BY <1>2, <2>2, <2>4 DEF TypeOK
      <3> QED BY <2>1, <3>1, <3>2 DEF Lists
    <2> QED BY <2>3, <2>4
  <1> QED BY <1>1, <1>2, <1>3, <1>4, <1>5, <1>6 DEF Lists

\* The rest of on_callback goes on with the sender it had read, if there is one.
LEMMA GoSendKeeps ==
    ASSUME TypeOK, NEW events \in SUBSET Directions, NEW sender \in Pointers,
           "out" \in events /\ sender # NULL => sender = m_awaiter["out"],
           GoSend(events, sender), running = NULL,
           UNCHANGED <<listVars, coroVars>>,
           at \in {"batch", "serve", "served"}, Life, UNCHANGED <<open, posted>>
    PROVE  /\ at' \in {"loop", "serve"} /\ dir' \in Directions
           /\ awaiter' \in Pointers /\ send_awaiter' \in Pointers
           /\ evt' \in SUBSET Directions
           /\ Walk'
  <1>1. open \/ posted BY DEF Life
  <1> QED BY <1>1 DEF GoSend, To, Directions, Pointers, Walk, listVars, coroVars

LEMMA InitIInv == Init => IInv
  <1> SUFFICES ASSUME Init PROVE IInv
    OBVIOUS
  <1> USE ConnectionAssumption
  <1>1. Life
    BY InitLife
  <1>2. KernelTypes /\ LocalTypes /\ FlagTypes /\ ListTypes
    <2>1. KernelTypes
      <3>1. data \in 0..MaxData /\ space \in 0..MaxSpace
        BY DEF Init
      <3>2. nospace \in BOOLEAN /\ edge \in BOOLEAN /\ peer \in Peers
        BY Zenon DEF Init, Peers
      <3> QED BY <3>1, <3>2 DEF KernelTypes
    <2>2. LocalTypes
      BY DEF Init, LocalTypes, Pointers, Directions
    <2>3. FlagTypes
      BY DEF Init, FlagTypes
    <2>4. ListTypes
      BY DEF Init, ListTypes, States, Pointers
    <2> QED BY <2>1, <2>2, <2>3, <2>4
  <1>3. Lists
    BY DEF Init, Lists, Directions
  <1>4. Walk
    BY DEF Init, Walk
  <1> QED BY <1>1, <1>2, <1>3, <1>4, Types DEF IInv

\* With one reader and one sender no step breaks the lists, nor what the library code
\* on the stack relies on.
LEMMA NextIInv ==
    ASSUME OneOfAKind, IInv, [Next]_vars
    PROVE  IInv'
  <1> DEFINE Goal == /\ KernelTypes' /\ LocalTypes' /\ FlagTypes' /\ ListTypes'
                     /\ Lists' /\ Walk'
  <1>0. /\ TypeOK /\ Life /\ Lists /\ Walk /\ Life'
        /\ KernelTypes /\ LocalTypes /\ FlagTypes /\ ListTypes
    BY NextLife, Types DEF IInv
  <1> SUFFICES Goal
    <2>1. TypeOK' BY <1>0, Types, PTL
    <2> QED BY <1>0, <2>1 DEF IInv
  <1>1. CASE Socket
    <2>1. UNCHANGED <<evt, flagVars, m_ready, listVars, lifeVars, localVars, coroVars>>
      BY <1>1 DEF Socket
    <2>2. edge' \in BOOLEAN /\ nospace' \in BOOLEAN /\ peer' \in Peers
      BY <1>0, <1>1, Zenon DEF Socket, Arrive, PeerEnds, Drain, KernelTypes, Life, Peers
    <2>3. data' \in 0..MaxData /\ space' \in 0..MaxSpace
      BY <1>0, <1>1, ConnectionAssumption DEF Socket, Arrive, PeerEnds, Drain, KernelTypes
    <2> QED BY <1>0, <2>1, <2>2, <2>3
        DEF flagVars, listVars, lifeVars, localVars, coroVars, LocalTypes, FlagTypes,
            ListTypes, Lists, Walk, KernelTypes
  <1>2. CASE EpollWait
    <2> USE DEF EpollWait
    <2>1. KernelTypes'
      BY <1>0, <1>2 DEF KernelTypes
    <2>2. LocalTypes' /\ FlagTypes' /\ ListTypes' /\ Lists'
      BY <1>0, <1>2
      DEF flagVars, listVars, coroVars, LocalTypes, FlagTypes, ListTypes, Lists, Directions
    <2>3. at' \in {"loop", "batch"} /\ open' /\ at = "loop"
      BY <1>2 DEF flagVars
    <2>4. Walk'
      BY <2>3 DEF Walk
    <2> QED BY <2>1, <2>2, <2>4
  <1>3. CASE on_callback
    <2>1. /\ at = "batch" /\ running = NULL
          /\ UNCHANGED <<kernelVars, flagVars, listVars, lifeVars, nbytes, coroVars>>
      BY <1>3 DEF on_callback
    <2>2. FlagTypes'
      <3>1. m_ready' \in [Directions -> BOOLEAN]
        BY <1>0, <1>3, Zenon DEF on_callback, FlagTypes
      <3> QED BY <1>0, <2>1, <3>1 DEF FlagTypes, flagVars
    <2>3. KernelTypes' /\ ListTypes' /\ Lists'
      BY <1>0, <2>1 DEF KernelTypes, kernelVars, listVars, coroVars, ListTypes, Lists
    <2>4. LocalTypes' /\ Walk'
      <3>1. CASE open /\ "in" \in evt /\ m_awaiter["in"] # NULL
        <4>1. /\ at' = "serve" /\ dir' = "in" /\ awaiter' = m_awaiter["in"] /\ evt' = evt
              /\ send_awaiter' = m_awaiter["out"]
          BY <1>3, <3>1 DEF on_callback, To
        <4>2. LocalTypes'
          BY <1>0, <2>1, <4>1 DEF LocalTypes, ListTypes, Directions
        <4>3. Walk'
          BY <2>1, <3>1, <4>1 DEF Walk, listVars, coroVars, flagVars
        <4> QED BY <4>2, <4>3
      <3>2. CASE ~(open /\ "in" \in evt /\ m_awaiter["in"] # NULL)
        <4> DEFINE events == IF open THEN evt ELSE {}
        <4>1. GoSend(events, m_awaiter["out"])
          BY <1>3, <3>2 DEF on_callback
        <4>2. events \in SUBSET Directions /\ m_awaiter["out"] \in Pointers
          BY <1>0 DEF LocalTypes, ListTypes, Directions
        <4> HIDE DEF events
        <4>3. Walk' /\ dir' \in Directions /\ awaiter' \in Pointers
              /\ send_awaiter' \in Pointers /\ evt' \in SUBSET Directions
          BY <1>0, <2>1, <4>1, <4>2, GoSendKeeps DEF flagVars
        <4> QED BY <1>0, <2>1, <4>3 DEF LocalTypes
      <3> QED BY <3>1, <3>2
    <2> QED BY <2>2, <2>3, <2>4
  <1>4. CASE Serve
    <2>1. at = "serve" /\ running = NULL /\ UNCHANGED <<flagVars, lifeVars>>
      BY <1>4 DEF Serve
    <2>2. dir \in Directions /\ awaiter # NULL /\ awaiter = m_awaiter[dir]
      BY <1>0, <2>1 DEF Walk, LocalTypes
    <2>3. KernelTypes'
      BY <1>0, <1>4, <2>2, TransferKeeps DEF Serve
    <2>4. CASE /\ m_ready' = [m_ready EXCEPT ![dir] = FALSE]
               /\ EndPhase
               /\ UNCHANGED <<listVars, nbytes, coroVars>>
      <3> DEFINE events == IF dir = "in" THEN evt ELSE {}
      <3>1. GoSend(events, send_awaiter)
        BY <2>4 DEF EndPhase
      <3>2. /\ events \in SUBSET Directions /\ send_awaiter \in Pointers
            /\ "out" \in events /\ send_awaiter # NULL => send_awaiter = m_awaiter["out"]
        BY <1>0, <2>1 DEF LocalTypes, Walk, Directions
      <3> HIDE DEF events
      <3>3. Walk' /\ dir' \in Directions /\ awaiter' \in Pointers
            /\ send_awaiter' \in Pointers /\ evt' \in SUBSET Directions
        BY <1>0, <2>1, <2>4, <3>1, <3>2, GoSendKeeps DEF flagVars
      <3>4. FlagTypes'
        BY <1>0, <2>1, <2>4, Zenon DEF FlagTypes, flagVars
      <3>5. ListTypes' /\ Lists'
        BY <1>0, <2>4 DEF ListTypes, Lists, listVars, coroVars
      <3> QED BY <1>0, <2>3, <2>4, <3>3, <3>4, <3>5 DEF LocalTypes
    <2>5. CASE \E n \in Transferred :
                  /\ Transfer(dir, n) /\ nbytes' = n
                  /\ ResumeAwaiter(dir, awaiter) /\ at' = "served"
                  /\ UNCHANGED <<evt, m_ready, dir, awaiter, send_awaiter>>
      <3>1. /\ nbytes' \in Transferred /\ at' = "served"
            /\ UNCHANGED <<evt, m_ready, dir, awaiter, send_awaiter>>
            /\ ResumeAwaiter(dir, m_awaiter[dir])
        BY <2>2, <2>5
      <3>2. /\ m_awaiter' = [m_awaiter EXCEPT ![dir] = NULL] /\ m_next' = m_next
            /\ m_awaiter' \in [Directions -> Pointers]
            /\ running' \in Coros
            /\ state' \in [Coros -> States]
            /\ Lists'
        BY <1>0, <2>2, <3>1, ResumeKeeps
      <3>3. LocalTypes' /\ FlagTypes' /\ ListTypes'
        BY <1>0, <2>1, <3>1, <3>2
        DEF LocalTypes, FlagTypes, ListTypes, Transferred, flagVars, Pointers
      <3>4. Walk'
        <4>1. awaiter' \in Coros /\ (open' \/ posted')
          BY <1>0, <2>1, <2>2, <3>1 DEF LocalTypes, Pointers, Life, flagVars
        <4>2. dir' = "in" /\ send_awaiter' # NULL => send_awaiter' = m_awaiter'["out"]
          BY <1>0, <2>1, <3>1, <3>2 DEF Walk, ListTypes, Directions
        <4> QED BY <3>1, <4>1, <4>2 DEF Walk
      <3> QED BY <2>3, <3>2, <3>3, <3>4
    <2> QED BY <1>4, <2>4, <2>5 DEF Serve
  <1>5. CASE Served
    <2>1. /\ at = "served" /\ running = NULL
          /\ UNCHANGED <<kernelVars, flagVars, listVars, lifeVars, nbytes, coroVars>>
      BY <1>5 DEF Served
    <2>2. awaiter \in Coros /\ dir \in Directions
      BY <1>0, <2>1 DEF Walk, LocalTypes
    <2>3. m_next[dir][awaiter] = NULL
      BY <1>0, <2>2 DEF Lists
    <2>4. FlagTypes'
      <3>1. m_ready' \in [Directions -> BOOLEAN]
        BY <1>0, <1>5, Zenon DEF Served, FlagTypes
      <3> QED BY <1>0, <2>1, <3>1 DEF FlagTypes, flagVars
    <2>5. KernelTypes' /\ ListTypes' /\ Lists'
      BY <1>0, <2>1 DEF KernelTypes, kernelVars, listVars, coroVars, ListTypes, Lists
    <2> DEFINE events == IF dir = "in" THEN evt ELSE {}
    <2>6. GoSend(events, send_awaiter)
      BY <1>5, <2>3 DEF Served, EndPhase
    <2>7. /\ events \in SUBSET Directions /\ send_awaiter \in Pointers
          /\ "out" \in events /\ send_awaiter # NULL => send_awaiter = m_awaiter["out"]
      BY <1>0, <2>1 DEF LocalTypes, Walk, Directions
    <2> HIDE DEF events
    <2>8. Walk' /\ dir' \in Directions /\ awaiter' \in Pointers
          /\ send_awaiter' \in Pointers /\ evt' \in SUBSET Directions
      BY <1>0, <2>1, <2>6, <2>7, GoSendKeeps DEF flagVars
    <2> QED BY <1>0, <2>1, <2>4, <2>5, <2>8 DEF LocalTypes
  <1>6. CASE StartWakeup
    <2>1. /\ at = "loop" /\ running = NULL /\ posted /\ posted' = FALSE
          /\ at' = "close" /\ dir' = "in" /\ awaiter' = m_awaiter["in"]
          /\ UNCHANGED <<kernelVars, evt, open, m_shutdown, m_ready, listVars, lifeVars,
                         send_awaiter, nbytes, coroVars>>
      BY <1>6 DEF StartWakeup, To
    <2>2. KernelTypes' /\ FlagTypes' /\ ListTypes' /\ Lists'
      BY <1>0, <2>1 DEF KernelTypes, kernelVars, listVars, coroVars, FlagTypes, ListTypes, Lists
    <2>3. LocalTypes'
      BY <1>0, <2>1 DEF LocalTypes, ListTypes, Directions
    <2>4. Walk'
      BY <2>1 DEF Walk, listVars
    <2> QED BY <2>2, <2>3, <2>4
  <1>7. CASE Wakeup
    <2>1. /\ at = "close" /\ running = NULL /\ awaiter # NULL
          /\ ResumeAwaiter(dir, awaiter) /\ awaiter' = m_next[dir][awaiter]
          /\ UNCHANGED <<kernelVars, evt, flagVars, m_ready, lifeVars, at, dir, send_awaiter,
                         nbytes>>
      BY <1>7 DEF Wakeup
    <2>2. dir \in Directions /\ awaiter = m_awaiter[dir] /\ awaiter \in Coros
      BY <1>0, <2>1 DEF Walk, LocalTypes, Pointers
    <2>3. /\ m_awaiter' = [m_awaiter EXCEPT ![dir] = NULL] /\ m_next' = m_next
          /\ m_awaiter' \in [Directions -> Pointers]
          /\ running' \in Coros
          /\ state' \in [Coros -> States]
          /\ Lists'
      BY <1>0, <2>1, <2>2, ResumeKeeps
    <2>4. awaiter' = NULL
      BY <1>0, <2>1, <2>2 DEF Lists
    <2>5. KernelTypes' /\ LocalTypes' /\ FlagTypes' /\ ListTypes'
      BY <1>0, <2>1, <2>3, <2>4
      DEF kernelVars, flagVars, KernelTypes, LocalTypes, FlagTypes, ListTypes, Pointers
    <2>6. Walk'
      BY <1>0, <2>1, <2>2, <2>3, <2>4 DEF Walk, ListTypes, Directions
    <2> QED BY <2>3, <2>5, <2>6
  <1>8. CASE WakeupSenders
    <2>1. /\ at = "close" /\ running = NULL /\ awaiter = NULL /\ dir = "in"
          /\ at' = "close" /\ dir' = "out" /\ awaiter' = m_awaiter["out"]
          /\ UNCHANGED <<kernelVars, evt, flagVars, m_ready, listVars, lifeVars,
                         send_awaiter, nbytes, coroVars>>
      BY <1>8 DEF WakeupSenders, To
    <2>2. KernelTypes' /\ FlagTypes' /\ ListTypes' /\ Lists'
      BY <1>0, <2>1
      DEF KernelTypes, kernelVars, flagVars, listVars, coroVars, FlagTypes, ListTypes, Lists
    <2>3. LocalTypes'
      BY <1>0, <2>1 DEF LocalTypes, ListTypes, Directions
    <2>4. Walk'
      BY <1>0, <2>1 DEF Walk, listVars
    <2> QED BY <2>2, <2>3, <2>4
  <1>9. CASE FinishWakeup
    <2>1. /\ at = "close" /\ running = NULL /\ awaiter = NULL /\ dir = "out"
          /\ at' = "loop" /\ dir' = "in" /\ awaiter' = NULL
          /\ UNCHANGED <<kernelVars, evt, flagVars, m_ready, listVars, send_awaiter, nbytes,
                         coroVars>>
      BY <1>9 DEF FinishWakeup, To
    <2>2. KernelTypes' /\ FlagTypes' /\ ListTypes' /\ Lists'
      BY <1>0, <2>1
      DEF KernelTypes, kernelVars, flagVars, listVars, coroVars, FlagTypes, ListTypes, Lists
    <2>3. LocalTypes'
      BY <1>0, <2>1 DEF LocalTypes, Directions, Pointers
    <2>4. Walk'
      BY <1>0, <2>1 DEF Walk, listVars, Directions
    <2> QED BY <2>2, <2>3, <2>4
  <1>10. ASSUME NEW c \in Coros, Resume(c) PROVE Goal
    <2>1. /\ at \in {"loop", "batch"} /\ running = NULL /\ state[c] = "away"
          /\ state' = [state EXCEPT ![c] = "user"] /\ running' = c
          /\ UNCHANGED <<kernelVars, evt, flagVars, m_ready, listVars, lifeVars, localVars>>
      BY <1>10 DEF Resume
    <2>2. KernelTypes' /\ LocalTypes' /\ FlagTypes' /\ ListTypes'
      BY <1>0, <2>1 DEF KernelTypes, kernelVars, flagVars, listVars, localVars, LocalTypes,
                       FlagTypes, ListTypes, States, Pointers
    <2>3. Lists'
      BY <1>0, <2>1 DEF Lists, ListTypes, listVars, Directions
    <2>4. Walk'
      BY <1>0, <2>1 DEF Walk, listVars, localVars, flagVars
    <2> QED BY <2>2, <2>3, <2>4
  <1>11. ASSUME NEW c \in Coros, SuspendElsewhere(c) PROVE Goal
    <2>1. /\ running = c /\ state' = [state EXCEPT ![c] = "away"] /\ running' = NULL
          /\ UNCHANGED <<kernelVars, evt, flagVars, m_ready, listVars, lifeVars, localVars>>
      BY <1>11 DEF SuspendElsewhere, Suspend
    <2>2. c # NULL /\ state[c] = "user"
      BY <1>0, <2>1, ConnectionAssumption DEF Lists
    <2>3. KernelTypes' /\ LocalTypes' /\ FlagTypes' /\ ListTypes'
      BY <1>0, <2>1 DEF KernelTypes, kernelVars, flagVars, listVars, localVars, LocalTypes,
                       FlagTypes, ListTypes, States, Pointers
    <2>4. Lists'
      BY <1>0, <2>1, <2>2 DEF Lists, ListTypes, listVars, Directions
    <2>5. Walk'
      BY <1>0, <2>1 DEF Walk, listVars, localVars, flagVars
    <2> QED BY <2>3, <2>4, <2>5
  <1>12. ASSUME NEW c \in Coros, NEW d \in Directions, Await(d, c) PROVE Goal
    <2>1. /\ running = c /\ c \in Users[d] /\ open /\ c # NULL
          /\ UNCHANGED <<evt, flagVars, lifeVars, localVars>>
      BY <1>12, ConnectionAssumption DEF Await
    <2>2. m_awaiter[d] = NULL /\ state[c] = "user"
      BY <1>0, <2>1, RunningUnlisted DEF Lists
    <2>3. LocalTypes' /\ at # "close" /\ at' # "close" /\ at # "serve" /\ at' # "serve"
      BY <1>0, <2>1 DEF LocalTypes, localVars, Life, Walk
    <2>4. CASE TryNow(d, c)
      <3>1. /\ m_next' = [m_next EXCEPT ![d][c] = NULL]
            /\ UNCHANGED <<m_ready, m_awaiter, coroVars>>
        BY <2>4 DEF TryNow
      <3>2. KernelTypes'
        BY <1>0, <2>4, TransferKeeps DEF TryNow
      <3>3. FlagTypes' /\ ListTypes'
        BY <1>0, <2>1, <3>1 DEF FlagTypes, ListTypes, flagVars, coroVars, Pointers
      <3>4. Lists'
        BY <1>0, <3>1 DEF Lists, ListTypes, coroVars
      <3>5. Walk'
        BY <1>0, <2>1, <2>3, <3>1 DEF Walk, localVars, flagVars
      <3> QED BY <2>3, <3>2, <3>3, <3>4, <3>5
    <2>5. CASE Enlist(d, c)
      <3>1. /\ m_ready' = [m_ready EXCEPT ![d] = FALSE]
            /\ m_next' = [m_next EXCEPT ![d][c] = NULL]
            /\ m_awaiter' = [m_awaiter EXCEPT ![d] = c]
            /\ state' = [state EXCEPT ![c] = d] /\ running' = NULL
        BY <2>2, <2>5 DEF Enlist, Suspend
      <3>2. KernelTypes'
        <4>1. CASE m_ready[d]
          BY <1>0, <2>5, <4>1, TransferKeeps DEF Enlist
        <4>2. CASE ~m_ready[d]
          BY <1>0, <2>5, <4>2 DEF Enlist, kernelVars, KernelTypes
        <4> QED BY <4>1, <4>2
      <3>3. FlagTypes'
        BY <1>0, <2>1, <3>1, Zenon DEF FlagTypes, flagVars
      <3>4. ListTypes'
        BY <1>0, <3>1 DEF ListTypes, Pointers, States
      <3>5. Lists'
        <4> SUFFICES ASSUME NEW e \in Directions, NEW b \in Coros
                     PROVE  /\ m_next'[e][b] = NULL
                            /\ state'[b] = e <=> m_awaiter'[e] = b
                            /\ state'[b] = e => b \in Users[e]
          BY <3>1 DEF Lists
        <4>1. m_next'[e][b] = NULL
          BY <1>0, <3>1 DEF Lists, ListTypes
        <4>2. CASE b = c
          <5>1. state'[b] = d BY <1>0, <3>1, <4>2 DEF ListTypes
          <5>2. CASE e = d
            BY <1>0, <2>1, <3>1, <4>1, <4>2, <5>1, <5>2 DEF ListTypes
          <5>3. CASE e # d
            <6>1. m_awaiter'[e] = m_awaiter[e] /\ state[c] # e
              BY <1>0, <2>2, <3>1, <5>3 DEF ListTypes, Directions
            <6> QED BY <1>0, <4>1, <4>2, <5>1, <5>3, <6>1 DEF Lists
          <5> QED BY <5>2, <5>3
        <4>3. CASE b # c
          <5>1. state'[b] = state[b] BY <1>0, <3>1, <4>3 DEF ListTypes
          <5>2. m_awaiter'[e] = b <=> m_awaiter[e] = b
            BY <1>0, <2>2, <3>1, <4>3, ConnectionAssumption DEF ListTypes
          <5> QED BY <1>0, <4>1, <5>1, <5>2 DEF Lists
        <4> QED BY <4>2, <4>3
      <3>6. Walk'
        <4>1. m_awaiter["out"] # NULL => m_awaiter'["out"] = m_awaiter["out"]
          BY <1>0, <2>2, <3>1 DEF ListTypes
        <4> QED BY <1>0, <2>1, <2>3, <4>1, ConnectionAssumption
            DEF Walk, localVars, flagVars, ListTypes
      <3> QED BY <2>3, <3>2, <3>3, <3>4, <3>5, <3>6
    <2> QED BY <1>12, <2>4, <2>5 DEF Await
  <1>13. ASSUME NEW ds, Shutdown(ds) PROVE Goal
    <2>1. /\ m_shutdown' = [d \in Directions |-> m_shutdown[d] \/ d \in ds] /\ edge' = TRUE
          /\ UNCHANGED <<data, space, nospace, peer, evt, open, posted, m_ready, listVars,
                         lifeVars, localVars, coroVars>>
      BY <1>13 DEF Shutdown
    <2>2. m_shutdown' \in [Directions -> BOOLEAN]
      BY <2>1, Zenon
    <2> QED BY <1>0, <2>1, <2>2 DEF listVars, lifeVars, localVars, coroVars, KernelTypes,
            LocalTypes, FlagTypes, ListTypes, Lists, Walk
  <1>14. ASSUME Closed, open, UNCHANGED <<evt, m_ready, listVars, localVars, coroVars>>
         PROVE Goal
    <2>1. /\ open' = FALSE /\ edge' = FALSE /\ posted' = TRUE
          /\ m_shutdown' = [d \in Directions |-> TRUE]
          /\ UNCHANGED <<data, space, nospace, peer>>
      BY <1>14 DEF Closed
    <2>2. KernelTypes'
      BY <1>0, <2>1, Zenon DEF KernelTypes
    <2>3. FlagTypes'
      BY <1>0, <1>14, <2>1, Zenon DEF FlagTypes
    <2>4. LocalTypes' /\ ListTypes' /\ Lists' /\ Walk'
      <3>1. at # "close" /\ at' # "close"
        BY <1>0, <1>14 DEF Life, localVars
      <3> QED BY <1>0, <1>14, <2>1, <3>1
          DEF listVars, localVars, coroVars, LocalTypes, ListTypes, Lists, Walk
    <2> QED BY <2>2, <2>3, <2>4
  <1>15. CASE close
    BY <1>14, <1>15 DEF close
  <1>16. CASE Destroy
    <2>1. CASE open
      BY <1>14, <1>16, <2>1 DEF Destroy
    <2>2. CASE ~open
      <3>1. UNCHANGED <<kernelVars, flagVars, evt, m_ready, listVars, localVars, coroVars>>
        BY <1>16, <2>2 DEF Destroy
      <3> QED BY <1>0, <3>1 DEF kernelVars, flagVars, listVars, localVars, coroVars,
              KernelTypes, LocalTypes, FlagTypes, ListTypes, Lists, Walk
    <2> QED BY <2>1, <2>2
  <1>17. CASE UNCHANGED vars
    BY <1>0, <1>17 DEF vars, kernelVars, flagVars, listVars, localVars, coroVars,
       KernelTypes, LocalTypes, FlagTypes, ListTypes, Lists, Walk
  <1> QED BY <1>1, <1>2, <1>3, <1>4, <1>5, <1>6, <1>7, <1>8, <1>9, <1>10, <1>11, <1>12,
             <1>13, <1>15, <1>16, <1>17 DEF Next, Library

LEMMA Invariant == OneOfAKind => (Spec => []IInv)
  <1>1. OneOfAKind /\ IInv /\ [Next]_vars => IInv'
    BY NextIInv
  <1>2. OneOfAKind => []OneOfAKind
    OBVIOUS
  <1> QED BY <1>1, <1>2, InitIInv, PTL DEF Spec

\* The variables keep their types: what on_callback follows, for one, is never null.
THEOREM ConnectionTypes == OneOfAKind => (Spec => []TypeOK)
  <1>1. IInv => TypeOK
    BY DEF IInv
  <1> QED BY <1>1, Invariant, PTL

\* The list of each direction holds exactly who is suspended in it, so await_resume pops
\* who is resumed, and ~ConnImpl finds both lists empty.
THEOREM ListsAreExact == OneOfAKind => (Spec => []AwaitersListed)
  <1>1. IInv => AwaitersListed
    <2> SUFFICES ASSUME IInv, NEW d \in Directions
                 PROVE  /\ Listed(d) = {c \in Coros : state[c] = d}
                        /\ deleted => Listed(d) = {}
      BY DEF AwaitersListed
    <2>0. TypeOK /\ Life /\ Lists /\ Walk
      BY DEF IInv
    <2> DEFINE first == {c \in Coros : m_awaiter[d] = c}
               Follows(S) == /\ m_awaiter[d] \in S \cup {NULL}
                             /\ \A c \in S : m_next[d][c] \in S \cup {NULL}
    <2>1. first \in SUBSET Coros /\ Follows(first)
      <3>1. m_awaiter[d] \in Coros \cup {NULL} BY <2>0 DEF TypeOK, Pointers
      <3>2. \A c \in first : m_next[d][c] = NULL BY <2>0 DEF Lists
      <3> QED BY <3>1, <3>2
    <2>2. ASSUME NEW S \in SUBSET Coros, Follows(S), NEW c \in first PROVE c \in S
      BY <2>2, ConnectionAssumption
    <2>3. Listed(d) = first
      BY <2>1, <2>2 DEF Listed
    <2>4. first = {c \in Coros : state[c] = d}
      BY <2>0 DEF Lists
    <2>5. deleted => first = {}
      <3> SUFFICES ASSUME deleted PROVE first = {}
        OBVIOUS
      <3>1. ~open /\ ~posted /\ at # "close"
        BY <2>0 DEF Life, References
      <3>2. m_awaiter[d] = NULL
        BY <2>0, <3>1 DEF Walk
      <3> QED BY <3>2, ConnectionAssumption
    <2> HIDE DEF first
    <2> QED BY <2>3, <2>4, <2>5
  <1> QED BY <1>1, Invariant, PTL

\* on_callback and the task of close go on with awaiters that are suspended, though what
\* they have read is older than what the coroutines they resumed have done since.
THEOREM SuspendedIsServed == OneOfAKind => (Spec => []ServesSuspended)
  <1>1. IInv => ServesSuspended
    <2> SUFFICES ASSUME IInv, at \in {"serve", "close"}, awaiter # NULL
                 PROVE  state[awaiter] = dir
      BY DEF ServesSuspended
    <2>1. dir \in Directions /\ awaiter \in Coros /\ awaiter = m_awaiter[dir]
      BY DEF IInv, TypeOK, Walk, Pointers
    <2> QED BY <2>1 DEF IInv, Lists
  <1> QED BY <1>1, Invariant, PTL
=============================================================================

--------------------------- MODULE NetworkProofs ---------------------------
(* Theorems about Network for any coroutines, acceptors, clients and       *)
(* backlog, and about DnsResolver for any requests, workers and callers.   *)
EXTENDS Network, DnsResolver, QueueProofs, TLAPS

\* Who is in a list: the suspended that are not lost, and the destroyed awaiters.
Linked == (waiting \ lost) \cup stale

\* The list of acceptor a is the sequence q, of those of its own awaiters.
Listed(a, q) ==
    /\ Represents(m_awaiter_que[a], m_next, q)
    /\ \A i \in 1..Len(q) : q[i] \in Linked /\ acceptor[q[i]] = a
    /\ \A s \in Linked : acceptor[s] = a => \E i \in 1..Len(q) : q[i] = s

ListsSound == \E Q \in [Acceptors -> Seq(Nodes)] : \A a \in Acceptors : Listed(a, Q[a])

\* The last to get an answer of accept has come back to an acceptor whose thread has
\* heard nothing since, unless there is a connection.
LatestSafe ==
    /\ latest = NULL => lost = {} /\ (reported # {} => backlog # << >>)
    /\ latest # NULL => /\ latest \in Servers \ lost
                        /\ backlog = << >> => acceptor[latest] \notin reported

AcceptorTypes ==
    /\ backlog \in Seq(Clients)
    /\ m_awaiter_que \in [Acceptors -> Lists]
    /\ m_next \in Links
    /\ waiting \subseteq Servers /\ lost \subseteq waiting

\* A destroyed awaiter is of an acceptor that the epoll does not have, so that nobody waits
\* there and no callback comes.
StaleSound ==
    /\ stale \subseteq Servers \ waiting
    /\ ready \subseteq m_added_to_event_pool /\ reported \subseteq m_added_to_event_pool
    /\ \A s \in waiting : acceptor[s] \in m_added_to_event_pool
    /\ \A s \in stale : acceptor[s] \notin m_added_to_event_pool
    /\ \A s, t \in stale : acceptor[s] = acceptor[t] => s = t

IInv == AcceptorTypes /\ ListsSound /\ LatestSafe /\ StaleSound

-----------------------------------------------------------------------------
\* A coroutine that accepts joins the list of its acceptor.
LEMMA SuspendKeeps ==
    ASSUME IInv, NEW s \in Servers, await_suspend(s)
    PROVE  IInv'
  <1> USE ServersAssumption, NodesAssumption DEF IInv, AcceptorTypes
  <1> DEFINE a == acceptor[s]
  <1>1. PICK Q \in [Acceptors -> Seq(Nodes)] : \A b \in Acceptors : Listed(b, Q[b])
    BY DEF ListsSound
  <1> DEFINE R == [Q EXCEPT ![a] = Append(Q[a], s)]
  <1>2. /\ a \in Acceptors /\ s \in Nodes /\ s \notin waiting
        /\ m_awaiter_que' = [m_awaiter_que EXCEPT ![a] = PushList(m_awaiter_que[a], s)]
        /\ m_next' = PushLinks(m_awaiter_que[a], m_next, s)
        /\ UNCHANGED <<backlog, reported, lost, latest>>
        /\ Suspended(s) \/ Thrown(s)
    BY DEF await_suspend
  <1>0. StaleSound' /\ s \notin Linked /\ Linked' = Linked \cup {s} /\ waiting \subseteq waiting'
        /\ waiting' \subseteq waiting \cup {s}
    <2>1. s \notin Linked /\ \A t \in stale : acceptor[t] # a
      BY <1>2 DEF await_suspend, Spoiled, Linked
    <2>2. CASE Suspended(s)
      <3>1. /\ waiting' = waiting \cup {s} /\ stale' = stale
            /\ m_added_to_event_pool' = m_added_to_event_pool \cup {a}
            /\ ready' \subseteq ready \cup {a}
        BY <2>2 DEF Suspended
      <3> QED BY <1>2, <2>1, <3>1 DEF Linked, StaleSound
    <2>3. CASE Thrown(s)
      <3>1. /\ a \notin m_added_to_event_pool /\ stale' = stale \cup {s}
            /\ UNCHANGED <<waiting, m_added_to_event_pool, ready>>
        BY <2>3 DEF Thrown
      <3> QED BY <1>2, <2>1, <3>1 DEF Linked, StaleSound
    <2> QED BY <1>2, <2>2, <2>3
  <1> HIDE DEF a
  <1>3. \A b \in Acceptors : \A i \in 1..Len(Q[b]) :
            Q[b][i] \in Linked /\ Q[b][i] # s /\ acceptor[Q[b][i]] = b
    BY <1>0, <1>1, <1>2 DEF Listed
  <1>4. /\ PushList(m_awaiter_que[a], s) \in Lists
        /\ m_next' \in Links
        /\ Represents(PushList(m_awaiter_que[a], s), m_next', Append(Q[a], s))
    <2>1. m_awaiter_que[a] \in Lists /\ Represents(m_awaiter_que[a], m_next, Q[a])
      BY <1>0, <1>1, <1>2 DEF Listed
    <2> QED BY <1>0, <1>2, <1>3, <2>1, PushRepresents
  <1>5. ASSUME NEW b \in Acceptors PROVE Listed(b, R[b])'
    <2>1. CASE b # a
      <3>1. Represents(m_awaiter_que[b], m_next', Q[b])
        <4>1. /\ m_awaiter_que[a] \in Lists /\ Represents(m_awaiter_que[a], m_next, Q[a])
              /\ Represents(m_awaiter_que[b], m_next, Q[b])
          BY <1>0, <1>1, <1>2 DEF Listed
        <4>2. \A i \in 1..Len(Q[b]) : Q[b][i] # s /\ \A j \in 1..Len(Q[a]) : Q[b][i] # Q[a][j]
          BY <1>0, <1>2, <1>3, <2>1
        <4> QED BY <1>0, <1>2, <4>1, <4>2, PushApart
      <3>2. m_awaiter_que'[b] = m_awaiter_que[b] /\ R[b] = Q[b] BY <1>0, <1>2, <2>1
      <3>3. \A e \in Linked' : acceptor[e] = b => \E i \in 1..Len(Q[b]) : Q[b][i] = e
        <4>1. acceptor[s] # b BY <2>1 DEF a
        <4> QED BY <1>0, <1>1, <1>2, <4>1 DEF Listed
      <3> QED BY <1>0, <1>2, <1>3, <3>1, <3>2, <3>3 DEF Listed
    <2>2. CASE b = a
      <3>1. m_awaiter_que'[b] = PushList(m_awaiter_que[a], s) /\ R[b] = Append(Q[a], s)
        BY <1>0, <1>2, <2>2
      <3>2. \A i \in 1..Len(Append(Q[a], s)) : Append(Q[a], s)[i] = s \/
                \E j \in 1..Len(Q[a]) : Append(Q[a], s)[i] = Q[a][j]
        BY <1>0, <1>2
      <3>3. a = acceptor[s] BY DEF a
      <3>4. \A i \in 1..Len(Append(Q[a], s)) :
               Append(Q[a], s)[i] \in Linked' /\ acceptor[Append(Q[a], s)[i]] = b
        BY <1>0, <1>2, <1>3, <2>2, <3>2, <3>3
      <3>5. Represents(m_awaiter_que'[b], m_next', R[b])
        BY <1>4, <3>1
      <3>6. ASSUME NEW e \in Linked', acceptor[e] = b
            PROVE  \E i \in 1..Len(R[b]) : R[b][i] = e
        <4>1. Q[a] \in Seq(Nodes) /\ Len(Q[a]) + 1 \in 1..Len(Append(Q[a], s)) BY <1>0, <1>2
        <4>2. CASE e = s
          BY <3>1, <4>1, <4>2
        <4>3. CASE e # s
          <5>1. PICK i \in 1..Len(Q[a]) : Q[a][i] = e BY <1>0, <1>1, <1>2, <2>2, <3>6, <4>3 DEF Listed
          <5>2. i \in 1..Len(Append(Q[a], s)) /\ Append(Q[a], s)[i] = e BY <4>1, <5>1
          <5> QED BY <3>1, <5>2
        <4> QED BY <4>2, <4>3
      <3> QED BY <3>1, <3>4, <3>5, <3>6 DEF Listed
    <2> QED BY <2>1, <2>2
  <1>6. R \in [Acceptors -> Seq(Nodes)]
    BY <1>0, <1>2
  <1>7. ListsSound'
    BY <1>5, <1>6 DEF ListsSound
  <1>8. AcceptorTypes' /\ LatestSafe' /\ StaleSound'
    BY <1>0, <1>2, <1>4 DEF LatestSafe
  <1> QED BY <1>7, <1>8

\* accept finds nothing.  Whoever got the last answer is not in this list.
LEMMA ForgetKeeps ==
    ASSUME IInv, NEW a \in Acceptors, a \in reported, reported' = reported \ {a},
           m_awaiter_que[a].head # NULL, Forget(a, m_awaiter_que[a].head), UNCHANGED <<m_next, m_added_to_event_pool, ready, stale>>
    PROVE  IInv'
  <1> USE ServersAssumption, NodesAssumption DEF IInv, AcceptorTypes
  <1>1. PICK Q \in [Acceptors -> Seq(Nodes)] : \A b \in Acceptors : Listed(b, Q[b])
    BY DEF ListsSound
  <1> DEFINE s == m_awaiter_que[a].head
             R == [Q EXCEPT ![a] = Tail(Q[a])]
  <1>2. /\ m_awaiter_que' = [m_awaiter_que EXCEPT ![a] = PopList(m_awaiter_que[a], m_next)]
        /\ lost' = lost \cup {s} /\ backlog = << >>
        /\ UNCHANGED <<backlog, waiting, latest, stale>>
    BY DEF Forget, Popped
  <1>3. /\ Len(Q[a]) \in Nat /\ Len(Q[a]) # 0 /\ s = Q[a][1] /\ 1 \in 1..Len(Q[a])
        /\ s \in Linked /\ acceptor[s] = a
    BY <1>1 DEF Listed, Represents, Path
  <1>0. s \in waiting \ lost /\ s \notin stale /\ Linked' = Linked \ {s} /\ StaleSound'
    <2>1. s \notin stale BY <1>3 DEF StaleSound
    <2> QED BY <1>2, <1>3, <2>1 DEF Linked, StaleSound
  <1> HIDE DEF s
  <1>4. PopList(m_awaiter_que[a], m_next) \in Lists
        /\ Represents(PopList(m_awaiter_que[a], m_next), m_next, Tail(Q[a]))
    <2>1. m_awaiter_que[a] \in Lists /\ Represents(m_awaiter_que[a], m_next, Q[a])
      BY <1>1 DEF Listed
    <2> QED BY <1>3, <2>1, PopRepresents
  <1>5. \A i \in 1..Len(Tail(Q[a])) : i + 1 \in 1..Len(Q[a]) /\ Tail(Q[a])[i] = Q[a][i + 1]
    BY <1>3
  <1>6. \A i \in 1..Len(Tail(Q[a])) : Tail(Q[a])[i] # s
    BY <1>1, <1>3, <1>5 DEF Listed, Represents, Path
  <1>7. ASSUME NEW b \in Acceptors PROVE Listed(b, R[b])'
    <2>1. CASE b # a
      <3>1. m_awaiter_que'[b] = m_awaiter_que[b] /\ R[b] = Q[b] BY <1>0, <1>2, <2>1
      <3>2. \A i \in 1..Len(Q[b]) : Q[b][i] # s BY <1>1, <1>3, <2>1 DEF Listed
      <3>3. \A e \in Linked' : acceptor[e] = b => \E i \in 1..Len(Q[b]) : Q[b][i] = e
        <4>1. Linked' \subseteq Linked BY <1>0, <1>2
        <4> QED BY <1>1, <4>1 DEF Listed
      <3>4. Represents(m_awaiter_que[b], m_next, Q[b]) BY <1>1 DEF Listed
      <3>5. \A i \in 1..Len(Q[b]) : Q[b][i] \in Linked' /\ acceptor[Q[b][i]] = b
        BY <1>0, <1>1, <1>2, <3>2 DEF Listed
      <3> QED BY <3>1, <3>3, <3>4, <3>5 DEF Listed
    <2>2. CASE b = a
      <3>1. m_awaiter_que'[b] = PopList(m_awaiter_que[a], m_next) /\ R[b] = Tail(Q[a])
        BY <1>0, <1>2, <2>2
      <3>2. ASSUME NEW e \in Linked', acceptor[e] = b
            PROVE  \E i \in 1..Len(Tail(Q[a])) : Tail(Q[a])[i] = e
        <4>1. PICK i \in 1..Len(Q[a]) : Q[a][i] = e BY <1>0, <1>1, <1>2, <2>2, <3>2 DEF Listed
        <4>2. i # 1 BY <1>0, <1>2, <1>3, <3>2, <4>1
        <4>3. Len(Tail(Q[a])) = Len(Q[a]) - 1 /\ i - 1 \in 1..Len(Tail(Q[a]))
          BY <1>3, <4>2
        <4>4. Tail(Q[a])[i - 1] = Q[a][(i - 1) + 1] BY <1>5, <4>3
        <4>5. (i - 1) + 1 = i BY <1>3
        <4> QED BY <4>1, <4>3, <4>4, <4>5, Zenon
      <3>3. \A i \in 1..Len(Tail(Q[a])) :
                Tail(Q[a])[i] \in Linked' /\ acceptor[Tail(Q[a])[i]] = b
        BY <1>0, <1>1, <1>2, <1>5, <1>6, <2>2 DEF Listed
      <3> QED BY <1>4, <2>2, <3>1, <3>2, <3>3 DEF Listed
    <2> QED BY <2>1, <2>2
  <1>8. R \in [Acceptors -> Seq(Nodes)]
    BY <1>4 DEF Represents, Path
  <1>9. ListsSound'
    BY <1>7, <1>8 DEF ListsSound
  <1>10. AcceptorTypes'
    BY <1>0, <1>2, <1>3, <1>4
  <1>11. LatestSafe'
    BY <1>0, <1>2, <1>3 DEF LatestSafe
  <1> QED BY <1>0, <1>9, <1>10, <1>11

\* on_callback takes the first awaiter from the list, and await_resume the next, who is
\* lost, but not the one that goes on.
LEMMA ResumeKeeps ==
    ASSUME IInv, NEW a \in Acceptors, a \in reported, reported' = reported \ {a},
           m_awaiter_que[a].head # NULL, Accept, await_resume(a, m_awaiter_que[a].head),
           UNCHANGED <<m_next, m_added_to_event_pool, ready, stale>>
    PROVE  IInv'
  <1> USE ServersAssumption, NodesAssumption DEF IInv, AcceptorTypes
  <1>1. PICK Q \in [Acceptors -> Seq(Nodes)] : \A b \in Acceptors : Listed(b, Q[b])
    BY DEF ListsSound
  <1> DEFINE s == m_awaiter_que[a].head
             q == Tail(Q[a])
             rest == PopList(m_awaiter_que[a], m_next)
             last == PopList(rest, m_next)
  <1>2. /\ m_awaiter_que' = [m_awaiter_que EXCEPT ![a] = last]
        /\ waiting' = waiting \ {s}
        /\ latest' = s
        /\ lost' = lost \cup ({rest.head} \ {NULL})
    BY DEF await_resume, Popped
  <1>3. /\ Len(Q[a]) \in Nat /\ Len(Q[a]) # 0 /\ s = Q[a][1] /\ 1 \in 1..Len(Q[a])
        /\ s \in Linked /\ acceptor[s] = a
    BY <1>1 DEF Listed, Represents, Path
  <1>0. \A e \in Linked : acceptor[e] = a => e \in waiting \ lost /\ e \notin stale
    BY DEF StaleSound, Linked
  <1>4. rest \in Lists /\ Represents(rest, m_next, q)
    <2>1. m_awaiter_que[a] \in Lists /\ Represents(m_awaiter_que[a], m_next, Q[a])
      BY <1>1 DEF Listed
    <2> QED BY <1>3, <2>1, PopRepresents
  <1>5. \A i \in 1..Len(q) : i + 1 \in 1..Len(Q[a]) /\ q[i] = Q[a][i + 1]
    BY <1>3
  <1>6. \A i \in 1..Len(q) : q[i] # s /\ q[i] \in Linked /\ acceptor[q[i]] = a
    BY <1>1, <1>3, <1>5 DEF Listed, Represents, Path
  <1> HIDE DEF s, q, rest
  <1>7. PICK p \in Seq(Nodes) :
            /\ last \in Lists /\ Represents(last, m_next, p)
            /\ \A i \in 1..Len(p) : p[i] # rest.head /\ \E j \in 1..Len(q) : p[i] = q[j]
            /\ \A j \in 1..Len(q) : q[j] # rest.head => \E i \in 1..Len(p) : p[i] = q[j]
    <2>1. CASE Len(q) = 0
      <3>1. last = rest BY <1>4, <2>1, PopRepresents
      <3>2. \A i \in 1..Len(q) : FALSE BY <2>1
      <3>3. q \in Seq(Nodes) BY <1>4 DEF Represents, Path
      <3> QED BY <1>4, <3>1, <3>2, <3>3
    <2>2. CASE Len(q) # 0
      <3>1. last \in Lists /\ Represents(last, m_next, Tail(q))
        BY <1>4, <2>2, PopRepresents
      <3>2. q \in Seq(Nodes) /\ rest.head = q[1] /\ 1 \in 1..Len(q)
            /\ \A i, j \in 1..Len(q) : q[i] = q[j] => i = j
        BY <1>4, <2>2 DEF Represents, Path
      <3>3. /\ Tail(q) \in Seq(Nodes)
            /\ \A i \in 1..Len(Tail(q)) : i + 1 \in 1..Len(q) /\ Tail(q)[i] = q[i + 1] /\ i + 1 # 1
        BY <2>2, <3>2
      <3>4. \A i \in 1..Len(Tail(q)) : Tail(q)[i] # rest.head /\ \E j \in 1..Len(q) : Tail(q)[i] = q[j]
        BY <3>2, <3>3
      <3>5. ASSUME NEW j \in 1..Len(q), q[j] # rest.head
            PROVE  \E i \in 1..Len(Tail(q)) : Tail(q)[i] = q[j]
        <4>1. j # 1 BY <3>2, <3>5
        <4>2. j - 1 \in 1..Len(Tail(q)) BY <2>2, <3>2, <4>1
        <4>3. Tail(q)[j - 1] = q[(j - 1) + 1] BY <3>3, <4>2
        <4> QED BY <4>2, <4>3
      <3> QED BY <3>1, <3>3, <3>4, <3>5
    <2> QED BY <2>1, <2>2
  <1> HIDE DEF last
  <1> DEFINE R == [Q EXCEPT ![a] = p]
  <1>8. rest.head # NULL => /\ rest.head \in waiting \ (lost \cup {s}) /\ acceptor[rest.head] = a
                            /\ rest.head \notin stale
    <2> SUFFICES ASSUME rest.head # NULL
                 PROVE  /\ rest.head \in waiting \ (lost \cup {s}) /\ acceptor[rest.head] = a
                        /\ rest.head \notin stale
      OBVIOUS
    <2>1. 1 \in 1..Len(q) /\ rest.head = q[1] BY <1>4 DEF Represents, Path
    <2> QED BY <1>0, <1>6, <2>1
  <1>15. Linked' = Linked \ {s, rest.head} /\ NULL \notin Linked /\ StaleSound'
    <2>1. s \in waiting \ lost /\ s \notin stale BY <1>0, <1>3
    <2>2. NULL \notin Linked BY DEF Linked, StaleSound
    <2>3. Linked' = Linked \ {s, rest.head} BY <1>2, <1>8, <2>1, <2>2 DEF Linked
    <2> QED BY <1>2, <2>2, <2>3 DEF StaleSound
  <1>9. ASSUME NEW b \in Acceptors PROVE Listed(b, R[b])'
    <2>1. CASE b # a
      <3>1. m_awaiter_que'[b] = m_awaiter_que[b] /\ R[b] = Q[b] BY <1>15, <1>2, <2>1
      <3>2. \A i \in 1..Len(Q[b]) : /\ Q[b][i] \in Linked /\ acceptor[Q[b][i]] = b
                                    /\ Q[b][i] # s /\ Q[b][i] # rest.head
        <4>1. \A i \in 1..Len(Q[b]) : Q[b][i] \in Linked /\ acceptor[Q[b][i]] = b
          BY <1>1 DEF Listed
        <4>2. acceptor[s] = a /\ (rest.head # NULL => acceptor[rest.head] = a) BY <1>3, <1>8
        <4> QED BY <2>1, <4>1, <4>2
      <3>3. \A i \in 1..Len(Q[b]) : Q[b][i] \in Linked' BY <1>15, <1>2, <3>2
      <3>4. \A e \in Linked' : acceptor[e] = b => \E i \in 1..Len(Q[b]) : Q[b][i] = e
        <4>1. Linked' \subseteq Linked BY <1>15, <1>2
        <4> QED BY <1>1, <4>1 DEF Listed
      <3>5. Represents(m_awaiter_que[b], m_next, Q[b]) BY <1>1 DEF Listed
      <3> QED BY <3>1, <3>2, <3>3, <3>4, <3>5 DEF Listed
    <2>2. CASE b = a
      <3>1. m_awaiter_que'[b] = last /\ R[b] = p BY <1>15, <1>2, <2>2
      <3>2. ASSUME NEW i \in 1..Len(p) PROVE p[i] \in Linked' /\ acceptor[p[i]] = b
        <4>1. PICK j \in 1..Len(q) : p[i] = q[j] BY <1>7
        <4>2. p[i] \in Linked /\ p[i] # s /\ acceptor[p[i]] = a BY <1>6, <4>1
        <4>3. p[i] # rest.head BY <1>7
        <4> QED BY <1>15, <1>2, <2>2, <4>2, <4>3
      <3>3. ASSUME NEW e \in Linked', acceptor[e] = b
            PROVE  \E i \in 1..Len(p) : p[i] = e
        <4>1. e \in Linked /\ e # s /\ e # rest.head BY <1>15, <3>3
        <4>2. PICK i \in 1..Len(Q[a]) : Q[a][i] = e
          <5>1. \A f \in Linked : acceptor[f] = a => \E i \in 1..Len(Q[a]) : Q[a][i] = f
            BY <1>1 DEF Listed
          <5> QED BY <2>2, <3>3, <4>1, <5>1
        <4>3. i # 1 BY <1>3, <4>1, <4>2
        <4>4. Len(q) = Len(Q[a]) - 1 /\ i - 1 \in 1..Len(q)
          BY <1>3, <4>3 DEF q
        <4>5. q[i - 1] = e BY <1>5, <4>2, <4>4
        <4> QED BY <1>7, <4>1, <4>4, <4>5
      <3> QED BY <1>7, <3>1, <3>2, <3>3 DEF Listed
    <2> QED BY <2>1, <2>2
  <1>10. R \in [Acceptors -> Seq(Nodes)]
    OBVIOUS
  <1>11. ListsSound'
    BY <1>9, <1>10 DEF ListsSound
  <1>12. backlog' \in Seq(Clients)
    <2>1. backlog # << >> => Tail(backlog) \in Seq(Clients) OBVIOUS
    <2> QED BY <2>1 DEF Accept
  <1>13. AcceptorTypes'
    BY <1>0, <1>15, <1>2, <1>3, <1>7, <1>8, <1>12
  <1>14. LatestSafe'
    <2>1. s \in Servers /\ s # NULL BY <1>0, <1>3
    <2>2. s \notin lost' BY <1>0, <1>2, <1>3, <1>8
    <2> QED BY <1>15, <1>2, <1>3, <2>1, <2>2 DEF LatestSafe
  <1> QED BY <1>15, <1>11, <1>13, <1>14

\* What leaves the links and the awaiters alone leaves the lists alone.
LEMMA ListsKept ==
    ASSUME ListsSound, UNCHANGED <<m_awaiter_que, m_next, waiting, lost, stale>>
    PROVE  ListsSound'
  <1>1. PICK Q \in [Acceptors -> Seq(Nodes)] : \A a \in Acceptors : Listed(a, Q[a])
    BY DEF ListsSound
  <1>2. ASSUME NEW a \in Acceptors PROVE Listed(a, Q[a])'
    <2>1. Listed(a, Q[a])
      BY <1>1
    <2> QED BY <2>1 DEF Listed, Linked, Represents, Path
  <1> QED BY <1>1, <1>2 DEF ListsSound

\* A connection arrives, or nothing happens to the acceptors.
LEMMA ArriveKeeps ==
    ASSUME IInv, NEW conn \in Clients, Arrive(conn)
    PROVE  IInv'
  <1>1. /\ backlog' = Append(backlog, conn)
        /\ UNCHANGED <<m_awaiter_que, m_next, waiting, reported, lost, stale, latest,
                       m_added_to_event_pool>>
        /\ ready' \subseteq ready \cup m_added_to_event_pool
    BY DEF Arrive, awaiterVars
  <1>2. backlog' \in Seq(Clients) /\ backlog' # << >>
    BY <1>1 DEF IInv, AcceptorTypes
  <1>3. AcceptorTypes'
    BY <1>1, <1>2 DEF IInv, AcceptorTypes
  <1>4. ListsSound'
    BY <1>1, ListsKept DEF IInv
  <1>5. LatestSafe'
    BY <1>1, <1>2 DEF IInv, LatestSafe
  <1>6. StaleSound'
    BY <1>1 DEF IInv, StaleSound
  <1> QED BY <1>3, <1>4, <1>5, <1>6 DEF IInv

LEMMA StutterKeeps ==
    ASSUME IInv, UNCHANGED acceptorVars
    PROVE  IInv'
  <1>1. UNCHANGED <<backlog, m_awaiter_que, m_next, waiting, reported, lost, stale, latest,
                    m_added_to_event_pool, ready>>
    BY DEF acceptorVars
  <1>2. AcceptorTypes'
    BY <1>1 DEF IInv, AcceptorTypes
  <1>3. ListsSound'
    BY <1>1, ListsKept DEF IInv
  <1>4. LatestSafe'
    BY <1>1 DEF IInv, LatestSafe
  <1>5. StaleSound'
    BY <1>1 DEF IInv, StaleSound
  <1> QED BY <1>2, <1>3, <1>4, <1>5 DEF IInv

LEMMA ServerKeeps ==
    ASSUME IInv, ServerStep
    PROVE  IInv'
  <1>1. ASSUME NEW s \in Servers, await_suspend(s) PROVE IInv'
    BY <1>1, SuspendKeeps
  <1>2. ASSUME NEW a \in Acceptors, Report(a) PROVE IInv'
    <2>1. /\ reported' \subseteq reported \cup {a} /\ (backlog = << >> => reported' = reported)
          /\ UNCHANGED <<backlog, m_awaiter_que, m_next, waiting, lost, stale, latest,
                         m_added_to_event_pool>>
          /\ a \in ready /\ ready' \subseteq ready
      BY <1>2 DEF Report, awaiterVars
    <2>2. AcceptorTypes'
      BY <2>1 DEF IInv, AcceptorTypes
    <2>3. ListsSound'
      BY <2>1, ListsKept DEF IInv
    <2>4. LatestSafe'
      BY <2>1 DEF IInv, LatestSafe
    <2>5. StaleSound'
      BY <2>1 DEF IInv, StaleSound
    <2> QED BY <2>2, <2>3, <2>4, <2>5 DEF IInv
  <1>3. ASSUME NEW a \in Acceptors, on_callback(a) PROVE IInv'
    <2>1. /\ a \in reported /\ reported' = reported \ {a}
          /\ UNCHANGED <<m_added_to_event_pool, ready, stale>>
      BY <1>3 DEF on_callback
    <2>2. CASE m_awaiter_que[a].head = NULL
      <3>1. UNCHANGED <<backlog, m_awaiter_que, m_next, waiting, lost, latest>>
        BY <1>3, <2>2 DEF on_callback, awaiterVars
      <3>2. AcceptorTypes'
        BY <3>1 DEF IInv, AcceptorTypes
      <3>3. ListsSound'
        BY <2>1, <3>1, ListsKept DEF IInv
      <3>4. LatestSafe'
        BY <2>1, <3>1 DEF IInv, LatestSafe
      <3>5. StaleSound'
        BY <2>1, <3>1 DEF IInv, StaleSound
      <3> QED BY <3>2, <3>3, <3>4, <3>5 DEF IInv
    <2>3. CASE m_awaiter_que[a].head # NULL
      <3>1. /\ UNCHANGED m_next
            /\ \/ Forget(a, m_awaiter_que[a].head)
               \/ Accept /\ await_resume(a, m_awaiter_que[a].head)
        BY <1>3, <2>3 DEF on_callback
      <3> QED BY <2>1, <2>3, <3>1, ForgetKeeps, ResumeKeeps
    <2> QED BY <2>2, <2>3
  <1> QED BY <1>1, <1>2, <1>3 DEF ServerStep

-----------------------------------------------------------------------------
LEMMA InitSound == Init => IInv
  <1> SUFFICES ASSUME Init PROVE IInv
    OBVIOUS
  <1> USE ServersAssumption, NodesAssumption DEF Init, AcceptorInit
  <1>1. AcceptorTypes
    BY EmptyRepresents DEF AcceptorTypes, Links, Pointers
  <1>2. ListsSound
    <2>1. [a \in Acceptors |-> << >>] \in [Acceptors -> Seq(Nodes)] OBVIOUS
    <2>2. \A a \in Acceptors : Listed(a, << >>) BY EmptyRepresents DEF Listed, Linked
    <2> QED BY <2>1, <2>2 DEF ListsSound
  <1>3. LatestSafe
    BY DEF LatestSafe
  <1>4. StaleSound
    BY DEF StaleSound
  <1> QED BY <1>1, <1>2, <1>3, <1>4 DEF IInv

LEMMA NextSound == IInv /\ [Next]_vars => IInv'
  <1> SUFFICES ASSUME IInv, [Next]_vars PROVE IInv'
    OBVIOUS
  <1>1. CASE ServerNext
    BY <1>1, ServerKeeps DEF ServerNext
  <1>2. ASSUME NEW c \in Clients, Start(c) \/ Handshake(c) PROVE IInv'
    <2>1. Arrive(c) \/ UNCHANGED acceptorVars
      BY <1>2 DEF Start, Handshake
    <2> QED BY <2>1, ArriveKeeps, StutterKeeps
  <1>3. ASSUME NEW c \in Clients, Sleep(c) \/ Fire(c) \/ Wake(c) \/ Connected(c) PROVE IInv'
    BY <1>3, StutterKeeps DEF Sleep, Fire, Wake, Connected
  <1>4. CASE UNCHANGED vars
    BY <1>4, StutterKeeps DEF vars
  <1> QED BY <1>1, <1>2, <1>3, <1>4 DEF Next

THEOREM Inductive == Spec => []IInv
  BY InitSound, NextSound, PTL DEF Spec

\* Whatever the races of the threads, and however many coroutines, acceptors and
\* connections there are: who got the last answer of accept is not lost.
THEOREM SomebodyAccepts == Spec => []NotAllLost
  <1>1. IInv => NotAllLost
    BY DEF IInv, LatestSafe, NotAllLost
  <1> QED BY <1>1, Inductive, PTL

\* A coroutine that waits is in the list of its acceptor, once, or one of the lost; nobody
\* else is in a list, except an awaiter that an exception has destroyed, alone.
THEOREM WaitersAreQueued == Spec => []AwaitersQueued
  <1>1. IInv => AwaitersQueued
    <2> SUFFICES ASSUME IInv PROVE AwaitersQueued
      OBVIOUS
    <2> USE ServersAssumption
    <2>1. PICK Q \in [Acceptors -> Seq(Nodes)] : \A a \in Acceptors : Listed(a, Q[a])
      BY DEF IInv, ListsSound
    <2>2. /\ lost \subseteq waiting /\ waiting \subseteq Servers
          /\ stale \subseteq Servers \ waiting /\ Linked = (waiting \ lost) \cup stale
      BY DEF IInv, AcceptorTypes, StaleSound, Linked
    <2> DEFINE C(a) == Chain(m_next, m_awaiter_que[a].head)
    <2>3. ASSUME NEW a \in Acceptors
          PROVE  /\ C(a) = Q[a] /\ Q[a] \in Seq(Nodes)
                 /\ Range(C(a)) = {s \in Linked : acceptor[s] = a}
                 /\ IsInjective(C(a))
                 /\ m_awaiter_que[a].tail = IF C(a) = << >> THEN NULL ELSE Last(C(a))
      <3>1. Path(m_next, m_awaiter_que[a].head, Q[a])
        BY <2>1 DEF Listed, Represents
      <3>2. C(a) = Q[a] /\ Q[a] \in Seq(Nodes)
        BY <2>1, <3>1, PathChain
      <3>3. Range(Q[a]) = {s \in Linked : acceptor[s] = a}
        <4>1. Range(Q[a]) = {Q[a][i] : i \in 1..Len(Q[a])} BY <3>2 DEF Range
        <4>2. /\ \A i \in 1..Len(Q[a]) : Q[a][i] \in Linked /\ acceptor[Q[a][i]] = a
              /\ \A s \in Linked : acceptor[s] = a => \E i \in 1..Len(Q[a]) : Q[a][i] = s
          BY <2>1 DEF Listed
        <4>3. \A s \in Linked : acceptor[s] = a => s \in Range(Q[a]) BY <4>1, <4>2
        <4>4. \A s \in Range(Q[a]) : s \in Linked /\ acceptor[s] = a BY <4>1, <4>2
        <4> QED BY <4>3, <4>4
      <3>4. IsInjective(Q[a])
        <4>1. DOMAIN Q[a] = 1..Len(Q[a]) BY <3>2
        <4> QED BY <3>1, <4>1 DEF Path, IsInjective
      <3>5. m_awaiter_que[a].tail = IF Q[a] = << >> THEN NULL ELSE Last(Q[a])
        <4>1. m_awaiter_que[a].tail = IF Len(Q[a]) = 0 THEN NULL ELSE Q[a][Len(Q[a])]
          BY <2>1 DEF Listed, Represents
        <4>2. Len(Q[a]) = 0 <=> Q[a] = << >> BY <3>2
        <4> QED BY <4>1, <4>2 DEF Last
      <3> QED BY <3>2, <3>3, <3>4, <3>5
    <2> HIDE DEF C
    <2>4. waiting \cup stale = lost \cup UNION {Range(C(a)) : a \in Acceptors}
      <3>1. ASSUME NEW s \in Linked PROVE s \in Range(C(acceptor[s]))
        BY <2>2, <2>3
      <3>2. \A s \in Linked : acceptor[s] \in Acceptors BY <2>2
      <3>3. \A a \in Acceptors : Range(C(a)) \subseteq waiting \cup stale BY <2>2, <2>3
      <3> QED BY <2>2, <3>1, <3>2, <3>3
    <2>5. \A a \in Acceptors : Range(C(a)) \subseteq {s \in Servers \ lost : acceptor[s] = a}
      BY <2>2, <2>3
    <2>6. ASSUME NEW a \in Acceptors, a \in Spoiled PROVE Len(C(a)) = 1
      <3>1. PICK s \in stale : acceptor[s] = a BY <2>6 DEF Spoiled
      <3>2. {e \in Linked : acceptor[e] = a} = {s}
        BY <2>2, <3>1 DEF IInv, StaleSound
      <3>3. /\ C(a) = Q[a] /\ Q[a] \in Seq(Nodes) /\ Range(Q[a]) = {s} /\ IsInjective(Q[a])
        BY <2>3, <3>2
      <3>4. \A i \in 1..Len(Q[a]) : i = 1
        <4>1. DOMAIN Q[a] = 1..Len(Q[a]) /\ Len(Q[a]) \in Nat BY <3>3
        <4>2. \A i \in 1..Len(Q[a]) : Q[a][i] = s BY <3>3, <4>1 DEF Range
        <4>3. \A i, j \in 1..Len(Q[a]) : i = j BY <3>3, <4>1, <4>2 DEF IsInjective
        <4> QED BY <4>1, <4>3
      <3>5. 1 \in 1..Len(Q[a])
        <4>1. DOMAIN Q[a] = 1..Len(Q[a]) /\ Len(Q[a]) \in Nat BY <3>3
        <4>2. \E i \in 1..Len(Q[a]) : TRUE BY <3>3, <4>1 DEF Range
        <4> QED BY <4>1, <4>2
      <3>6. Len(Q[a]) \in Nat BY <3>3
      <3>7. Len(Q[a]) = 1
        <4>1. Len(Q[a]) \in 1..Len(Q[a]) BY <3>5, <3>6
        <4> QED BY <3>4, <4>1
      <3> QED BY <3>3, <3>7
    <2> QED BY <2>2, <2>3, <2>4, <2>5, <2>6 DEF AwaitersQueued, C
  <1> QED BY <1>1, Inductive, PTL

-----------------------------------------------------------------------------
(* DnsResolver *)

\* A call that adds a worker has been counted before it pushes.
CallsBounded == notifying + Cardinality(Adding) <= callers

\* RequestsAccounted, place by place; a worker that is about to pop has answered what it
\* popped before.
Distinct == \A i, j \in 1..Len(m_requests) : m_requests[i] = m_requests[j] => i = j
QueuedAsked == \A i \in 1..Len(m_requests) : request[m_requests[i]] = "asked"
HeldAsked ==
    \A w \in Workers : awaiter[w] # Nobody =>
        /\ worker[w] \in {"unlock", "check", "resolve", "exit"}
        /\ request[awaiter[w]] = "asked"
        /\ \A i \in 1..Len(m_requests) : m_requests[i] # awaiter[w]
        /\ \A v \in Workers : awaiter[v] = awaiter[w] => v = w
AskedSomewhere ==
    \A r \in Requests : request[r] = "asked" =>
        \/ \E i \in 1..Len(m_requests) : m_requests[i] = r
        \/ \E w \in Workers : awaiter[w] = r

Accounts == Distinct /\ QueuedAsked /\ HeldAsked /\ AskedSomewhere

\* The mutex is held from the look at m_abort to the wait: who has seen no abort waits
\* before there is one, and who has popped nothing has seen it.
Abort ==
    /\ destructor # "no" <=> m_abort
    /\ \A w \in Workers :
          /\ worker[w] \in {"inner", "empty", "unlock"} => m_mutex = w
          /\ worker[w] = "empty" => ~m_abort
          /\ worker[w] \in {"unlock", "check"} /\ awaiter[w] = Nobody => m_abort

DnsIInv == /\ TypeOK
        /\ CallsBounded
        /\ Accounts
        /\ Abort
        /\ ResolvesARequest
        /\ NobodySleepsThroughAbort

-----------------------------------------------------------------------------
LEMMA AddingFinite == IsFiniteSet(Adding) /\ Cardinality(Adding) \in Nat
  <1>1. Adding \subseteq Requests BY DEF Adding
  <1> QED BY <1>1, NamesAssumption, FS_Subset, FS_CardinalityType

\* Whoever asks is counted once, while it adds a worker or after it has pushed.
LEMMA NextCallsBounded ==
    ASSUME TypeOK, CallsBounded, [DnsNext]_dnsVars
    PROVE  CallsBounded'
  <1> USE AddingFinite, CallersAssumption DEF TypeOK, CallsBounded
  <1>1. ASSUME NEW r \in Requests, Ask(r) PROVE CallsBounded'
    <2>1. CASE request' = [request EXCEPT ![r] = "asked"] /\ request[r] = "running" /\ Push(r)
      <3>1. Adding' = Adding BY <2>1 DEF Adding
      <3> QED BY <1>1, <2>1, <3>1 DEF Ask, Push
    <2>2. CASE request' = [request EXCEPT ![r] = "add"] /\ request[r] = "running" /\ UNCHANGED notifying
      <3>1. r \notin Adding /\ Adding' = Adding \cup {r} BY <2>2 DEF Adding
      <3>2. Cardinality(Adding \cup {r}) = Cardinality(Adding) + 1 BY <3>1, FS_AddElement
      <3> QED BY <1>1, <2>2, <3>1, <3>2 DEF Ask
    <2> QED BY <1>1, <2>1, <2>2 DEF Ask, Moves
  <1>2. ASSUME NEW r \in Requests, PushRequest(r) PROVE CallsBounded'
    <2>1. r \in Adding /\ Adding' = Adding \ {r} BY <1>2 DEF PushRequest, Moves, Adding
    <2>2. Cardinality(Adding') = Cardinality(Adding) - 1 BY <2>1, FS_RemoveElement
    <2> QED BY <1>2, <2>2 DEF PushRequest, Push
  <1>3. ASSUME NEW r \in Requests, NEW w \in Workers, add_worker(r, w) PROVE CallsBounded'
    <2>1. Adding' = Adding BY <1>3 DEF add_worker, Moves, Adding
    <2> QED BY <1>3, <2>1 DEF add_worker
  <1>4. ASSUME NEW r \in Requests, AddedWorker(r) PROVE CallsBounded'
    <2>1. Adding' = Adding BY <1>4 DEF AddedWorker, Moves, Adding
    <2> QED BY <1>4, <2>1 DEF AddedWorker
  <1>5. ASSUME NEW r \in Requests, do_local_task(r) PROVE CallsBounded'
    <2>1. Adding' = Adding BY <1>5 DEF do_local_task, Moves, Adding
    <2> QED BY <1>5, <2>1 DEF do_local_task
  <1>6. CASE NotifyOne
    <2>1. Adding' = Adding BY <1>6 DEF NotifyOne, Adding
    <2> QED BY <1>6, <2>1 DEF NotifyOne
  <1>7. ASSUME NEW w \in Workers, Resolve(w) PROVE CallsBounded'
    <2>1. Adding' = Adding BY <1>7 DEF Resolve, Moves, Adding
    <2> QED BY <1>7, <2>1 DEF Resolve
  <1>8. ASSUME UNCHANGED requestVars PROVE CallsBounded'
    <2>1. Adding' = Adding BY <1>8 DEF requestVars, Adding
    <2> QED BY <1>8, <2>1 DEF requestVars
  <1>9. ASSUME NEW w \in Workers,
               \/ StartRound(w) \/ Lock(w) \/ PopRequest(w) \/ Wait(w) \/ Wakeup(w)
               \/ SpuriousWakeup(w) \/ Unlock(w) \/ CheckAbort(w)
        PROVE UNCHANGED requestVars
    BY <1>9 DEF StartRound, Lock, PopRequest, Wait, Wakeup, SpuriousWakeup, Unlock, CheckAbort, requestVars
  <1>10. CASE SetAbort \/ NotifyAll \/ Join \/ UNCHANGED dnsVars
    BY <1>10, <1>8 DEF SetAbort, NotifyAll, Join, dnsVars, requestVars
  <1> QED
    BY <1>1, <1>2, <1>3, <1>4, <1>5, <1>6, <1>7, <1>8, <1>9, <1>10 DEF DnsNext, Suspending, Work

\* Every action keeps the types; notify_all is owed by callers callers at most.
LEMMA NextTypes ==
    ASSUME TypeOK, CallsBounded, [DnsNext]_dnsVars
    PROVE  TypeOK'
  <1> USE AddingFinite, CallersAssumption DEF TypeOK, Moves, Goto, LockMutex, UnlockMutex
  <1>1. ASSUME NEW r \in Requests, Ask(r) PROVE TypeOK'
    <2>1. request' \in [Requests -> {"running", "add", "adding", "push", "asked", "posted"}]
      BY <1>1 DEF Ask
    <2>2. m_requests' \in Seq(Requests) /\ notifying' \in 0..callers
      <3>1. CASE Push(r) BY <1>1, <3>1 DEF Ask, Push
      <3>2. CASE UNCHANGED <<m_requests, notifying>> BY <3>2
      <3> QED BY <1>1, <3>1, <3>2 DEF Ask
    <2> QED BY <1>1, <2>1, <2>2 DEF Ask, workerVars
  <1>2. ASSUME NEW r \in Requests, PushRequest(r) PROVE TypeOK'
    <2>1. r \in Adding BY <1>2 DEF PushRequest, Adding
    <2>2. Cardinality(Adding) > 0
      <3>1. Cardinality(Adding \ {r}) = Cardinality(Adding) - 1 /\ IsFiniteSet(Adding \ {r})
        BY <2>1, FS_RemoveElement
      <3> QED BY <3>1, FS_CardinalityType
    <2> QED BY <1>2, <2>2 DEF PushRequest, Push, CallsBounded, workerVars
  <1>3. ASSUME NEW r \in Requests, NEW w \in Workers, add_worker(r, w) PROVE TypeOK'
    BY <1>3 DEF add_worker
  <1>4. ASSUME NEW r \in Requests, AddedWorker(r) \/ do_local_task(r) PROVE TypeOK'
    BY <1>4 DEF AddedWorker, do_local_task, workerVars
  <1>5. CASE NotifyOne
    BY <1>5 DEF NotifyOne, WakeOne, workerVars
  <1>6. ASSUME NEW w \in Workers, PopRequest(w) PROVE TypeOK'
    <2>1. m_requests # << >> => Head(m_requests) \in Requests /\ Tail(m_requests) \in Seq(Requests)
      OBVIOUS
    <2> QED BY <1>6, <2>1 DEF PopRequest, requestVars
  <1>7. ASSUME NEW w \in Workers,
               StartRound(w) \/ Lock(w) \/ Wait(w) \/ Wakeup(w) \/ Unlock(w) \/ CheckAbort(w)
        PROVE TypeOK'
    BY <1>7 DEF StartRound, Lock, Wait, Wakeup, Unlock, CheckAbort, requestVars
  <1>8. ASSUME NEW w \in Workers, Resolve(w) \/ SpuriousWakeup(w) PROVE TypeOK'
    BY <1>8 DEF Resolve, SpuriousWakeup, requestVars, workerVars
  <1>9. CASE SetAbort \/ NotifyAll \/ Join \/ UNCHANGED dnsVars
    BY <1>9 DEF SetAbort, NotifyAll, Join, DestructorMoves, dnsVars, requestVars, workerVars
  <1> QED
    BY <1>1, <1>2, <1>3, <1>4, <1>5, <1>6, <1>7, <1>8, <1>9 DEF DnsNext, Suspending, Work

\* Who holds the mutex, and what a worker knows of m_abort while it does.
LEMMA NextAbort ==
    ASSUME TypeOK, Accounts, Abort, [DnsNext]_dnsVars
    PROVE  Abort'
  <1> USE NamesAssumption DEF TypeOK, Abort, Goto, LockMutex, UnlockMutex
  <1>1. ASSUME NEW r \in Requests, Ask(r) \/ PushRequest(r) \/ do_local_task(r) PROVE Abort'
    <2>1. UNCHANGED <<m_mutex, m_abort, worker, awaiter, destructor>>
      BY <1>1 DEF Ask, PushRequest, do_local_task, workerVars
    <2> QED BY <2>1
  <1>2. ASSUME NEW r \in Requests, NEW w \in Workers, add_worker(r, w) PROVE Abort'
    BY <1>2 DEF add_worker
  <1>3. ASSUME NEW r \in Requests, AddedWorker(r) PROVE Abort'
    BY <1>3 DEF AddedWorker, workerVars
  <1>4. CASE NotifyOne
    BY <1>4 DEF NotifyOne, workerVars
  <1>5. ASSUME NEW w \in Workers, PopRequest(w) PROVE Abort'
    <2>1. m_requests # << >> => Head(m_requests) \in Requests OBVIOUS
    <2> QED BY <1>5, <2>1 DEF PopRequest
  <1>6. ASSUME NEW w \in Workers, StartRound(w) \/ CheckAbort(w) PROVE Abort'
    BY <1>6 DEF StartRound, CheckAbort
  <1>7. ASSUME NEW w \in Workers, Lock(w) \/ Wait(w) \/ Wakeup(w) PROVE Abort'
    BY <1>7 DEF Lock, Wait, Wakeup
  <1>8. ASSUME NEW w \in Workers, Unlock(w) PROVE Abort'
    BY <1>8 DEF Unlock
  <1>9. ASSUME NEW w \in Workers, Resolve(w) PROVE Abort'
    BY <1>9 DEF Resolve
  <1>10. ASSUME NEW w \in Workers, SpuriousWakeup(w) PROVE Abort'
    BY <1>10 DEF SpuriousWakeup, workerVars
  <1>11. CASE SetAbort
    BY <1>11 DEF SetAbort, DestructorMoves, workerVars
  <1>12. CASE NotifyAll \/ Join
    BY <1>12 DEF NotifyAll, Join, DestructorMoves, workerVars
  <1>13. CASE UNCHANGED dnsVars
    BY <1>13 DEF dnsVars
  <1> QED
    BY <1>1, <1>2, <1>3, <1>4, <1>5, <1>6, <1>7, <1>8, <1>9, <1>10, <1>11, <1>12, <1>13
    DEF DnsNext, Suspending, Work

LEMMA NextResolves ==
    ASSUME TypeOK, Accounts, Abort, ResolvesARequest, [DnsNext]_dnsVars
    PROVE  ResolvesARequest'
  <1> USE DEF TypeOK, Abort, ResolvesARequest, Goto
  <1>1. ASSUME NEW w \in Workers, StartRound(w) \/ Lock(w) \/ Wait(w) \/ Wakeup(w) \/ Unlock(w) \/ CheckAbort(w)
        PROVE ResolvesARequest'
    BY <1>1 DEF StartRound, Lock, Wait, Wakeup, Unlock, CheckAbort
  <1>2. ASSUME NEW w \in Workers, PopRequest(w) PROVE ResolvesARequest'
    BY <1>2 DEF PopRequest
  <1>3. ASSUME NEW w \in Workers, Resolve(w) PROVE ResolvesARequest'
    BY <1>3 DEF Resolve
  <1>4. ASSUME NEW r \in Requests, NEW w \in Workers, add_worker(r, w) PROVE ResolvesARequest'
    BY <1>4 DEF add_worker
  <1>5. CASE UNCHANGED workerVars
    BY <1>5 DEF workerVars
  <1>6. ASSUME \/ \E r \in Requests : Ask(r) \/ AddedWorker(r) \/ PushRequest(r) \/ do_local_task(r)
               \/ NotifyOne \/ SetAbort \/ NotifyAll \/ Join \/ UNCHANGED dnsVars
               \/ \E w \in Workers : SpuriousWakeup(w)
        PROVE UNCHANGED workerVars
    BY <1>6 DEF Ask, AddedWorker, PushRequest, do_local_task, NotifyOne, SetAbort, NotifyAll, Join,
                SpuriousWakeup, dnsVars, workerVars
  <1> QED
    BY <1>1, <1>2, <1>3, <1>4, <1>5, <1>6 DEF DnsNext, Suspending, Work

LEMMA NextNobodySleeps ==
    ASSUME TypeOK, Abort, NobodySleepsThroughAbort, [DnsNext]_dnsVars
    PROVE  NobodySleepsThroughAbort'
  <1> USE DEF TypeOK, Abort, NobodySleepsThroughAbort, Goto
  <1>1. ASSUME NEW r \in Requests,
               \/ Ask(r) \/ AddedWorker(r) \/ PushRequest(r) \/ do_local_task(r)
               \/ \E w \in Workers : add_worker(r, w)
        PROVE  NobodySleepsThroughAbort'
    BY <1>1 DEF Ask, AddedWorker, PushRequest, do_local_task, add_worker
  <1>2. CASE NotifyOne
    BY <1>2 DEF NotifyOne, WakeOne
  <1>3. ASSUME NEW w \in Workers,
               \/ StartRound(w) \/ Lock(w) \/ PopRequest(w) \/ Wakeup(w) \/ Unlock(w)
               \/ CheckAbort(w) \/ Resolve(w)
        PROVE  NobodySleepsThroughAbort'
    BY <1>3 DEF StartRound, Lock, PopRequest, Wakeup, Unlock, CheckAbort, Resolve
  <1>4. ASSUME NEW w \in Workers, Wait(w) PROVE NobodySleepsThroughAbort'
    BY <1>4 DEF Wait
  <1>5. ASSUME NEW w \in Workers, SpuriousWakeup(w) PROVE NobodySleepsThroughAbort'
    BY <1>5 DEF SpuriousWakeup
  <1>6. CASE SetAbort \/ NotifyAll \/ Join
    BY <1>6 DEF SetAbort, NotifyAll, Join, DestructorMoves
  <1>7. CASE UNCHANGED dnsVars
    BY <1>7 DEF dnsVars
  <1> QED
    BY <1>1, <1>2, <1>3, <1>4, <1>5, <1>6, <1>7 DEF DnsNext, Suspending, Work

\* A request moves from the end of the queue to the hand of a worker that holds none.
LEMMA NextAccounts ==
    ASSUME TypeOK, Accounts, Abort, ResolvesARequest, [DnsNext]_dnsVars
    PROVE  Accounts'
  <1> USE DEF TypeOK, Accounts, Distinct, QueuedAsked, HeldAsked, AskedSomewhere
  <1>1. ASSUME NEW r \in Requests, request[r] # "asked", Push(r),
               request' = [request EXCEPT ![r] = "asked"], UNCHANGED workerVars
        PROVE  Accounts'
    <2>1. /\ Len(m_requests') = Len(m_requests) + 1
          /\ m_requests'[Len(m_requests) + 1] = r
          /\ \A i \in 1..Len(m_requests) : m_requests'[i] = m_requests[i]
      BY <1>1 DEF Push
    <2>2. \A i \in 1..Len(m_requests) : m_requests[i] \in Requests /\ m_requests[i] # r
      BY <1>1
    <2>3. Distinct'
      <3> DEFINE n == Len(m_requests)
      <3>1. n \in Nat /\ Len(m_requests') = n + 1 /\ m_requests'[n + 1] = r
            /\ \A i \in 1..n : m_requests'[i] = m_requests[i]
        BY <2>1
      <3>2. \A i \in 1..n : m_requests'[i] # r
        BY <3>1, <2>2
      <3>3. \A i, j \in 1..n : m_requests[i] = m_requests[j] => i = j
        OBVIOUS
      <3> HIDE DEF n
      <3>4. \A i \in 1..(n + 1) : i \in 1..n \/ i = n + 1
        BY <3>1
      <3>5. ASSUME NEW i \in 1..(n + 1), NEW j \in 1..(n + 1), m_requests'[i] = m_requests'[j]
            PROVE  i = j
        <4>1. CASE i \in 1..n /\ j \in 1..n
          <5>1. m_requests[i] = m_requests[j] BY <3>1, <3>5, <4>1, Zenon
          <5> QED BY <3>3, <4>1, <5>1, Zenon
        <4>2. CASE i = n + 1 /\ j \in 1..n
          <5>1. m_requests'[j] = r BY <3>1, <3>5, <4>2, Zenon
          <5> QED BY <3>2, <4>2, <5>1, Zenon
        <4>3. CASE i \in 1..n /\ j = n + 1
          <5>1. m_requests'[i] = r BY <3>1, <3>5, <4>3, Zenon
          <5> QED BY <3>2, <4>3, <5>1, Zenon
        <4> QED BY <3>4, <4>1, <4>2, <4>3, Zenon
      <3> QED BY <3>1, <3>5, Zenon
    <2>4. QueuedAsked'
      BY <1>1, <2>1, <2>2
    <2>5. HeldAsked'
      BY <1>1, <2>1, <2>2, NamesAssumption DEF workerVars
    <2>6. AskedSomewhere'
      BY <1>1, <2>1 DEF workerVars
    <2> QED BY <2>3, <2>4, <2>5, <2>6
  <1>2. ASSUME NEW r \in Requests, NEW there \in {"running", "add", "adding", "push"},
               request[r] # "asked", request' = [request EXCEPT ![r] = there],
               UNCHANGED <<m_requests, awaiter>>,
               worker' = worker \/ \E w \in Workers : worker[w] = "none" /\ worker' = [worker EXCEPT ![w] = "outer"]
        PROVE  Accounts'
    <2>1. \A i \in 1..Len(m_requests) : m_requests[i] \in Requests /\ m_requests[i] # r
      BY <1>2
    <2>2. \A w \in Workers : awaiter[w] # Nobody => awaiter[w] \in Requests /\ awaiter[w] # r
      BY <1>2
    <2> QED BY <1>2, <2>1, <2>2
  <1>3. ASSUME NEW r \in Requests, Ask(r) PROVE Accounts'
    BY <1>1, <1>2, <1>3 DEF Ask, Moves, workerVars
  <1>4. ASSUME NEW r \in Requests, PushRequest(r) PROVE Accounts'
    BY <1>1, <1>4 DEF PushRequest, Moves
  <1>5. ASSUME NEW r \in Requests, AddedWorker(r) \/ do_local_task(r) PROVE Accounts'
    BY <1>2, <1>5 DEF AddedWorker, do_local_task, Moves, workerVars
  <1>6. ASSUME NEW r \in Requests, NEW w \in Workers, add_worker(r, w) PROVE Accounts'
    BY <1>2, <1>6 DEF add_worker, Moves
  <1>7. ASSUME NEW w \in Workers, PopRequest(w) PROVE Accounts'
    <2>1. awaiter[w] = Nobody
      BY <1>7 DEF PopRequest, Goto
    <2>2. CASE UNCHANGED <<m_requests, awaiter>>
      BY <1>7, <2>1, <2>2 DEF PopRequest, Goto, requestVars
    <2>3. CASE m_requests # << >> /\ m_requests' = Tail(m_requests)
               /\ awaiter' = [awaiter EXCEPT ![w] = Head(m_requests)]
      <3>1. /\ Len(m_requests) > 0
            /\ Len(m_requests') = Len(m_requests) - 1
            /\ \A i \in 1..Len(m_requests') : m_requests'[i] = m_requests[i + 1]
            /\ Head(m_requests) = m_requests[1]
        BY <2>3
      <3>2. request[m_requests[1]] = "asked" /\ m_requests[1] \in Requests
        BY <3>1
      <3>3. request' = request /\ worker' = [worker EXCEPT ![w] = "unlock"]
        BY <1>7, <2>3 DEF PopRequest, Goto, requestVars
      <3>4. Distinct'
        BY <3>1
      <3>5. QueuedAsked'
        BY <3>1, <3>3
      <3>6. \A v \in Workers : awaiter[v] # m_requests[1]
        BY <3>1, <3>2, NamesAssumption
      <3>7. HeldAsked'
        BY <2>1, <2>3, <3>1, <3>2, <3>3, <3>6
      <3>8. AskedSomewhere'
        <4> SUFFICES ASSUME NEW r \in Requests, request[r] = "asked"
                     PROVE  \/ \E i \in 1..Len(m_requests') : m_requests'[i] = r
                            \/ \E v \in Workers : awaiter'[v] = r
          BY <3>3
        <4>1. CASE m_requests[1] = r
          BY <2>3, <3>1, <4>1
        <4>2. CASE \E i \in 1..Len(m_requests) : i # 1 /\ m_requests[i] = r
          <5>1. PICK i \in 1..Len(m_requests) : i # 1 /\ m_requests[i] = r BY <4>2
          <5>2. i - 1 \in 1..Len(m_requests') /\ m_requests'[i - 1] = r BY <3>1, <5>1
          <5> QED BY <5>2
        <4>3. CASE \E v \in Workers : awaiter[v] = r
          BY <2>1, <2>3, <4>3, NamesAssumption
        <4> QED BY <3>1, <4>1, <4>2, <4>3
      <3> QED BY <3>4, <3>5, <3>7, <3>8
    <2> QED BY <1>7, <2>2, <2>3 DEF PopRequest
  <1>8. ASSUME NEW w \in Workers, Resolve(w) PROVE Accounts'
    <2>1. awaiter[w] # Nobody /\ awaiter[w] \in Requests
      BY <1>8 DEF Resolve, Goto, ResolvesARequest
    <2>2. \A i \in 1..Len(m_requests) : m_requests[i] \in Requests /\ m_requests[i] # awaiter[w]
      BY <2>1
    <2>3. \A v \in Workers : awaiter[v] = awaiter[w] => v = w
      BY <2>1
    <2>4. /\ request' = [request EXCEPT ![awaiter[w]] = "posted"]
          /\ worker' = [worker EXCEPT ![w] = "outer"]
          /\ awaiter' = [awaiter EXCEPT ![w] = Nobody]
          /\ m_requests' = m_requests
      BY <1>8 DEF Resolve, Goto, Moves
    <2>5. Distinct' /\ QueuedAsked'
      BY <2>1, <2>2, <2>4
    <2>6. HeldAsked'
      BY <2>1, <2>3, <2>4
    <2>7. AskedSomewhere'
      BY <2>1, <2>4
    <2> QED BY <2>5, <2>6, <2>7
  <1>9. ASSUME NEW w \in Workers, UNCHANGED <<m_requests, request, awaiter>>,
               \E here, there : /\ Goto(w, here, there)
                                /\ here \in {"unlock", "check"} => there \in {"check", "resolve", "exit"}
                                /\ here \notin {"resolve", "exit"}
        PROVE  Accounts'
    BY <1>9 DEF Goto
  <1>10. ASSUME NEW w \in Workers,
                StartRound(w) \/ Lock(w) \/ Wait(w) \/ Wakeup(w) \/ Unlock(w) \/ CheckAbort(w)
         PROVE  Accounts'
    BY <1>9, <1>10 DEF StartRound, Lock, Wait, Wakeup, Unlock, CheckAbort, requestVars
  <1>11. CASE UNCHANGED <<m_requests, request, worker, awaiter>>
    BY <1>11
  <1>12. CASE \/ NotifyOne \/ SetAbort \/ NotifyAll \/ Join \/ UNCHANGED dnsVars
              \/ \E w \in Workers : SpuriousWakeup(w)
    BY <1>11, <1>12 DEF NotifyOne, SetAbort, NotifyAll, Join, SpuriousWakeup, dnsVars, requestVars, workerVars
  <1> QED
    BY <1>3, <1>4, <1>5, <1>6, <1>7, <1>8, <1>10, <1>12 DEF DnsNext, Suspending, Work

LEMMA InitDnsIInv == DnsInit => DnsIInv
  <1> SUFFICES ASSUME DnsInit PROVE DnsIInv
    OBVIOUS
  <1> USE NamesAssumption, CallersAssumption DEF DnsInit
  <1>1. Adding = {} BY DEF Adding
  <1>2. TypeOK
    <2>1. m_threads = {w \in Workers : worker[w] # "none"} OBVIOUS
    <2>2. worker \in [Workers -> {"none", "outer", "lock", "inner", "empty", "waiting",
                                 "unlock", "check", "resolve", "exit"}]
      OBVIOUS
    <2>3. awaiter \in [Workers -> Requests \cup {Nobody}] OBVIOUS
    <2>4. request \in [Requests -> {"running", "add", "adding", "push", "asked", "posted"}]
      OBVIOUS
    <2>5. /\ m_mutex \in Workers \cup Requests \cup {Nobody}
          /\ m_condv \in SUBSET Workers /\ notifying \in 0..callers
          /\ destructor \in {"no", "notify", "join", "done"}
      OBVIOUS
    <2>6. m_requests \in Seq(Requests) OBVIOUS
    <2>7. m_abort \in BOOLEAN BY Zenon
    <2> HIDE DEF DnsInit
    <2> QED BY <2>1, <2>2, <2>3, <2>4, <2>5, <2>6, <2>7 DEF TypeOK
  <1>3. CallsBounded BY <1>1, FS_EmptySet DEF CallsBounded
  <1>4. Accounts BY DEF Accounts, Distinct, QueuedAsked, HeldAsked, AskedSomewhere
  <1>5. Abort /\ ResolvesARequest /\ NobodySleepsThroughAbort
    BY DEF Abort, ResolvesARequest, NobodySleepsThroughAbort
  <1> QED BY <1>2, <1>3, <1>4, <1>5 DEF DnsIInv

LEMMA NextDnsIInv == DnsIInv /\ [DnsNext]_dnsVars => DnsIInv'
  BY NextTypes, NextCallsBounded, NextAbort, NextResolves, NextNobodySleeps, NextAccounts DEF DnsIInv

THEOREM DnsInductive == DnsSpec => []DnsIInv
  BY InitDnsIInv, NextDnsIInv, PTL DEF DnsSpec

\* The places of a request, as RequestsAccounted counts them, are none or one.
LEMMA AccountsCount ==
    ASSUME TypeOK, Accounts
    PROVE  RequestsAccounted
  <1> USE DEF TypeOK
  <1> SUFFICES ASSUME NEW r \in Requests
               PROVE  Cardinality(
                        {<<"queue", i>> : i \in {j \in DOMAIN m_requests : m_requests[j] = r}}
                        \cup {<<"worker", w>> : w \in {v \in Workers : awaiter[v] = r}})
                        = IF request[r] = "asked" THEN 1 ELSE 0
    BY DEF RequestsAccounted
  <1> DEFINE queued == {<<"queue", i>> : i \in {j \in DOMAIN m_requests : m_requests[j] = r}}
             held == {<<"worker", w>> : w \in {v \in Workers : awaiter[v] = r}}
  <1>1. DOMAIN m_requests = 1..Len(m_requests) /\ r # Nobody
    BY NamesAssumption
  <1>2. CASE request[r] # "asked"
    <2>1. queued = {} BY <1>1, <1>2 DEF Accounts, QueuedAsked
    <2>2. held = {} BY <1>1, <1>2 DEF Accounts, HeldAsked
    <2> QED BY <1>2, <2>1, <2>2, FS_EmptySet
  <1>3. ASSUME request[r] = "asked", NEW i \in 1..Len(m_requests), m_requests[i] = r
        PROVE  Cardinality(queued \cup held) = 1
    <2>1. {j \in DOMAIN m_requests : m_requests[j] = r} = {i}
      BY <1>1, <1>3 DEF Accounts, Distinct
    <2>2. held = {} BY <1>1, <1>3 DEF Accounts, HeldAsked
    <2>3. queued \cup held = {<<"queue", i>>} BY <2>1, <2>2
    <2> QED BY <2>3, FS_Singleton
  <1>4. ASSUME request[r] = "asked", NEW w \in Workers, awaiter[w] = r
        PROVE  Cardinality(queued \cup held) = 1
    <2>1. {v \in Workers : awaiter[v] = r} = {w}
      BY <1>1, <1>4 DEF Accounts, HeldAsked
    <2>2. queued = {} BY <1>1, <1>4 DEF Accounts, HeldAsked
    <2>3. queued \cup held = {<<"worker", w>>} BY <2>1, <2>2
    <2> QED BY <2>3, FS_Singleton
  <1> QED BY <1>2, <1>3, <1>4 DEF Accounts, AskedSomewhere

-----------------------------------------------------------------------------
\* Every variable keeps its type; the started workers are those the destructor joins.
THEOREM DnsTypeCorrect == DnsSpec => []TypeOK
  BY DnsInductive, PTL DEF DnsIInv

\* A request that waits is in one place, of the queue and the workers' hands, and no
\* other request is in any: for any number of callers and workers, one answer each.
THEOREM AnsweredOnce == DnsSpec => []RequestsAccounted
  <1>1. DnsIInv => RequestsAccounted BY AccountsCount DEF DnsIInv
  <1> QED BY <1>1, DnsInductive, PTL

\* No worker resolves without a request, although m_abort may be set between its reads.
THEOREM NeverEmptyHanded == DnsSpec => []ResolvesARequest
  BY DnsInductive, PTL DEF DnsIInv

\* Nobody sleeps behind the destructor's notify_all, so that its joins end.
THEOREM AbortWakesWorkers == DnsSpec => []NobodySleepsThroughAbort
  BY DnsInductive, PTL DEF DnsIInv
=============================================================================

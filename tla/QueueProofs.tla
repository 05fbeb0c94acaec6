---------------------------- MODULE QueueProofs ----------------------------
(* What push and pop of Queue do to a list, for any nodes. *)
EXTENDS Queue, FiniteSetTheorems, WellFoundedInduction, TLAPS

\* The nodes from a pointer on are those of the sequence q, in order.
Path(next, pointer, q) ==
    /\ q \in Seq(Nodes)
    /\ pointer = IF Len(q) = 0 THEN NULL ELSE q[1]
    /\ \A i \in 1..Len(q) : next[q[i]] = IF i = Len(q) THEN NULL ELSE q[i + 1]
    /\ \A i, j \in 1..Len(q) : q[i] = q[j] => i = j

\* The list's nodes, in order, are those of the sequence q.
Represents(list, next, q) ==
    /\ Path(next, list.head, q)
    /\ list.tail = IF Len(q) = 0 THEN NULL ELSE q[Len(q)]

-----------------------------------------------------------------------------
(* Paths *)

\* A set of natural numbers has a least one: what stands for induction here.
LEMMA Least ==
    ASSUME NEW T \in SUBSET Nat, T # {}
    PROVE  \E x \in T : \A y \in T : x <= y
  <1>1. IsWellFoundedOn(OpToRel(<, Nat), Nat)
    BY NatLessThanWellFounded
  <1>2. PICK x \in T : \A y \in T : ~(<<y, x>> \in OpToRel(<, Nat))
    BY <1>1, WFMin
  <1>3. ASSUME NEW y \in T PROVE x <= y
    <2>1. ~(<<y, x>> \in OpToRel(<, Nat)) BY <1>2
    <2>2. <<y, x>> \in Nat \X Nat OBVIOUS
    <2>3. ~(y < x) BY <2>1, <2>2 DEF OpToRel
    <2> QED BY <2>3
  <1> QED BY <1>3

LEMMA IntervalSize ==
    ASSUME NEW n \in Nat
    PROVE  Cardinality(1..n) = n /\ Cardinality(0..(n - 1)) = n
  <1>1. /\ Cardinality(1..n) = IF 1 > n THEN 0 ELSE n - 1 + 1
        /\ Cardinality(0..(n - 1)) = IF 0 > n - 1 THEN 0 ELSE n - 1 - 0 + 1
    <2>1. 1 \in Int /\ n \in Int /\ 0 \in Int /\ n - 1 \in Int OBVIOUS
    <2> QED BY <2>1, FS_Interval, Zenon
  <1> QED BY <1>1

\* A path is no longer than there are nodes.
LEMMA PathLength ==
    ASSUME NEW next, NEW pointer, NEW q, Path(next, pointer, q)
    PROVE  Len(q) \in Nat /\ Len(q) <= Cardinality(Nodes)
  <1>1. Len(q) \in Nat
    BY DEF Path
  <1>2. q \in Injection(1..Len(q), Nodes)
    BY DEF Path, Injection, IsInjective
  <1>3. Cardinality(1..Len(q)) = Len(q)
    BY <1>1, IntervalSize
  <1> QED BY <1>1, <1>2, <1>3, NodesAssumption, FS_Injection DEF ExistsInjection

\* Who follows the links of a list meets its nodes, each once, and then the end.
LEMMA PathChain ==
    ASSUME NEW next, NEW pointer, NEW q, Path(next, pointer, q)
    PROVE  Chain(next, pointer) = q
  <1> USE NodesAssumption
  <1> DEFINE N == Cardinality(Nodes)
             Eqn(h) == h = [k \in 0..N |->
                              IF k = 0 THEN pointer
                              ELSE IF h[k - 1] = NULL THEN NULL ELSE next[h[k - 1]]]
             hop == CHOOSE h : Eqn(h)
             w == [k \in 0..N |-> IF k < Len(q) THEN q[k + 1] ELSE NULL]
             met == {k \in 0..(N - 1) : hop[k] # NULL}
  <1>1. N \in Nat
    BY FS_CardinalityType
  <1>2. Len(q) \in Nat /\ Len(q) <= N
    BY PathLength
  <1>3. Eqn(w)
    <2> SUFFICES ASSUME NEW k \in 0..N
                 PROVE  w[k] = IF k = 0 THEN pointer
                              ELSE IF w[k - 1] = NULL THEN NULL ELSE next[w[k - 1]]
      OBVIOUS
    <2>1. CASE k = 0
      BY <1>2, <2>1 DEF Path
    <2>2. CASE k # 0 /\ k - 1 < Len(q)
      <3>1. k - 1 \in 0..N /\ k \in 1..Len(q) /\ w[k - 1] = q[k] /\ q[k] # NULL
        BY <1>1, <1>2, <2>2 DEF Path
      <3>2. next[q[k]] = IF k = Len(q) THEN NULL ELSE q[k + 1]
        BY <3>1 DEF Path
      <3> QED BY <1>1, <1>2, <2>2, <3>1, <3>2
    <2>3. CASE k # 0 /\ ~(k - 1 < Len(q))
      BY <1>1, <1>2, <2>3
    <2> QED BY <2>1, <2>2, <2>3
  <1>4. Eqn(hop)
    BY <1>3, Zenon
  <1> HIDE DEF hop, w, Eqn
  <1>5. \A k \in 0..N : hop[k] = w[k]
    <2> DEFINE T == {k \in 0..N : hop[k] # w[k]}
    <2> SUFFICES ASSUME T # {} PROVE FALSE
      OBVIOUS
    <2>1. PICK k \in T : \A y \in T : k <= y
      <3>1. T \in SUBSET Nat BY <1>1
      <3> HIDE DEF T
      <3> QED BY <3>1, Least
    <2>2. k \in 0..N OBVIOUS
    <2>3. k # 0 => k - 1 \in 0..N /\ hop[k - 1] = w[k - 1]
      BY <1>1, <2>1
    <2>4. hop[k] = w[k]
      BY <1>3, <1>4, <2>2, <2>3 DEF Eqn
    <2> QED BY <2>4
  <1>6. met = 0..(Len(q) - 1)
    BY <1>1, <1>2, <1>5 DEF w, Path
  <1>7. Cardinality(met) = Len(q)
    BY <1>2, <1>6, IntervalSize, Zenon
  <1>8. \A i \in 1..Len(q) : hop[i - 1] = q[i]
    BY <1>1, <1>2, <1>5 DEF w
  <1>9. Chain(next, pointer) = [i \in 1..Cardinality(met) |-> hop[i - 1]]
    BY DEF Chain, hop, Eqn
  <1>10. Chain(next, pointer) = [i \in 1..Len(q) |-> q[i]]
    BY <1>7, <1>8, <1>9
  <1> QED BY <1>2, <1>10 DEF Path

\* Links that are not of the path may change.
LEMMA PathKept ==
    ASSUME NEW next, NEW pointer, NEW q, Path(next, pointer, q),
           NEW other, \A i \in 1..Len(q) : other[q[i]] = next[q[i]]
    PROVE  Path(other, pointer, q)
  BY DEF Path

\* After its first node a path goes on with the others.
LEMMA PathTail ==
    ASSUME NEW next, NEW pointer, NEW q, Path(next, pointer, q), pointer # NULL
    PROVE  /\ q # << >> /\ pointer = q[1]
           /\ Path(next, next[pointer], Tail(q))
           /\ \A i \in 1..Len(Tail(q)) : Tail(q)[i] # pointer
  <1> DEFINE t == Tail(q)
  <1>1. Len(q) \in Nat /\ Len(q) # 0 /\ pointer = q[1] /\ q \in Seq(Nodes)
    BY DEF Path
  <1>2. /\ t \in Seq(Nodes) /\ Len(t) = Len(q) - 1 /\ Len(t) \in Nat
        /\ \A i \in 1..Len(t) : t[i] = q[i + 1]
    BY <1>1
  <1> HIDE DEF t
  <1>3. \A i \in 1..Len(t) : i + 1 \in 1..Len(q) /\ i + 1 # 1
    BY <1>1, <1>2
  <1>4. next[pointer] = IF Len(t) = 0 THEN NULL ELSE t[1]
    <2>1. 1 \in 1..Len(q) BY <1>1
    <2>2. next[q[1]] = IF 1 = Len(q) THEN NULL ELSE q[1 + 1] BY <2>1 DEF Path
    <2>3. Len(t) # 0 => t[1] = q[1 + 1] BY <1>2
    <2> QED BY <1>1, <1>2, <2>2, <2>3
  <1>5. ASSUME NEW i \in 1..Len(t) PROVE next[t[i]] = IF i = Len(t) THEN NULL ELSE t[i + 1]
    <2>1. i + 1 \in 1..Len(q) /\ (i + 1 = Len(q) <=> i = Len(t)) BY <1>2
    <2>2. next[q[i + 1]] = IF i + 1 = Len(q) THEN NULL ELSE q[(i + 1) + 1] BY <2>1 DEF Path
    <2>3. i # Len(t) => t[i + 1] = q[(i + 1) + 1] BY <1>2
    <2> QED BY <1>2, <2>1, <2>2, <2>3
  <1>6. ASSUME NEW i \in 1..Len(t), NEW j \in 1..Len(t), t[i] = t[j] PROVE i = j
    <2>1. i + 1 \in 1..Len(q) /\ j + 1 \in 1..Len(q) /\ q[i + 1] = q[j + 1] BY <1>2, <1>6
    <2>2. i + 1 = j + 1 BY <2>1 DEF Path
    <2> QED BY <2>2
  <1>7. \A i \in 1..Len(t) : t[i] # pointer
    <2> SUFFICES ASSUME NEW i \in 1..Len(t) PROVE t[i] # pointer
      OBVIOUS
    <2>1. i + 1 \in 1..Len(q) /\ 1 \in 1..Len(q) /\ i + 1 # 1 BY <1>2
    <2>2. q[i + 1] # q[1] BY <2>1 DEF Path
    <2> QED BY <1>1, <1>2, <2>2
  <1>8. Path(next, next[pointer], t)
    BY <1>2, <1>4, <1>5, <1>6 DEF Path
  <1>9. q # << >>
    BY <1>1
  <1> QED BY <1>1, <1>7, <1>8, <1>9 DEF t

-----------------------------------------------------------------------------
(* Lists *)

\* A list starts empty.
LEMMA EmptyRepresents ==
    ASSUME NEW next PROVE EmptyList \in Lists /\ Represents(EmptyList, next, << >>)
  BY DEF EmptyList, Lists, Pointers, Represents, Path

\* push appends a node that is not in the list.
LEMMA PushRepresents ==
    ASSUME NEW list \in Lists, NEW next \in Links, NEW q, Represents(list, next, q),
           NEW n \in Nodes, \A i \in 1..Len(q) : q[i] # n
    PROVE  /\ PushList(list, n) \in Lists
           /\ PushLinks(list, next, n) \in Links
           /\ Represents(PushList(list, n), PushLinks(list, next, n), Append(q, n))
  <1> USE NodesAssumption DEF Lists, Links, Pointers, Represents, Path
  <1> DEFINE r == Append(q, n)
             links == PushLinks(list, next, n)
  <1>1. /\ r \in Seq(Nodes) /\ Len(r) = Len(q) + 1 /\ r[Len(r)] = n
        /\ \A i \in 1..Len(q) : r[i] = q[i]
    OBVIOUS
  <1>2. PushList(list, n) \in Lists /\ links \in Links
    BY DEF PushList, PushLinks
  <1>3. PushList(list, n).head = r[1] /\ PushList(list, n).tail = r[Len(r)]
    BY <1>1 DEF PushList
  <1>4. ASSUME NEW i \in 1..Len(r) PROVE links[r[i]] = IF i = Len(r) THEN NULL ELSE r[i + 1]
    <2>1. CASE Len(q) = 0
      BY <1>1, <2>1 DEF PushLinks
    <2>2. CASE Len(q) # 0
      <3>1. Len(q) \in 1..Len(q) /\ list.tail = q[Len(q)] /\ q[Len(q)] \in Nodes
        BY <2>2
      <3>2. links = [[next EXCEPT ![n] = NULL] EXCEPT ![q[Len(q)]] = n]
        BY <3>1 DEF PushLinks
      <3>3. CASE i = Len(r)
        BY <1>1, <3>1, <3>2, <3>3
      <3>4. CASE i = Len(q)
        BY <1>1, <3>1, <3>2, <3>4
      <3>5. CASE i \in 1..(Len(q) - 1)
        <4>1. q[i] \in Nodes /\ q[i] # n /\ q[i] # q[Len(q)] BY <3>1, <3>5
        <4>2. links[q[i]] = next[q[i]] BY <3>1, <3>2, <4>1
        <4> QED BY <1>1, <3>5, <4>1, <4>2
      <3> QED BY <1>1, <3>3, <3>4, <3>5
    <2> QED BY <2>1, <2>2
  <1>5. \A i, j \in 1..Len(r) : r[i] = r[j] => i = j
    BY <1>1
  <1>6. Len(r) # 0 BY <1>1
  <1> QED BY <1>1, <1>2, <1>3, <1>4, <1>5, <1>6

\* push leaves other lists alone that share no node with this one.
LEMMA PushApart ==
    ASSUME NEW list \in Lists, NEW next \in Links, NEW q, Represents(list, next, q),
           NEW n \in Nodes,
           NEW other, NEW p, Represents(other, next, p),
           \A i \in 1..Len(p) : p[i] # n /\ \A j \in 1..Len(q) : p[i] # q[j]
    PROVE  Represents(other, PushLinks(list, next, n), p)
  <1> USE NodesAssumption DEF Lists, Links, Pointers, Represents, Path
  <1>1. ASSUME NEW i \in 1..Len(p) PROVE PushLinks(list, next, n)[p[i]] = next[p[i]]
    <2>1. p[i] \in Nodes /\ p[i] # n /\ p[i] # list.tail
      OBVIOUS
    <2> QED BY <2>1 DEF PushLinks
  <1> QED BY <1>1

\* pop takes the first node away, and leaves an empty list empty.
LEMMA PopRepresents ==
    ASSUME NEW list \in Lists, NEW next \in Links, NEW q, Represents(list, next, q)
    PROVE  /\ PopList(list, next) \in Lists
           /\ Len(q) = 0 => PopList(list, next) = list
           /\ Len(q) # 0 => Represents(PopList(list, next), next, Tail(q))
  <1> USE NodesAssumption DEF Lists, Links, Pointers, Represents, Path
  <1>1. PopList(list, next) \in Lists
    BY DEF PopList
  <1>2. Len(q) = 0 => PopList(list, next) = list
    BY DEF PopList
  <1>3. ASSUME Len(q) # 0 PROVE Represents(PopList(list, next), next, Tail(q))
    <2> DEFINE t == Tail(q)
               rest == PopList(list, next)
    <2>1. Len(q) \in Nat /\ list.head # NULL
      BY <1>3
    <2>2. Path(next, next[list.head], t)
      <3> HIDE DEF Represents, Path
      <3> QED BY <2>1, PathTail DEF Represents
    <2>3. /\ rest.head = next[list.head]
          /\ rest.tail = IF next[list.head] = NULL THEN NULL ELSE q[Len(q)]
      BY <1>3, <2>1 DEF PopList
    <2>4. /\ Len(t) \in Nat /\ Len(t) = Len(q) - 1
          /\ \A i \in 1..Len(t) : t[i] = q[i + 1]
      BY <1>3
    <2> HIDE DEF t, rest
    <2>5. Len(t) # 0 => t[Len(t)] = q[Len(q)]
      <3>1. Len(t) # 0 => Len(t) \in 1..Len(t) /\ Len(t) + 1 = Len(q) BY <2>1, <2>4
      <3> QED BY <2>4, <3>1
    <2>6. next[list.head] = NULL <=> Len(t) = 0
      <3>1. Len(t) # 0 => t[1] \in Nodes BY <2>2, <2>4
      <3> QED BY <2>2, <3>1
    <2> QED BY <2>2, <2>3, <2>5, <2>6 DEF t, rest
  <1> QED BY <1>1, <1>2, <1>3
=============================================================================

------------------------------- MODULE Queue -------------------------------
(***************************************************************************)
(* The intrusive list Queue of basics.h.  Its nodes live in the awaiters   *)
(* of suspended coroutines, so the links outlive their stay in the list:   *)
(* a popped node keeps its m_next, and two lists may share one node.       *)
(* A list is a record of the head and the tail pointer; the links of all   *)
(* nodes are a function of their own.  The debug counter queue_size, which *)
(* notify_all leaves wrong, is not kept.                                   *)
(***************************************************************************)
EXTENDS Integers, Sequences, FiniteSets

CONSTANTS Nodes, NULL

ASSUME NodesAssumption == IsFiniteSet(Nodes) /\ NULL \notin Nodes

Pointers == Nodes \cup {NULL}
Links == [Nodes -> Pointers]
Lists == [head : Pointers, tail : Pointers]

EmptyList == [head |-> NULL, tail |-> NULL]

\* push(node): the node ends the list, and the old tail points to it.
PushLinks(list, m_next, node) ==
    LET ended == [m_next EXCEPT ![node] = NULL]
    IN  IF list.tail = NULL THEN ended ELSE [ended EXCEPT ![list.tail] = node]

PushList(list, node) ==
    [head |-> IF list.tail = NULL THEN node ELSE list.head,
     tail |-> node]

\* Faulty variant: the tail stays when the list becomes empty.
PopListKeepingTail(list, m_next) ==
    IF list.head = NULL THEN list
    ELSE [list EXCEPT !.head = m_next[list.head]]

\* pop(): the popped node is list.head; its own link stays as it is.
PopList(list, m_next) ==
    IF list.head = NULL THEN list
    ELSE [head |-> m_next[list.head],
          tail |-> IF m_next[list.head] = NULL THEN NULL ELSE list.tail]

\* The nodes that are met by following the links from a pointer, no more of them
\* than there are nodes.
Chain(m_next, pointer) ==
    LET hop[k \in 0..Cardinality(Nodes)] ==
            IF k = 0 THEN pointer
            ELSE LET last == hop[k - 1] IN IF last = NULL THEN NULL ELSE m_next[last]
        met == {k \in 0..(Cardinality(Nodes) - 1) : hop[k] # NULL}
    IN  [i \in 1..Cardinality(met) |-> hop[i - 1]]
=============================================================================

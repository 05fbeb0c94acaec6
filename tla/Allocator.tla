----------------------------- MODULE Allocator -----------------------------
(***************************************************************************)
(* What a memory resource promises: memory that is aligned as asked and    *)
(* that nobody else holds, until it is given back.                         *)
(***************************************************************************)
EXTENDS Integers

VARIABLE live  \* the allocations in use: address, size and alignment

Apart(a, b) == a.mem + a.size <= b.mem \/ b.mem + b.size <= a.mem

Init == live = {}

Allocate ==
    \E b \in live' :
        /\ live = live' \ {b}
        /\ b.mem % b.align = 0
        /\ \A c \in live : Apart(b, c)

Free == \E b \in live : live' = live \ {b}

Spec == Init /\ [][Allocate \/ Free]_live
=============================================================================

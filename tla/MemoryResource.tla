--------------------------- MODULE MemoryResource ---------------------------
(***************************************************************************)
(* The memory resources of memory_pool.h under a program that allocates    *)
(* and frees: PoolResource (PoolImpl), FixPoolResource (Pool), and the     *)
(* StackfulPool that keeps frames of coroutines.  Init chooses which.      *)
(* None of them is shared by threads.                                      *)
(*                                                                         *)
(* A program frees what it allocated, with the size it asked for; the      *)
(* frames on a StackfulPool end in the reverse order.  Programs are told   *)
(* apart by the sizes and alignments they ask for: some make the resources *)
(* go wrong.  Then `defined` is false and nothing is said of what follows. *)
(***************************************************************************)
EXTENDS PoolImpl, Pool, StackfulPool, FiniteSets

CONSTANTS Programs,  \* for each resource, what its programs ask it for: sets of pairs
                     \* of a size and an alignment
          MaxLive    \* bounds the blocks in use at a time

VARIABLES resource, impl, \* which resource, and its state
          requests,       \* what the program asks it for
          live,           \* the allocations in use
          defined         \* no operation did what C++ leaves undefined

vars == <<resource, requests, impl, live, defined>>

Resources == {"PoolResource", "FixPoolResource", "StackfulPool"}

Alignments == {1, 2, 4, 8, 16}   \* what malloc provides for

\* Sizes and alignments are those of objects, and the nodes of a FixPoolResource are
\* large enough for what they are used for.
ASSUME RequestsAssumption ==
    /\ Programs \in [Resources -> SUBSET SUBSET ((Nat \ {0}) \X (Nat \ {0}))]
    /\ \A kind \in Resources : \A program \in Programs[kind] : \A r \in program :
           /\ r[2] \in Alignments \/ r[2] % max_align = 0
           /\ kind = "FixPoolResource" => r[1] <= m_block_size

Block(mem, size, align) == [mem |-> mem, size |-> size, align |-> align]

Init ==
    /\ resource \in Resources
    /\ impl = CASE resource = "PoolResource" -> EmptyPool
                [] resource = "FixPoolResource" -> EmptyFixPool
                [] resource = "StackfulPool" -> EmptyStack
    /\ requests \in Programs[resource]
    /\ live = {}
    /\ defined = TRUE

\* What all small blocks of a PoolResource are aligned to.  One that is used whole is
\* aligned as the blocks around it, whatever was asked for.
Grain == IF \A r \in requests : Large(r[1], r[2]) \/ r[2] % max_align = 0 THEN 16 ELSE 8

\* How a resource aligns a block that was asked for: not always as asked.
Promised(b) ==
    CASE resource = "PoolResource" /\ ~Large(b.size, b.align) /\ b.align > Grain -> Grain
      [] resource = "FixPoolResource" /\ (b.align > max_align \/ m_block_size % b.align # 0) -> 1
      [] OTHER -> b.align

Given == {[b EXCEPT !.align = Promised(b)] : b \in live}

Abstract == INSTANCE Allocator WITH live <- Given

Allocated(block, pool) ==
    /\ impl' = pool
    /\ live' = live \cup {block}
    /\ UNCHANGED defined

Undefined == defined' = FALSE /\ UNCHANGED <<impl, live>>

\* ::aligned_alloc, which keeps below the pool's chunks here.
MallocAt(i) == -i * block_size(k_max_order)
AllocateLarge(size, align) ==
    \E i \in 1..MaxLive :
        LET block == Block(MallocAt(i), size, align)
        IN  /\ block.mem % align = 0 /\ block.mem + size <= 0
            /\ \A b \in live : Abstract!Apart(block, b)
            /\ Allocated(block, impl)

\* PoolResource::do_allocate
AllocatePool(size, align) ==
    /\ resource = "PoolResource"
    /\ \/ /\ Large(size, align)
          /\ AllocateLarge(size, align)
       \/ /\ ~Large(size, align)
          /\ \E garbage \in BOOLEAN :
                LET r == alloc(impl, size, align, garbage)
                IN  IF r.defined THEN Allocated(Block(r.mem, size, align), r.pool) ELSE Undefined

\* FixPoolResource::do_allocate: size and alignment are those of the pool.
AllocateFixed(size, align) ==
    /\ resource = "FixPoolResource"
    /\ \/ Declines(impl) /\ UNCHANGED <<impl, live, defined>>
       \/ /\ Serves(impl)
          /\ LET r == fix_alloc(impl) IN Allocated(Block(r.mem, size, align), r.pool)

AllocateStackful(size, align) ==
    /\ resource = "StackfulPool"
    /\ LET r == allocate(impl, size, align)
       IN  /\ r.guarded
          /\ IF r.defined THEN Allocated(Block(r.mem, size, align), r.pool) ELSE Undefined

do_allocate(size, align) ==
    /\ Cardinality(live) < MaxLive
    /\ AllocatePool(size, align) \/ AllocateFixed(size, align) \/ AllocateStackful(size, align)
    /\ UNCHANGED <<resource, requests>>

Freed(b, pool) == impl' = pool /\ live' = live \ {b} /\ UNCHANGED defined

FreePool(b) ==
    /\ resource = "PoolResource"
    /\ \/ Large(b.size, b.align) /\ Freed(b, impl)
       \/ /\ ~Large(b.size, b.align)
          /\ IF Ends(impl, b.mem) THEN Undefined ELSE Freed(b, free(impl, b.mem))

do_deallocate(b) ==
    /\ \/ FreePool(b)
       \/ resource = "FixPoolResource" /\ Freed(b, fix_free(impl, b.mem))
       \/ /\ resource = "StackfulPool" /\ \A c \in live : b.mem <= c.mem
          /\ Freed(b, deallocate(impl, b.mem, b.size, b.align))
    /\ UNCHANGED <<resource, requests>>

Next ==
    /\ defined
    /\ \/ \E r \in requests : do_allocate(r[1], r[2])
       \/ \E b \in live : do_deallocate(b)

Spec == Init /\ [][Next]_vars

-----------------------------------------------------------------------------
(* Properties *)

\* Whatever a program asks for and in whatever order it frees, as long as no operation
\* was undefined: blocks that were split, merged and recycled never overlap, are as large
\* as asked, and are aligned as Promised.
ImplementsAllocator == Abstract!Spec

\* No block of a PoolResource that is listed for a request of this size is too small.
Fits(size, align) ==
    \A s \in BlockSize..block_size(k_max_order) :
        s % align = 0 /\ block_order(s) >= block_order(Memory(size) + align)
        => s >= HeaderSize + Memory(size)

\* What the code requires of a program and does not say: that a PoolResource is always
\* asked for the same alignment and for sizes that fit, and that an over-aligned frame
\* leaves room for the saved base.  And of malloc: that what it left behind a chunk does
\* not read as a free block.
WellUsed ==
    CASE resource = "PoolResource" ->
            /\ impl.unwritten = {}
            /\ \E align \in {8, 16} : \A r \in requests :
                  Large(r[1], r[2]) \/ (Alignment(r[2]) = align /\ Fits(r[1], align))
      [] resource = "FixPoolResource" -> TRUE
      [] resource = "StackfulPool" ->
            \A r \in requests : r[2] > max_align => (r[1] - 1) % max_align < WordSize

\* Used like this no sequence of allocations and frees makes a resource go wrong: break_
\* is never given a block that is too small (its assertion holds), free never goes on
\* into what is not a block, and the old base is saved inside of the stack.
StaysDefined == WellUsed => defined

\* The words a resource keeps in its memory: tags and links of free blocks, links of
\* free nodes, the saved bases.
Words ==
    CASE resource = "PoolResource" ->
            {[mem |-> b, size |-> HeaderSize] : b \in DOMAIN impl.m_size}
            \cup {[mem |-> b + HeaderSize, size |-> BlockSize - HeaderSize] :
                     b \in {c \in DOMAIN impl.m_size : impl.m_size[c].free}}
      [] resource = "FixPoolResource" ->
            {[mem |-> impl.m_head[i], size |-> NodeSize] : i \in DOMAIN impl.m_head}
      [] resource = "StackfulPool" -> {[mem |-> s.slot, size |-> WordSize] : s \in impl.saved}

\* No resource keeps two words in the same place, or one in memory that somebody holds.
BookkeepingApart ==
    \A w \in Words :
        /\ \A b \in live : Abstract!Apart(w, b)
        /\ \A x \in Words \ {w} : Abstract!Apart(w, x)

\* The blocks of the pool's chunks: each starts where its predecessor ends, both copies
\* of its tag say how long it is, under which order it is listed and whether it is free,
\* and two neighbours are never both free.
TagsExact ==
    resource = "PoolResource" =>
        /\ \A i \in 1..impl.m_chuncks :
              {FirstBlock(i), ChunkEnd(i)} \subseteq DOMAIN impl.m_size
        /\ \A b \in DOMAIN impl.m_size :
              LET tag == impl.m_size[b]
                  prev == impl.m_prev_size[b]
              IN  /\ tag.size > 0 => /\ b + tag.size \in DOMAIN impl.m_size
                                     /\ impl.m_prev_size[b + tag.size] = tag
                                     /\ tag.order = block_order(tag.size)
                                     /\ block_size(tag.order) >= tag.size
                                     /\ tag.free <=> \A l \in live : l.mem # b + HeaderSize
                  /\ prev.size > 0 => impl.m_size[b - prev.size] = prev
                  /\ ~(tag.free /\ prev.free)

\* The free lists hold the free blocks, each once and under its order, the flags say
\* which lists are not empty, and the destructor finds whole chunks only once
\* everything is freed.
FreeListsExact ==
    resource = "PoolResource" =>
        /\ \A order \in 0..k_max_order :
              /\ Range(impl.m_free[order]) =
                    {b \in DOMAIN impl.m_size : impl.m_size[b].free /\ impl.m_size[b].order = order}
              /\ IsInjective(impl.m_free[order])
              /\ order \in impl.m_free_flags <=> impl.m_free[order] # << >>
        /\ live = {} => \A order \in 0..k_max_order - 1 : impl.m_free[order] = << >>
=============================================================================

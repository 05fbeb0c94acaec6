---------------------------- MODULE StackfulPool ----------------------------
(***************************************************************************)
(* StackfulPool of memory_pool.h: coroutine frames on a stack that grows   *)
(* down from m_base to m_guard, which is address 0 here.  What is aligned  *)
(* more than malloc would is freed with the help of the old m_base, kept   *)
(* behind the block.                                                       *)
(***************************************************************************)
EXTENDS Integers

CONSTANTS StackSize

ASSUME StackAssumption == StackSize \in Nat /\ StackSize % 16 = 0

max_align == 16   \* alignof(std::max_align_t)
WordSize == 8     \* sizeof(std::size_t)

up_round(bytes, align) == bytes + ((-bytes) % align)
down_round(address, align) == address - (address % align)

EmptyStack == [m_base |-> StackSize, saved |-> {}]

\* Where the old m_base is kept for a block.
SlotOf(mem, bytes) == mem + up_round(bytes, WordSize)

OverAligned(pool, bytes, align) ==
    LET aligned == down_round(pool.m_base - bytes, align)
        tight == /\ up_round(bytes, WordSize) = up_round(bytes, align)
                 /\ pool.m_base - aligned < WordSize
        base == IF tight THEN aligned - align ELSE aligned
    IN  [mem |-> base, guarded |-> aligned >= 0,
         defined |-> base >= 0 /\ SlotOf(base, bytes) + WordSize <= pool.m_base,
         pool |-> [m_base |-> base,
                   saved |-> pool.saved \cup {[slot |-> SlotOf(base, bytes), base |-> pool.m_base]}]]

\* Faulty variant: the size is not rounded up to the alignment of the next block.
allocate_packed(pool, bytes, align) ==
    IF align > max_align THEN OverAligned(pool, bytes, align)
    ELSE LET base == pool.m_base - bytes
         IN  [mem |-> base, guarded |-> base >= 0, defined |-> TRUE,
             pool |-> [pool EXCEPT !.m_base = base]]

\* `guarded` is false when the code throws bad_alloc instead; `defined` is false when the
\* old m_base is written outside of the space between the new m_base and the old one:
\* the test for that room forgets the size of the block.
allocate(pool, bytes, align) ==
    IF align > max_align THEN OverAligned(pool, bytes, align)
    ELSE LET base == pool.m_base - up_round(bytes, max_align)
         IN  [mem |-> base, guarded |-> base >= 0, defined |-> TRUE,
             pool |-> [pool EXCEPT !.m_base = base]]

deallocate(pool, mem, bytes, align) ==
    IF align > max_align
    THEN LET word == CHOOSE s \in pool.saved : s.slot = SlotOf(mem, bytes)
         IN  [m_base |-> word.base, saved |-> pool.saved \ {word}]
    ELSE [pool EXCEPT !.m_base = mem + up_round(bytes, max_align)]
=============================================================================

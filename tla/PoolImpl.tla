------------------------------ MODULE PoolImpl ------------------------------
(***************************************************************************)
(* PoolImpl of memory_pool.h: an allocator with boundary tags and one list *)
(* of free blocks for each order, four orders to a power of two.           *)
(*                                                                         *)
(* A pool is a record, an operation maps a pool to a pool.  Addresses and  *)
(* sizes are in bytes.  m_size and m_prev_size hold the two words in front *)
(* of each block, for the addresses where a block starts now or a chunk    *)
(* ends; what they were inside a merged block is nobody's business.        *)
(*                                                                         *)
(* The word m_size at the end of a chunk is never written, yet free reads  *)
(* it when the last block is freed.  NoBlock stands there for the end of   *)
(* the chunk; where what malloc left reads as a free block, the end is in  *)
(* `unwritten`, and an operation that would go on from there is undefined. *)
(*                                                                         *)
(* The code has 48 orders, chunks of 2^15 bytes and leaves what exceeds    *)
(* order 44 to malloc; the constants scale that down.                      *)
(***************************************************************************)
EXTENDS Integers, Sequences, SequencesExt

CONSTANTS k_max_order, k_malloc_order

ASSUME OrdersAssumption == /\ k_max_order \in Nat /\ k_max_order % 4 = 0
                           /\ k_malloc_order \in 8..k_max_order

HeaderSize == 8   \* m_prev_size and m_size
BlockSize == 24   \* sizeof(PoolBlock): the header and the links of a free block

\* 2 ^ n, as a function since the provers know nothing of ^.
Power[n \in Nat] == IF n = 0 THEN 1 ELSE 2 * Power[n - 1]

block_size(order) ==
    LET power == Power[order \div 4 + 3] IN power + (order % 4) * (power \div 4)

\* The leading binary digit and the two behind it, rounded up.
block_order(size) ==
    LET digits == CHOOSE d \in 3..(k_max_order \div 4 + 3) :
                      Power[d] <= size /\ size < Power[d + 1]
        shift == digits - 2
        unit == Power[shift]
    IN  (shift - 1) * 4 + ((size \div unit) % 4) + (IF size % unit = 0 THEN 0 ELSE 1)

Tag(size, order, free) == [size |-> size, order |-> order, free |-> free]
NoBlock == Tag(0, 0, FALSE)

Put(f, a, v) == [x \in DOMAIN f \cup {a} |-> IF x = a THEN v ELSE f[x]]

\* The two copies of a block's tag: its own, and the one its successor keeps.
SetTag(pool, block, next, tag) ==
    [pool EXCEPT !.m_size = Put(@, block, tag), !.m_prev_size = Put(@, next, tag)]

Forget(pool, block) ==
    [pool EXCEPT !.m_size = Restrict(@, DOMAIN @ \ {block}),
                 !.m_prev_size = Restrict(@, DOMAIN @ \ {block})]

EmptyPool == [m_size |-> << >>, m_prev_size |-> << >>, m_chuncks |-> 0, unwritten |-> {},
              m_free_flags |-> {}, m_free |-> [order \in 0..k_max_order |-> << >>]]

-----------------------------------------------------------------------------
(* Lists of free blocks.  A block is linked after the head. *)

add_free_block(pool, block, order) ==
    [pool EXCEPT !.m_free[order] = <<block>> \o @, !.m_free_flags = @ \cup {order}]

Without(list, block) == RemoveAt(list, CHOOSE i \in DOMAIN list : list[i] = block)

\* Faulty variant: the flag stays when the list becomes empty.
remove_free_block_flagged(pool, block, order) ==
    [pool EXCEPT !.m_free[order] = Without(@, block)]

remove_free_block(pool, block, order) ==
    LET left == Without(pool.m_free[order], block)
    IN  [pool EXCEPT !.m_free[order] = left,
                     !.m_free_flags = IF left = << >> THEN @ \ {order} ELSE @]

\* change_block_size, without and with another start: the block listed as `listed`
\* becomes the free block that starts at block and ends at next.
MoveBlock(pool, listed, block, next) ==
    LET old == pool.m_size[listed].order
        order == block_order(next - block)
        removed == remove_free_block(pool, listed, old)
        moved == IF listed = block THEN removed ELSE Forget(removed, listed)
    IN  SetTag(IF listed = block /\ old = order THEN pool
               ELSE add_free_block(moved, block, order),
               block, next, Tag(next - block, order, TRUE))

-----------------------------------------------------------------------------
(* Allocation *)

ChunkAt(i) == i * (block_size(k_max_order) + 4 * BlockSize)
FirstBlock(i) == ChunkAt(i) + BlockSize
ChunkEnd(i) == FirstBlock(i) + block_size(k_max_order)

\* A chunk from malloc is one free block.  The tag behind it is to say that nothing
\* free follows, but the code writes it BlockSize too low: into the block that is free
\* now, where it is never read.  `garbage` is how the word that free reads instead
\* happens to be: as that of a free block, or not.
add_chunk(pool, garbage) ==
    LET i == pool.m_chuncks + 1
        tagged == SetTag(pool, FirstBlock(i), ChunkEnd(i),
                         Tag(block_size(k_max_order), k_max_order, TRUE))
        bordered == SetTag(tagged, ChunkEnd(i), FirstBlock(i), NoBlock)
        ended == [bordered EXCEPT !.m_chuncks = i,
                                  !.unwritten = IF garbage THEN @ \cup {ChunkEnd(i)} ELSE @]
    IN  add_free_block(ended, FirstBlock(i), k_max_order)

\* Faulty variant: the rest of the block is kept free however small it is.
break_always(pool, block, size, align) ==
    LET old == pool.m_size[block]
        mem == block + old.size - size + HeaderSize
        block2 == mem - (mem % align) - HeaderSize
        next == block + old.size
    IN  [mem |-> block2 + HeaderSize, defined |-> block <= block2,
         pool |-> IF block2 = block
                  THEN SetTag(remove_free_block(pool, block, old.order), block, next,
                              [old EXCEPT !.free = FALSE])
                  ELSE SetTag(MoveBlock(pool, block, block, block2), block2, next,
                              Tag(next - block2, block_order(next - block2), FALSE))]

\* The end of the block, or all of it if the rest could not hold a free block.  A block
\* that is too small fails the assertion on its size, or makes the rest negative, which
\* is a huge number in the code; nothing is said of what follows.
break_(pool, block, size, align) ==
    LET old == pool.m_size[block]
        mem == block + old.size - size + HeaderSize
        block2 == mem - (mem % align) - HeaderSize
        next == block + old.size
    IN  IF block2 - block < BlockSize
        THEN [mem |-> block + HeaderSize, defined |-> block <= block2,
              pool |-> SetTag(remove_free_block(pool, block, old.order), block, next,
                              [old EXCEPT !.free = FALSE])]
        ELSE [mem |-> block2 + HeaderSize, defined |-> TRUE,
              pool |-> SetTag(MoveBlock(pool, block, block, block2), block2, next,
                              Tag(next - block2, block_order(next - block2), FALSE))]

AtLeast(a, b) == IF a < b THEN b ELSE a
Memory(size) == AtLeast(size, 16)
Alignment(align) == AtLeast(8, align)

\* What ::aligned_alloc and ::free are called for.
Large(size, align) == Memory(size) + Alignment(align) >= block_size(k_malloc_order)

\* Faulty variant: a block that is as large as asked may be too small once it is aligned.
Fitting_unaligned(pool, size, align) ==
    {order \in pool.m_free_flags : order >= block_order(Memory(size))}

Fitting(pool, size, align) ==
    {order \in pool.m_free_flags : order >= block_order(Memory(size) + Alignment(align))}

\* alloc of a size that is not Large: the first block of the first list that fits.
alloc(pool, size, align, garbage) ==
    LET stocked == IF Fitting(pool, size, align) = {} THEN add_chunk(pool, garbage) ELSE pool
        order == CHOOSE o \in Fitting(stocked, size, align) :
                     \A p \in Fitting(stocked, size, align) : o <= p
    IN  break_(stocked, Head(stocked.m_free[order]), HeaderSize + Memory(size), Alignment(align))

\* Faulty variant: a free block in front is not merged.
free_forward(pool, mem) ==
    LET cur == mem - HeaderSize
        next == cur + pool.m_size[cur].size
    IN  IF pool.m_size[next].free
        THEN MoveBlock(pool, next, cur, next + pool.m_size[next].size)
        ELSE add_free_block(SetTag(pool, cur, next, [pool.m_size[cur] EXCEPT !.free = TRUE]),
                            cur, pool.m_size[cur].order)

\* free goes on from the word behind the block.
Ends(pool, mem) == mem - HeaderSize + pool.m_size[mem - HeaderSize].size \in pool.unwritten

\* free of a size that is not Large: merge with the free neighbours.
free(pool, mem) ==
    LET cur == mem - HeaderSize
        next == cur + pool.m_size[cur].size
        prev == cur - pool.m_prev_size[cur].size
        nn == next + pool.m_size[next].size
        prev_free == pool.m_prev_size[cur].free
        next_free == pool.m_size[next].free
        alone == Forget(remove_free_block(pool, next, pool.m_size[next].order), next)
    IN  CASE prev_free /\ next_free -> MoveBlock(Forget(alone, cur), prev, prev, nn)
          [] prev_free /\ ~next_free -> MoveBlock(Forget(pool, cur), prev, prev, next)
          [] ~prev_free /\ next_free -> MoveBlock(pool, next, cur, nn)
          [] OTHER -> add_free_block(SetTag(pool, cur, next, [pool.m_size[cur] EXCEPT !.free = TRUE]),
                                     cur, pool.m_size[cur].order)
=============================================================================

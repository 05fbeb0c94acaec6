------------------------------- MODULE Pool -------------------------------
(***************************************************************************)
(* Pool of memory_pool.h: blocks of one size from chunks of malloc, the    *)
(* free ones in a list.  A pool is a record, an operation maps it.         *)
(***************************************************************************)
EXTENDS Integers, Sequences

CONSTANTS m_block_size, m_block_per_chunk

ASSUME PoolAssumption == /\ m_block_size \in Nat /\ m_block_size >= 8
                         /\ m_block_per_chunk \in Nat

NodeSize == 8

\* malloc returns multiples of 16.
PoolChunkAt(i) == i * 16 * (m_block_size * m_block_per_chunk)

EmptyFixPool == [m_head |-> << >>, m_chunks |-> 0]

\* The blocks of a new chunk in the order in which they are linked.
new_chunk(pool) ==
    LET i == pool.m_chunks + 1
    IN  [m_head |-> [j \in 1..m_block_per_chunk |-> PoolChunkAt(i) + (j - 1) * m_block_size],
         m_chunks |-> i]

\* nullptr, and nothing is changed: malloc fails, or a chunk would hold nothing.
Declines(pool) == pool.m_head = << >>

\* A node, of the list or of a new chunk.
Serves(pool) == pool.m_head # << >> \/ m_block_per_chunk > 0

fix_alloc(pool) ==
    LET stocked == IF pool.m_head = << >> THEN new_chunk(pool) ELSE pool
    IN  [mem |-> Head(stocked.m_head), pool |-> [stocked EXCEPT !.m_head = Tail(@)]]

fix_free(pool, mem) == [pool EXCEPT !.m_head = <<mem>> \o @]
=============================================================================

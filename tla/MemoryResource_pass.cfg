CONSTANTS
    k_max_order = 20
    k_malloc_order = 18
    m_block_size = 24
    m_block_per_chunk = 2
    StackSize = 160
    MaxLive = 3
    Programs <- MCPrograms
SPECIFICATION Spec
INVARIANTS BookkeepingApart TagsExact FreeListsExact StaysDefined
PROPERTIES ImplementsAllocator
CHECK_DEADLOCK FALSE

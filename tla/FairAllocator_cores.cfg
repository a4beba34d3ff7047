CONSTANTS
    TotalPages = 5
    NumProcs = 2
    MinFreePages = 3
    Controllers = {m1}
SPECIFICATION FairSpec
INVARIANTS
    PoolsPartitionBlocks
    EvictionAssertionsHold
    AllocationFindsBlock
PROPERTIES
    AllocationTerminates
CHECK_DEADLOCK FALSE

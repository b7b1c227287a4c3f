CONSTANTS
    Precolored <- MCPrecolored
    Phys <- MCPhys
    K = 2
    Infinite = 999
    MaxRounds = 4
    Depths = {0, 4}
    Programs <- MCPrograms
    MaxParts = 3
SPECIFICATION FairSpec
INVARIANTS ListsConsistent SameValues ConservativeCoalescing
PROPERTIES AllocationEnds
CHECK_DEADLOCK FALSE

\* Three threads; the most urgent one enters again what it owns.
CONSTANTS
    low = low
    mid = mid
    high = high
    idle = idle
    Threads = {low, mid, high}
    ThreadList <- ThreeList
    BasePriority <- Priorities
    Ceiling = 9
    MaxDepth <- OnlyHighTwice
SPECIFICATION Spec
INVARIANTS MutualExclusion NoOrphanedWaiter PriorityRestored

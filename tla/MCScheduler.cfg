\* Three threads, two of the same priority, that wake up by time only.
CONSTANTS
    low = low
    low2 = low2
    high = high
    idle = idle
    threadList <- ThreeThreads
    idlethread = idle
    BasePriority <- Priorities
    Ceiling = 9
    TimeSlice = 4
    Spacing = 1
    Wakeup = 1
    Micro = 1
    EventPeriod = 6
    EndOfTime = 50
    Delays = {5}
    Scoped = {}
    Resumable = {}
    MayOverflow = {}
    MaxTime = 10
SPECIFICATION Spec
INVARIANTS WakeUpOnTime TakeTurns

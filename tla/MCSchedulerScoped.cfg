\* Ceiling scopes, resume from interrupts and a stack overflow.
CONSTANTS
    low = low
    low2 = low2
    high = high
    idle = idle
    threadList <- TwoThreads
    idlethread = idle
    BasePriority <- PrioritiesLowHigh
    Ceiling = 9
    TimeSlice = 3
    Spacing = 1
    Wakeup = 1
    Micro = 1
    EventPeriod = 20
    EndOfTime = 50
    Delays = {2}
    Scoped = {low}
    Resumable = {high}
    MayOverflow = {low}
    MaxTime = 8
SPECIFICATION Spec
INVARIANTS NoEarlyReturn SelectedMayRun LockReleased WakeUpWithinSlice

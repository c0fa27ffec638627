CONSTANTS
\* Four slots would only repeat what three show; the error counters wrap at 2.
    Val = {a, b}
    FifoLen = 3
    UInt32 = 2
    NumReaders = 2
    MaxPuts = 4
    PutsInGet = 1
    GetsInPut = 1
\* A periodic thread that also reads and writes; a time event resumes it.
    EndOfTime = 100
    EventTimes = {2, 4}
    EventPeriods = {2}
    t1 = t1
    none = none
    Threads = {t1}
    Readers = {t1}
    data = data
    written = written
    Events = {data, written}
    Resumed = t1
    Begins = {3}
    Periods = {2}
    Timeouts = {2}
    MaxTime = 7
SPECIFICATION MCSpec
INVARIANTS NoSlotRace NewerOrCounted NoExtraCall BeatsOnGrid NextBeatIsNext NoLostWakeUp
PROPERTY ImplementsQueue

\* Each object alone.
CONSTANTS
    writer = writer
    reader = reader
    idle = idle
    Threads = {writer, reader}
    ThreadList <- TwoThreads
    Ceiling = 9
    Priorities = {1, 2}
    Capacity = 2
    SeqMod = 4
    BufferMod = 3
    Programs <- EachAlone
SPECIFICATION Spec
INVARIANTS NoMissedWakeUp StoredOnce BufferWakesUp LatestSeen OwnerWaits SignalsAgree
PROPERTY EventuallyServed

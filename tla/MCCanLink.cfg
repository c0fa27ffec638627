\* Three buffers, so that they run out.
CONSTANTS
    x = x
    y = y
    Senders = {x, y}
    Messages = 2
    Frames <- Lengths
    CAN_MSG_BUFFER_SIZE = 3
    MaxFaults = 2
    Bus = 2
SPECIFICATION Spec
INVARIANTS BuffersConserved OnlyDamagedMixed
PROPERTY AllReceived

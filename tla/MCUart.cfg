\* A ring of four slots: blocks of one and more bytes, which end at its end.
\* A thread that waits for ever, as WriterWakesUp describes, is a deadlock.
CONSTANTS
    Byte = {a, b}
    Zero = a
    None = None
    FifoLen = 4
    MaxWrite = 2
    MaxRead = 2
    DMAMaxReceiveSize = 2
    UInt = 2
    Programs <- EachSide
SPECIFICATION Spec
PROPERTIES SentInOrder WriterWakesUp ReceivedInOrder ReaderWakesUp
CHECK_DEADLOCK FALSE

\* Node a publishes two messages, b and d one report each, or there are two
\* messages and one fault.  Three senders are too many for c.  The longest
\* way, from a over b and c to d, has as many steps as are allowed.
CONSTANTS
    a = a
    b = b
    c = c
    d = d
    Nodes = {a, b, c, d}
    Attached <- TriangleAndTail
    Broadcast = {"bc"}
    ForwardAll <- OfA
    Enabled <- Reporting
    Routers = {a, b, c}
    ForwardReports = FALSE
    Wanted = {1}
    Manual <- ToTail
    MaxSteps = 3
    Window = 1
    TableSize = 2
    MaxTime <- Times
    MaxFaults = 1
    Program <- Topics
SPECIFICATION MCSpec
INVARIANTS AtMostOnce DropsJustified HeldOnlyWhenFull
PROPERTY NewestArrives
CHECK_DEADLOCK FALSE

\* The periods of the code, in seconds.
CONSTANTS
    x = x
    y = y
    NodeList <- TwoNodes
    Subscribed = {x, y}
    Period = 3
    First = 1
    VeryOld = 10
    MaxDelay = 1
    MaxLost = 3
    MaxFailures = 2
SPECIFICATION RegisterSpec
INVARIANTS KeptWhileReporting
PROPERTIES ForgetsDead KnowsLive

\* At most two puts overlap the copying of one get.
CONSTANTS
    MaxPuts = 6
    MaxOverlap = 2
SPECIFICATION Spec
INVARIANTS Consistent NewDataNotLost
PROPERTY ImplementsLatestValue

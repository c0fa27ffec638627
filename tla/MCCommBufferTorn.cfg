\* A third put may overlap the copying of one get.
CONSTANTS
    MaxPuts = 4
    MaxOverlap = 3
SPECIFICATION Spec
INVARIANT Consistent

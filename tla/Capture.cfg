SPECIFICATION Spec
CONSTANTS
    Cpus = {0, 1}
    RingSize = 2
    MaxWrites = 6
    MaxBreaks = 3
INVARIANTS
    Accounted
    SentInOrder
PROPERTY CapturedIsSent

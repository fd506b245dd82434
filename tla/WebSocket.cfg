SPECIFICATION Spec
CONSTANTS
    MaxSockets = 5
    MaxMessages = 3
    MaxSends = 3
INVARIANTS
    OneConnection
    ReceivedInOrder
    WrittenInOrder
PROPERTY
    KeepsTrying
CHECK_DEADLOCK FALSE

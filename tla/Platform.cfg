SPECIFICATION Spec
CONSTANTS
    f = f
    g = g
    t = t
    u = u
    Values <- MCValues
    Effects <- MCEffects
    Subscriptions <- MCSubscriptions
    Callbacks = {"display", "other"}
    Display = "display"
    CmdBags <- MCCmdBags
    SubBags <- MCSubBags
    MaxUpdates = 2
    MaxSends = 2
    MaxChanges = 1
INVARIANTS
    DisplayGetsAll
    SentInOrder
    SubsFollowModel
PROPERTY
    SentIsHandled
CHECK_DEADLOCK FALSE

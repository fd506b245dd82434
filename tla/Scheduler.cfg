SPECIFICATION FairSpec
CONSTANTS
    MaxSteps = 4
    MaxProcs = 4
    MaxExternal = 3
    Values <- MCValues
    Callbacks <- MCCallbacks
    Tasks <- MCTasks
    Apply <- MCApply
    InitTasks <- MCInitTasks
    External <- MCExternal
    NoTask <- MCNoTask
    start = start
    stop = stop
    ping = ping
    fail = fail
    woke = woke
    pong = pong
    spin = spin
    error = error
INVARIANTS
    NoLostWakeup
    MailInOrder
PROPERTIES
    KilledStaysDead
    MailIsHandled
CHECK_DEADLOCK FALSE

SPECIFICATION FairSpec
CONSTANTS
    None = None
    QueueSize = 1
    ReplaySize = 3
    ClientQueue = 1
    WireSize = 2
    MaxEvents = 4
    MaxDrops = 2
    MaxCloses = 1
CHECK_DEADLOCK FALSE
INVARIANT
    HandledOnce
PROPERTY
    EventsArrive

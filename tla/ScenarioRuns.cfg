SPECIFICATION RunsSpec
CONSTANTS
    a = a
    b = b
    Scenarios = {a, b}
    Triggers = {t1, t2, t3}
    Null = Null
    QueueLimit = 1
    InitialModes <- SomeModes
    MaxEdits = 1
    MaxCuts = 1
INVARIANTS
    RunsTypeOK
    RunsAlone
    ClosedIsQuiet
    NobodyStuck
PROPERTY
    StopStartsNothing
CHECK_DEADLOCK FALSE

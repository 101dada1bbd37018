SPECIFICATION FairSpec
CONSTANTS
    Requests = {r1, r2}
    Nothing = Nothing
    MaxObjects = 2
    MaxUnloads = 1
    MaxFailures = 1
    MaxDamage = 1
    Absent = Absent
    Invalid = Invalid
    Corrupt = Corrupt
INVARIANTS
    TypeOK
    RelayCovered
    RelayGuarded
    RetriesRetained
PROPERTIES
    RelayReleased
CHECK_DEADLOCK FALSE

SPECIFICATION FairSpec
CONSTANTS
    Ops = {o1, o2}
    Entities = {e1, e2}
    None = None
    MaxActive = 1
    Observation = 1
    MaxTime = 0
    MaxObjects = 1
    MaxCancelled = 0
    MaxFailures = 1
    MaxDamage = 0
    Absent = Absent
    Invalid = Invalid
    Corrupt = Corrupt
PROPERTY
    EntityEventuallyFree
CHECK_DEADLOCK FALSE

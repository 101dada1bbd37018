SPECIFICATION Spec
CONSTANTS
    Ops = {o1, o2}
    Entities = {e1}
    None = None
    MaxActive = 2
    Observation = 1
    MaxTime = 1
    MaxObjects = 2
    MaxCancelled = 1
    MaxFailures = 0
    MaxDamage = 1
    Absent = Absent
    Invalid = Invalid
    Corrupt = Corrupt
SYMMETRY Symmetry
INVARIANTS
    TypeOK
    ExclusiveExecution
PROPERTIES
    KeepsPromise
    RestartQuarantine
CHECK_DEADLOCK FALSE

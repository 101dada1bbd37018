SPECIFICATION Spec
CONSTANTS
    l1 = l1
    l2 = l2
    s1 = s1
    p1 = p1
    Lights = {l1, l2}
    Sensors = {s1}
    Profiles = {p1}
    none = none
    first = first
    second = second
    Settings = {none, first, second}
    Effective <- ThreeSettings
    Default = none
    Direct = Direct
    DirectLights = {l1}
    DirectSensors = {s1}
    Whole = Whole
    Requests = {q1, q2}
    Nothing = Nothing
    Interval = 1
    Stable = 1
    Fresh = 1
    ReceiptCapacity = 1
    ActiveCapacity = 2
    MaxTime = 2
    MaxRevision = 2
    MaxBorn = 2
    MaxFaults = 1
    Absent = Absent
    Invalid = Invalid
    Corrupt = Corrupt
SYMMETRY Permuted
INVARIANTS
    TypeOK
    ProtectionHolds
    ProtectionDurable
CHECK_DEADLOCK FALSE

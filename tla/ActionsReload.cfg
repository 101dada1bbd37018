SPECIFICATION Spec
CONSTANTS
    Keys = {k1}
    Fingerprints = {f1}
    Requests = {r1, r2}
    Capacity = 1
    NoRecord = NoRecord
    NoKey = NoKey
    NoFp = NoFp
    Absent = Absent
    Invalid = Invalid
    Corrupt = Corrupt
    DamageKinds <- NoDamage
    MaxDamage = 0
    MaxSetups = 3
    MaxUnloads = 1
SYMMETRY Symmetry
INVARIANTS
    AtMostOnceAcrossReload
CHECK_DEADLOCK FALSE

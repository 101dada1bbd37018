SPECIFICATION Spec
CONSTANTS
    Keys = {k1, k2}
    Fingerprints = {f1, f2}
    Requests = {r1, r2}
    Capacity = 1
    NoRecord = NoRecord
    NoKey = NoKey
    NoFp = NoFp
    Absent = Absent
    Invalid = Invalid
    Corrupt = Corrupt
    DamageKinds <- AnyDamage
    MaxDamage = 1
    MaxSetups = 3
    MaxUnloads = 1
SYMMETRY Symmetry
INVARIANTS
    TypeOK
    AtMostOncePerObject
    ReplayIsFaithful
    AtMostOnceDispatch
    DispatchIsDurable
    ReceiptIsDurable
    NothingWedged
CHECK_DEADLOCK FALSE

SPECIFICATION Spec
CONSTANTS
    MaxSaves = 4
    MaxDamage = 2
    MaxCrashes = 3
    DamageKinds <- AnyDamage
    Absent = Absent
    Invalid = Invalid
    Corrupt = Corrupt
INVARIANT TypeOK
PROPERTIES
    KeepsPromise
    FallsBackOneSave
    SavesAreAtomic
    LoadsAreAtomic
CHECK_DEADLOCK FALSE

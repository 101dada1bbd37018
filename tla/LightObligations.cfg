SPECIFICATION FairSpec
CONSTANTS
    Targets = {t1, t2}
    Scenarios = {s1}
    Nothing = Nothing
    Capacity = 2
    MaxAttempts = 2
    MaxGen = 2
    MaxFaults = 3
    Absent = Absent
    Invalid = Invalid
    Corrupt = Corrupt
INVARIANTS
    TypeOK
    BudgetKept
    EndedStaysEnded

PROPERTY
    PromiseSurvives
    AdoptedIsTried

SPECIFICATION Spec
CONSTANTS
    Runs = {r1, r2}
    Nothing = Nothing
    Free = Free
    User = User
    Task = Task
    MaxAttempts = 2
    MaxRev = 4
    MaxGen = 2
    MaxFaults = 1
SYMMETRY Symmetry
INVARIANTS
    TypeOK
    LockIsServed
PROPERTY
    ManualOnHolds

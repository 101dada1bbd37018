SPECIFICATION FairSpec
CONSTANTS
    Runs = {r1}
    Nothing = Nothing
    Free = Free
    User = User
    Task = Task
    MaxAttempts = 2
    MaxRev = 3
    MaxGen = 1
    MaxFaults = 0
PROPERTY
    ManualClaimsServed

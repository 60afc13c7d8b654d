SPECIFICATION Spec
CONSTANTS
    Threads = {r1, r2}
    Clients = {c1, c2}
    FreeAttempts = 2
    Tiers <- Waits
    GuardRetention = 2
    CodesPerBatch = 1
    MaxTries = 2
    Skew = 1
    MaxBindings = 2
    MaxBatches = 2
    MaxNow = 8
    MaxFaults = 2
    Scenarios <- LoginScenarios
SYMMETRY Symmetry
CHECK_DEADLOCK FALSE
INVARIANTS TypeOK CodeOnce OwnBinding Throttled

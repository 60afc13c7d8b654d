SPECIFICATION Spec
CONSTANTS
    Ids = {a, b}
    Vers = {v1, v2}
    Nil = Nil
    Scenarios <- SyncScenarios
SYMMETRY Symmetry
CHECK_DEADLOCK FALSE
INVARIANTS TypeOK AppliedServed FileSettled Healed

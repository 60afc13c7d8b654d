SPECIFICATION FairSpec
CONSTANTS
    Gost = {g}
    Reality = {r}
    Refs = {r1, r2, r3}
    Nil = Nil
    Scenarios <- LiveScenarios
CHECK_DEADLOCK FALSE
PROPERTY AllCounted

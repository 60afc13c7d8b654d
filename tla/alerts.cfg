SPECIFICATION Spec
CONSTANTS
    Nodes = {g, s}
    Reality = {s}
    Resources = {cpu}
    Limit = 3
    Thresholds <- Steps
    Cooldowns = {1, 2}
    MaxNow = 3
    MaxEvents = 3
    Nil = Nil
    Scenarios <- AlertCases
CHECK_DEADLOCK FALSE
INVARIANTS TypeOK LastWord WarnedOnce WarnedEachWindow

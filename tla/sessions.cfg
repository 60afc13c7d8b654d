SPECIFICATION Spec
CONSTANTS
    Tokens = {s1, s2}
    Threads = {r1, r2}
    Agents = {u1, u2}
    Blank = Blank
    TTL = 2
    MaxNow = 3
    MaxRestarts = 1
    Scenarios <- SessionScenarios
SYMMETRY Symmetry
CHECK_DEADLOCK FALSE
INVARIANT TypeOK
PROPERTIES OneTable EndsForAReason

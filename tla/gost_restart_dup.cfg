SPECIFICATION Spec
CONSTANTS
    Procs = {p1, p2, p3, p4}
    Reqs = {q1}
    Root = Root
    Nil = Nil
    Scenarios <- RestartScenarios
CHECK_DEADLOCK FALSE
SYMMETRY ProcSymmetry
INVARIANT SingleGost

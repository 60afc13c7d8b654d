SPECIFICATION FairSpec
CONSTANTS
    Procs = {p1, p2, p3, p4}
    Reqs = {q1, q2}
    Root = Root
    Nil = Nil
    Scenarios <- ProcessScenarios
CHECK_DEADLOCK FALSE
INVARIANTS TypeOK OneGost Stoppable
PROPERTIES RunsAgain RestartRuns

SPECIFICATION Spec
CONSTANTS
    Threads = {r1, r2}
    Main = Main
    Servers = {v1, v2, v3, v4, v5}
    Nil = Nil
    Ports = {1, 2}
    ChallengePort = 80
    MaxEvents = 2
    Scenarios <- SubListenerScenarios
SYMMETRY Symmetry
CHECK_DEADLOCK FALSE
INVARIANTS TypeOK TakesEffect

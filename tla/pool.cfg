SPECIFICATION FairSpec
CONSTANTS
    Vers = {v1, v2}
    Insts = {i1, i2}
    Gos = {k1, k2, k3}
    Procs = {p1, p2, p3}
    Nil = Nil
    Scenarios <- PoolScenarios
CHECK_DEADLOCK FALSE
INVARIANTS TypeOK ReclaimedSerial OneSupervisor NoOldConf 
PROPERTY Settles

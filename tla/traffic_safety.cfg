SPECIFICATION Spec
CONSTANTS
    Gost = {g}
    Reality = {r}
    Refs = {r1, r2, r3}
    Nil = Nil
    Scenarios <- SafetyScenarios
SYMMETRY RefSymmetry
VIEW View
CHECK_DEADLOCK FALSE
INVARIANTS TypeOK GostCountedOnce SurvivorCountedOnce RealityCountedOnce CacheMatchesStore
PROPERTY TotalOnlyGrows

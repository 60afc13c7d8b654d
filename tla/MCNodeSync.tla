------------------------------ MODULE MCNodeSync ------------------------------
(* NodeSync on small instances; the ids are interchangeable, and so are    *)
(* the versions of a node's form.                                          *)
EXTENDS NodeSync, TLC

Symmetry == Permutations(Ids) \cup Permutations(Vers)

One(S) == {{x} : x \in S}

With(envs, ids, vers) == [env : envs, ids : ids, vers : vers]

ApplyEnv == {"create", "update", "toggle", "delete", "sync", "overlap", "fail", "restart"}
FileEnv == {"update", "toggle", "sync", "fail", "crash", "restart"}
SwitchEnv == {"update", "switch", "overlap", "fail", "crash", "restart"}
HealEnv == {"create", "toggle", "delete", "overlap", "fail", "crash", "restart"}

OrphanEnv == {"toggle", "delete", "fail", "restart", "orphan"}

SyncScenarios ==
    With({ApplyEnv}, One(Ids), {Vers}) \cup With({FileEnv}, {Ids}, {Vers})
        \cup With({SwitchEnv, HealEnv, OrphanEnv}, {Ids}, One(Vers))

OrphanScenarios == With({{"toggle", "restart", "orphan"}}, One(Ids), One(Vers))

SwitchScenarios == With({{"update", "switch"}}, One(Ids), One(Vers))
=============================================================================

--------------------------- MODULE MCGostSupervisor ---------------------------
(* GostSupervisor on small instances.                                      *)
EXTENDS GostSupervisor, TLC

ProcSymmetry == Permutations(Procs)

FirstReq == CHOOSE q \in Reqs : TRUE

ProcessScenarios ==
    { [env |-> {"crash", "startFail", "shutdown", "timeout"}, reqs |-> {}],
      [env |-> {"crash", "startFail", "shutdown", "disconnect", "timeout"}, reqs |-> {FirstReq}],
      [env |-> {"startFail", "shutdown", "disconnect"}, reqs |-> {FirstReq}],
      [env |-> {"startFail"}, reqs |-> Reqs] }

RestartScenarios == { [env |-> {}, reqs |-> {FirstReq}] }
LeavingScenarios == { [env |-> {"disconnect"}, reqs |-> {FirstReq}] }
CrashScenarios == { [env |-> {"crash"}, reqs |-> {FirstReq}] }
=============================================================================

---------------------------- MODULE MCSingboxPool ----------------------------
(* SingboxPool on small instances: any three events in turn; and the races *)
(* of one event, or two, with a pass or with supervise.                    *)
EXTENDS SingboxPool

With(env, max) == [env |-> env, max |-> max]

PoolScenarios ==
    { With({"toggle", "update", "delete", "quota", "exit", "fail", "stop"}, 3),
      With({"toggle", "update", "quota", "exit", "kill"}, 3),
      With({"toggle", "quota", "stop", "late"}, 3) }

LateScenarios == { With({"stop", "late"}, 1) }

ReclaimScenarios == { With({"delete", "overlap"}, 1), With({"toggle", "window"}, 2) }
=============================================================================

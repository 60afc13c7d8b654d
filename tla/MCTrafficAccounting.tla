------------------------- MODULE MCTrafficAccounting -------------------------
(* TrafficAccounting on small instances.  Object identities are symmetric, *)
(* and an object nothing refers to is never read again: the view forgets   *)
(* its contents.                                                           *)
EXTENDS TrafficAccounting, TLC

RefSymmetry == Permutations(Refs)

LiveObjects ==
    [n \in Nodes |-> [r \in Refs |-> IF r \in InUse(n) \cup {cached[n]} THEN obj[n][r] ELSE NewRow]]

View == <<sc, engine, pids, stored, row, bucket, LiveObjects, cached, torn, seen, last, smp,
          adm, carried, mark, counted, acked>>

With(env, nodes, bytes, pid, revs) ==
    [env |-> env, nodes |-> nodes, bytes |-> bytes, pids |-> pid, revs |-> revs]

\* Handlers and passes in any order.
Overlapping ==
    { With({"exit", "edit", "delete", "overlap"}, Gost, 2, 2, 1),
      With({"exit", "restart", "edit", "overlap"}, Gost, 1, 2, 1),
      With({"edit", "delete", "overlap", "storeFail"}, Gost, 1, 1, 1) }

\* They take turns, and the store may refuse any call.
StoreFailing ==
    { With({"exit", "survive", "delete", "storeFail"}, Gost, 2, 2, 1),
      With({"exit", "edit", "delete", "reset", "storeFail"}, Reality, 1, 2, 1) }

TakingTurns ==
    { With({"exit", "restart", "edit", "delete", "survive"}, Gost, 2, 2, 2),
      With({"exit", "restart", "edit", "delete", "reset"}, Reality, 2, 2, 1),
      With({"exit", "survive"}, Gost, 4, 3, 2),
      With({"exit", "restart", "reset", "delete"}, Reality, 3, 3, 2) }

SafetyScenarios == Overlapping \cup StoreFailing \cup TakingTurns

LiveScenarios == { With({}, Gost \cup Reality, 2, 1, 2) }
EditScenarios == { With({"edit"}, Reality, 3, 2, 2) }
StoreScenarios == { With({"exit", "storeFail"}, Reality, 2, 2, 1) }
OverlapScenarios == { With({"edit", "delete", "overlap"}, Gost, 2, 1, 2) }
ResetScenarios == { With({"reset"}, Gost, 3, 2, 2) }
=============================================================================

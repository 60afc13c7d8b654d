----------------------------- MODULE MCSessions -----------------------------
(* Sessions on small instances: two requests in progress, two sessions of *)
(* two clients, a lifetime of two seconds.                                *)
EXTENDS Sessions, TLC

Symmetry == Permutations(Tokens) \union Permutations(Threads) \union Permutations(Agents)

SessionScenarios ==
    { {"logout", "revoke", "restart"},
      {"revoke", "change", "deleteFail"},
      {"logout", "saveFail", "restart"},
      {"logout", "deleteFail"} }

OverlapScenarios == { {"revoke", "restart", "overlap"} }
SilentScenarios == { {"change", "deleteFail"}, {"logout", "deleteFail"} }
=============================================================================

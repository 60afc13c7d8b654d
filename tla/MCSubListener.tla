--------------------------- MODULE MCSubListener ----------------------------
(* SubListener on small instances: two requests, two ports, five servers. *)
EXTENDS SubListener, TLC

Symmetry == Permutations(Threads) \union Permutations(Servers)

Move == { "port" :> 2, "port" :> 1 @@ "suffix" :> "own" }
Acmes == { "domain" :> "d" @@ "email" :> "e", "email" :> "" }
Manual == { "domain" :> "d" @@ "cert" :> "good", "cert" :> "bad", "cert" :> "none" }

Sc(env, forms, n) == [env |-> env, forms |-> forms, requests |-> n]

SubListenerScenarios ==
    { Sc({"refused", "writeFail", "restart"}, Move \union Acmes \union Manual, 4),
      Sc({"issue", "taken"}, Move \union Acmes, 4),
      Sc({"issue", "writeFail", "restart"}, Acmes \union Manual, 4) }

\* Overlapping saves.
OverlapScenarios == { Sc({"overlap"}, Move, 2) }

\* A bad certificate after a good one.
InvalidScenarios == { Sc({}, Manual, 2) }
=============================================================================

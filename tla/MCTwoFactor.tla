---------------------------- MODULE MCTwoFactor -----------------------------
(* TwoFactor on small instances: two requests in progress, two clients.   *)
EXTENDS TwoFactor, TLC

\* A wait of one tick from the second failure on, of three from the fourth.
Waits == 1 :> 2 @@ 3 :> 4

Symmetry == Permutations(Threads) \union Permutations(Clients)

Sc(env, n, t, bound) == [env |-> env, requests |-> n, until |-> t, bound |-> bound]

LoginScenarios ==
    { Sc({"wrong", "expire"}, 4, 4, TRUE),
      Sc({"wrong"}, 5, 6, FALSE),
      Sc({"restart", "writeFail"}, 4, 4, TRUE),
      Sc({"disable", "setup", "remember", "writeFail"}, 5, 2, TRUE),
      Sc({"disable", "setup", "remember", "restart"}, 5, 2, TRUE),
      Sc({"setup", "disable", "expire", "wrong"}, 4, 2, FALSE),
      Sc({"recovery", "change", "remember", "writeFail", "wrong"}, 4, 2, TRUE) }

ReplayScenarios == { Sc({"setup", "writeFail"}, 7, 2, FALSE) }

WaitScenarios == { Sc({"wrong"}, 6, 8, FALSE) }
=============================================================================

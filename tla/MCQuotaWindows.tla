--------------------------- MODULE MCQuotaWindows ---------------------------
(* QuotaWindows on small instances: days of one hour of two ticks,        *)
(* months of two days, up to three bytes and two events.                  *)
EXTENDS QuotaWindows

Of(period, dir, limit) == [period |-> period, dir |-> dir, limit |-> limit]
With(kind, env, quotas, flows, bytes, n, t) ==
    [kind |-> kind, env |-> env, quotas |-> quotas, flows |-> flows, bytes |-> bytes, events |-> n, until |-> t]

WindowScenarios ==
    { With("gost", {"crash", "fail"}, {Of("daily", "in", 1)}, {"in"}, 2, 2, 4),
      With("gost", {"crash", "prune"}, {Of("monthly", "out", 1)}, {"in", "out"}, 2, 1, 4),
      With("gost", {"crash", "edit"}, {Of("daily", "total", 1), Of("total", "total", 1)}, {"in"}, 1, 2, 3),
      With("gost", {"edit", "overlap", "findFail"}, {Of("daily", "in", 1), Of("total", "in", 1)}, {"in"}, 1, 2, 3),
      With("gost", {"crash", "reset"}, {Of("daily", "in", 2)}, {"in"}, 2, 2, 3),
      With("reality", {"fail", "edit", "reset", "prune"}, {Of("daily", "in", 1), Of("total", "total", 2)}, {"in", "out"}, 2, 2, 3),
      With("reality", {"fail", "prune"}, {Of("monthly", "total", 2)}, {"in", "out"}, 3, 2, 4) }

ResetScenarios == { With("gost", {"reset"}, {Of("daily", "total", 2)}, {"in"}, 1, 1, 2) }
OutScenarios == { With("reality", {}, {Of("daily", "out", 1)}, {"in", "out"}, 1, 0, 1) }
=============================================================================

------------------------------ MODULE MCAlerts ------------------------------
(* Alerts on small instances: a node of each kind, thresholds at one and  *)
(* two thirds of the quota, a cooldown of one or two ticks.               *)
EXTENDS Alerts

AlertCases ==
    { {"flip", "lost"},
      {"flip", "settings"},
      {"flip", "clients", "apiDown"},
      {"traffic", "window", "settings"},
      {"flip", "traffic", "restart"},
      {"load", "flip"},
      {"traffic", "window", "quotasFail"},
      {"traffic", "window", "stale"} }

StaleCases == { {"traffic", "window", "stale"} }
RealityCases == { {"traffic", "window"} }

Steps == { {1, 2}, {1} }
=============================================================================

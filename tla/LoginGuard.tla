----------------------------- MODULE LoginGuard -----------------------------
(***************************************************************************)
(* loginGuard of internal/server/security.go: how long a client or an      *)
(* account must wait after failed attempts.  A guard is a function from    *)
(* the keys with an entry to [fails, until, seen].  The two maps of the    *)
(* code, by IP and by account, are two such functions.                     *)
(*                                                                         *)
(* The limit of 8192 entries is not modelled: an instance has a handful.   *)
(***************************************************************************)
EXTENDS Integers

CONSTANTS
    FreeAttempts,       \* the failure that first costs a wait
    Tiers,              \* wait -> the number of failures that costs it
    GuardRetention

ASSUME TiersAssumption ==
    /\ FreeAttempts \in Nat \ {0} /\ GuardRetention \in Nat
    /\ DOMAIN Tiers \subseteq Nat \ {0}
    /\ \E w \in DOMAIN Tiers : Tiers[w] = FreeAttempts
    /\ \A w \in DOMAIN Tiers : Tiers[w] \in Nat /\ FreeAttempts <= Tiers[w]
    /\ \E longest \in DOMAIN Tiers : \A w \in DOMAIN Tiers : w <= longest

\* An entry is kept longer than the first wait lasts.
ASSUME RetentionAssumption == \A w \in DOMAIN Tiers : Tiers[w] = FreeAttempts => w <= GuardRetention

NoWait == -1

\* Mutant: only the failure after the fifth costs a wait.
CooldownLate(fails) ==
    LET due == { w \in DOMAIN Tiers : Tiers[w] < fails }
    IN  IF due = {} THEN 0 ELSE CHOOSE w \in due : \A v \in due : v <= w

\* The longest wait the failures have earned, 0 for none.
Cooldown(fails) ==
    LET due == { w \in DOMAIN Tiers : Tiers[w] <= fails }
    IN  IF due = {} THEN 0 ELSE CHOOSE w \in due : \A v \in due : v <= w

\* Blocked up to `until`.  The code's two comparisons, here and in Bump, leave one instant
\* that is neither blocked nor over; on the clock of the model it belongs to the wait.
Blocked(g, key, now) == key \in DOMAIN g /\ g[key].until # NoWait /\ now <= g[key].until

Fresh == [fails |-> 0, until |-> NoWait, seen |-> 0]

\* Mutant: the count starts again, the old wait stays on record.
BumpUntil(g, key, now) ==
    LET old == IF key \in DOMAIN g THEN g[key] ELSE Fresh
        e == IF old.until # NoWait /\ now > old.until THEN [old EXCEPT !.fails = 0] ELSE old
        wait == Cooldown(e.fails + 1)
        new == [fails |-> e.fails + 1,
                until |-> IF wait > 0 THEN now + wait ELSE e.until,
                seen |-> now]
    IN  [k \in DOMAIN g \union {key} |-> IF k = key THEN new ELSE g[k]]

\* A wait that is over starts the count again.
Bump(g, key, now) ==
    LET old == IF key \in DOMAIN g THEN g[key] ELSE Fresh
        e == IF old.until # NoWait /\ now > old.until THEN Fresh ELSE old
        wait == Cooldown(e.fails + 1)
        new == [fails |-> e.fails + 1,
                until |-> IF wait > 0 THEN now + wait ELSE e.until,
                seen |-> now]
    IN  [k \in DOMAIN g \union {key} |-> IF k = key THEN new ELSE g[k]]

Clear(g, key) == [k \in DOMAIN g \ {key} |-> g[k]]

Stale(g, now) == { k \in DOMAIN g : now > g[k].until /\ now - g[k].seen > GuardRetention }
Cleanup(g, now) == [k \in DOMAIN g \ Stale(g, now) |-> g[k]]
=============================================================================

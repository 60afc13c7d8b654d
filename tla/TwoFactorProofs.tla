-------------------------- MODULE TwoFactorProofs ---------------------------
(***************************************************************************)
(* What TwoFactor says of any number of requests in progress, clients,     *)
(* codes and bindings: its types and the throttling of failures, however   *)
(* the requests overlap; and, when those that check codes take turns, that *)
(* nothing opens two sessions and that the codes and the devices that are  *)
(* accepted are those of the binding in force.                             *)
(***************************************************************************)
EXTENDS TwoFactor, FiniteSetTheorems, SequenceTheorems, WellFoundedInduction, TLAPS

-----------------------------------------------------------------------------
(* Types *)

CodeOK(c) ==
    /\ c.kind \in {"totp", "recovery"}
    /\ c.bind \in 0..made.bindings /\ c.batch \in 0..made.batches
    /\ c.kind = "totp" => c.n <= now + Skew

CodeSet == [kind : {"totp", "recovery"}, bind : Nat, batch : Nat, n : Nat]

ScalarsOK ==
    /\ sc \in Scenarios
    /\ left \in Nat /\ faults \in 0..MaxFaults /\ torn \in 0..faults
    /\ now \in Start..MaxNow
    /\ made = [bindings |-> made.bindings, batches |-> made.batches, chals |-> made.chals]
    /\ made.bindings \in 0..MaxBindings /\ made.batches \in 0..MaxBatches /\ made.chals \in Nat
    /\ secret \in 0..made.bindings /\ pending \in 0..made.bindings /\ enabled \in BOOLEAN
    /\ lastStep \in 0..(now + Skew)

RecoveryOK == \A c \in recovery : c.kind = "recovery" /\ c \in CodeSet /\ CodeOK(c)
DevicesOK == \A d \in devices : d.client \in Clients /\ d.bind \in 0..made.bindings
ChallengeOK(id) ==
    /\ id \in 1..made.chals
    /\ chals[id] = [client |-> chals[id].client, attempts |-> chals[id].attempts]
    /\ chals[id].client \in Clients /\ chals[id].attempts \in 0..(MaxTries - 1)

TablesOK ==
    /\ RecoveryOK /\ DevicesOK
    /\ \A id \in DOMAIN chals : ChallengeOK(id)
    /\ opened \in Seq([code : CodeSet, id : Nat])

\* What a request carries at each stage.
Carries(r, fields) ==
    /\ "client" \in fields => pc[r].client \in Clients
    /\ "id" \in fields => pc[r].id \in 1..made.chals
    /\ "code" \in fields => pc[r].code \in CodeSet /\ CodeOK(pc[r].code)
    /\ "rest" \in fields => pc[r].rest \in SUBSET CodeSet
                            /\ \A c \in pc[r].rest : c.kind = "recovery" /\ CodeOK(c)
    /\ "bind" \in fields => pc[r].bind \in 0..made.bindings

Manages(r) ==
    /\ pc[r] = [at |-> pc[r].at, what |-> pc[r].what, client |-> pc[r].client, k |-> pc[r].k]
    /\ pc[r].client \in Clients /\ pc[r].what \in {"disable", "recovery", "change"}
    /\ pc[r].k \in 1..Len(ClearSteps)

RequestOK(r) ==
    /\ pc[r].at \in Stages
    /\ At(r, "password") => Carries(r, {"client"}) /\ pc[r].account \in {Account, NoAccount}
    /\ pc[r].at \in {"factor", "regen", "forget"} => Carries(r, {"client"})
    /\ pc[r].at \in {"code", "accepted"} => Carries(r, {"client", "id", "code"})
    /\ At(r, "failed") => Carries(r, {"client", "id"})
    /\ At(r, "spend") => Carries(r, {"client", "id", "code", "rest"})
    /\ At(r, "remember") => Carries(r, {"client", "bind"})
    /\ At(r, "consume") => Carries(r, {"client", "rest"}) /\ pc[r].what \in {"disable", "recovery", "change"}
    /\ pc[r].at \in {"manage", "clear"} => Manages(r)
    /\ At(r, "manage") => pc[r].k = 1
    /\ At(r, "enable") =>
          /\ pc[r] = [at |-> "enable", client |-> pc[r].client, bind |-> pc[r].bind, k |-> pc[r].k]
          /\ Carries(r, {"client", "bind"}) /\ pc[r].k \in 1..Len(EnableSteps)

EntryOK(e) ==
    /\ e.fails \in Nat /\ e.seen \in 0..now
    /\ \/ e.until = NoWait /\ e.fails < FreeAttempts
       \/ e.until \in Nat /\ e.fails >= FreeAttempts

GuardsOK ==
    /\ DOMAIN byIP \subseteq Clients /\ DOMAIN byUser \subseteq {Account}
    /\ \A c \in DOMAIN byIP : EntryOK(byIP[c])
    /\ \A c \in DOMAIN byUser : EntryOK(byUser[c])
    /\ failures \in [Keys -> Seq(0..now)]

PcFunction == pc = [r \in Threads |-> pc[r]]

TypeInv ==
    /\ ScalarsOK /\ TablesOK /\ GuardsOK /\ PcFunction
    /\ \A r \in Threads : RequestOK(r)

-----------------------------------------------------------------------------
(* Waiting *)

FirstWait == CHOOSE w \in DOMAIN Tiers : Tiers[w] = FreeAttempts

\* The requests past the check of the guard that may still fail at the cost of a client or account.
MayFail(r, key) ==
    \/ At(r, "password") /\ key \in {pc[r].client, pc[r].account}
    \/ pc[r].at \in {"code", "spend", "failed", "manage", "consume"} /\ key \in {pc[r].client, Account}

InFlight(key) == { r \in Threads : MayFail(r, key) }

Table(key) == IF key = Account THEN byUser ELSE byIP

Since(key, i) == Len(failures[key]) - i + 1

\* A failure that is not longer ago than the first wait is counted, or the guard blocks until it
\* is, and then only requests in flight can add to the failures since.
Counted(key, i) ==
    LET e == Table(key)[key]
    IN  \/ e.until = NoWait /\ Since(key, i) <= e.fails
        \/ /\ e.until >= failures[key][i] + FirstWait
           /\ Since(key, i) + Cardinality(InFlight(key)) <= FreeAttempts + Cardinality(Threads) - 1

Remembered(key, i) ==
    /\ key \in DOMAIN Table(key) /\ Table(key)[key].seen >= failures[key][i]
    /\ Counted(key, i)

Spaced(key) ==
    LET window == FreeAttempts + Cardinality(Threads)
    IN  \A i \in 1..(Len(failures[key]) - window + 1) :
            failures[key][i + window - 1] - failures[key][i] > FirstWait

KeyInv(key) ==
    /\ Spaced(key)
    /\ \A i \in 1..Len(failures[key]) :
          now - failures[key][i] <= FirstWait => Remembered(key, i)

GuardInv == \A key \in Keys : KeyInv(key)

-----------------------------------------------------------------------------
(* The second factor, when requests take turns *)

Turns ==
    /\ "overlap" \notin sc.env
    /\ \A r, q \in Threads : pc[r].at \in FactorStages /\ pc[q].at \in FactorStages => r = q

Own(codes) == \A c \in codes : c.bind = secret

\* What the request that has its turn found, and has done.
TurnOK(r) ==
    /\ At(r, "spend") =>
          /\ pc[r].rest = recovery \ {pc[r].code}
          /\ pc[r].code.kind = "totp" =>
                pc[r].code.bind = secret /\ secret # 0 /\ pc[r].code.n > lastStep
          /\ pc[r].code.kind = "recovery" => pc[r].code \in recovery
    /\ At(r, "accepted") =>
          /\ pc[r].code.kind = "totp" =>
                pc[r].code.bind = secret /\ secret # 0 /\ pc[r].code.n <= lastStep
          /\ pc[r].code.kind = "recovery" => pc[r].code \notin recovery
          /\ torn = 0 => pc[r].code.bind = secret /\ secret # 0
    /\ At(r, "remember") /\ torn = 0 => pc[r].bind = secret /\ secret # 0
    /\ At(r, "consume") => pc[r].rest \subseteq recovery
    /\ pc[r].at \in {"consume", "regen"} /\ torn = 0 => secret # 0
    /\ At(r, "clear") => /\ pc[r].k > 1 => secret = 0
                         /\ pc[r].k > 4 => recovery = {}
    /\ At(r, "enable") =>
          /\ pc[r].bind # 0
          /\ pc[r].k > 1 => secret = pc[r].bind
          /\ pc[r].k = 5 => Own(recovery)
          /\ torn = 0 => /\ pc[r].k = 1 => ~ Enabled
                         /\ pc[r].k > 1 => devices = {}
                         /\ pc[r].k \in 2..4 => recovery = {}
                         /\ pc[r].k > 2 => enabled

Between(r) == pc[r].at \in {"enable", "clear"} /\ pc[r].k > 1
Rewriting(r) == At(r, "enable") /\ pc[r].k \in 2..4

Whole ==
    /\ Enabled => pending = 0 /\ Own(recovery) /\ \A d \in devices : d.bind = secret
    /\ ~ Enabled => secret = 0 /\ recovery = {} /\ devices = {}

\* Nothing is left over while nothing has been left incomplete ...
WholeOK == torn = 0 /\ (\A r \in Threads : ~ Between(r)) => Whole

\* ... and no codes of another binding when one request has.
TornOnceOK == torn <= 1 /\ (\A r \in Threads : ~ Rewriting(r)) => (Enabled => Own(recovery))

\* A code that has opened a session can open none again.
Spent(code) ==
    /\ code.kind = "recovery" => code \notin recovery
    /\ code.kind = "totp" /\ torn = 0 =>
          /\ code.bind # 0 /\ code.bind # pending
          /\ code.bind = secret => code.n <= lastStep
          /\ \A r \in Threads : At(r, "enable") => pc[r].bind # code.bind
    /\ \A r \in Threads : At(r, "accepted") /\ pc[r].code = code => code.kind = "totp" /\ torn > 0

Answered(id) ==
    /\ id \in 1..made.chals /\ id \notin DOMAIN chals
    /\ \A r \in Threads : pc[r].at \in {"code", "spend", "accepted"} => pc[r].id # id

SpentOK ==
    \A i \in 1..Len(opened) :
        CodeOK(opened[i].code) /\ Spent(opened[i].code) /\ Answered(opened[i].id)

FactorInv ==
    /\ Turns /\ WholeOK /\ TornOnceOK /\ SpentOK /\ CodeOnce
    /\ \A r \in Threads : TurnOK(r)

-----------------------------------------------------------------------------
(* The guard *)

\* A set of naturals below a bound has a greatest element.
LEMMA Greatest ==
  ASSUME NEW limit \in Nat, NEW S \in SUBSET (0..limit), S # {}
  PROVE  \E x \in S : \A y \in S : y <= x
<1> DEFINE below == { limit - x : x \in S }
           less == OpToRel(<, Nat)
<1>1. less = { p \in Nat \X Nat : p[1] < p[2] }
  BY DEF OpToRel
<1>2. \A x \in S : x \in 0..limit
  OBVIOUS
<1>3. below \subseteq Nat
  BY <1>2
<1>4. below # {}
  OBVIOUS
<1>5. IsWellFoundedOn(less, Nat)
  BY NatLessThanWellFounded
<1>6. \E m \in below : \A y \in below : ~ (<<y, m>> \in less)
  <2> HIDE DEF below, less
  <2> QED
    BY <1>3, <1>4, <1>5, WFMin
<1>7. PICK m \in below : \A y \in below : ~ (<<y, m>> \in less)
  BY <1>6
<1>8. PICK x \in S : m = limit - x
  OBVIOUS
<1>9. \A y \in S : y <= x
  <2> SUFFICES ASSUME NEW y \in S PROVE y <= x
    OBVIOUS
  <2> DEFINE p == <<limit - y, limit - x>>
  <2>1. limit - y \in Nat /\ limit - x \in Nat /\ limit - y \in below
    BY <1>2
  <2>2. p \in Nat \X Nat /\ p[1] = limit - y /\ p[2] = limit - x
    BY <2>1
  <2>3. p \notin less
    BY <1>7, <1>8, <2>1
  <2>4. ~ (limit - y < limit - x)
    <3> HIDE DEF less
    <3> QED
      BY <1>1, <2>2, <2>3
  <2> QED
    BY <2>4, <1>2
<1> QED
  BY <1>9

LEMMA FirstWaitFacts ==
  /\ FirstWait \in DOMAIN Tiers /\ FirstWait \in Nat \ {0} /\ Tiers[FirstWait] = FreeAttempts
  /\ FirstWait <= GuardRetention /\ FreeAttempts \in Nat \ {0} /\ GuardRetention \in Nat
<1>1. \E w \in DOMAIN Tiers : Tiers[w] = FreeAttempts
  BY TiersAssumption
<1>2. FirstWait \in DOMAIN Tiers /\ Tiers[FirstWait] = FreeAttempts
  BY <1>1 DEF FirstWait
<1> QED
  BY <1>2, TiersAssumption, RetentionAssumption

\* No wait before FreeAttempts failures, at least the first wait from then on.
LEMMA CooldownFacts ==
  ASSUME NEW n \in Nat
  PROVE  /\ n < FreeAttempts => Cooldown(n) = 0
         /\ n >= FreeAttempts => Cooldown(n) \in Nat /\ Cooldown(n) >= FirstWait
<1> DEFINE due == { w \in DOMAIN Tiers : Tiers[w] <= n }
<1>1. Cooldown(n) = IF due = {} THEN 0 ELSE CHOOSE w \in due : \A v \in due : v <= w
  BY DEF Cooldown
<1>2. CASE n < FreeAttempts
  <2>1. due = {}
    BY <1>2, TiersAssumption
  <2> QED
    BY <1>1, <1>2, <2>1, FirstWaitFacts
<1>3. CASE n >= FreeAttempts
  <2>1. FirstWait \in due
    BY <1>3, FirstWaitFacts
  <2>2. PICK longest \in DOMAIN Tiers : \A w \in DOMAIN Tiers : w <= longest
    BY TiersAssumption
  <2>3. longest \in Nat /\ due \in SUBSET (0..longest)
    BY <2>2, TiersAssumption
  <2>4. \E w \in due : \A v \in due : v <= w
    BY <2>1, <2>3, Greatest
  <2>5. Cooldown(n) \in due /\ \A v \in due : v <= Cooldown(n)
    BY <1>1, <2>1, <2>4
  <2> QED
    BY <1>3, <2>1, <2>3, <2>5, FirstWaitFacts
<1> QED
  BY <1>2, <1>3, FirstWaitFacts

\* A failure: it is counted, and a wait, new or not yet over, covers the first wait from now.
Bumped(g, h, key) ==
    /\ DOMAIN h = DOMAIN g \union {key}
    /\ \A k \in DOMAIN g : k # key => h[k] = g[k]
    /\ h[key].seen = now /\ EntryOK(h[key]) /\ h[key].fails >= 1
    /\ h[key].until = NoWait \/ h[key].until >= now + FirstWait
    /\ key \in DOMAIN g /\ g[key].until = NoWait => h[key].fails = g[key].fails + 1
    /\ key \in DOMAIN g /\ g[key].until # NoWait /\ now <= g[key].until => h[key].until # NoWait

LEMMA BumpFacts ==
  ASSUME now \in Nat, NEW g, NEW key, NEW h, h = Bump(g, key, now),
         key \in DOMAIN g => EntryOK(g[key])
  PROVE  Bumped(g, h, key)
<1> DEFINE old == IF key \in DOMAIN g THEN g[key] ELSE Fresh
           over == old.until # NoWait /\ now > old.until
           e == IF over THEN Fresh ELSE old
           delay == Cooldown(e.fails + 1)
           new == [fails |-> e.fails + 1, until |-> IF delay > 0 THEN now + delay ELSE e.until, seen |-> now]
<1>1. h = [k \in DOMAIN g \union {key} |-> IF k = key THEN new ELSE g[k]]
  BY DEF Bump
<1>2. Fresh.fails = 0 /\ Fresh.until = NoWait /\ NoWait = -1 /\ NoWait \notin Nat
  BY DEF Fresh, NoWait
<1>3. EntryOK(old)
  BY <1>2, FirstWaitFacts DEF EntryOK, Fresh
<1>4. /\ e.fails \in Nat
      /\ \/ e.until = NoWait /\ e.fails < FreeAttempts
         \/ e.until \in Nat /\ e.fails >= FreeAttempts
  <2>1. EntryOK(Fresh)
    BY <1>2, FirstWaitFacts DEF EntryOK, Fresh
  <2>2. EntryOK(e)
    BY <1>3, <2>1
  <2> QED
    BY <2>2 DEF EntryOK
<1> HIDE DEF e
<1>5. e.fails + 1 \in Nat
  BY <1>4
<1>6. /\ e.fails + 1 < FreeAttempts => delay = 0
      /\ e.fails + 1 >= FreeAttempts => delay \in Nat /\ delay >= FirstWait
  BY <1>5, CooldownFacts
<1>7. /\ new.fails = e.fails + 1 /\ new.seen = now
      /\ new.until = IF delay > 0 THEN now + delay ELSE e.until
  OBVIOUS
<1> HIDE DEF delay, new
<1>8. /\ EntryOK(new) /\ new.fails >= 1
      /\ new.until = NoWait \/ new.until >= now + FirstWait
  BY <1>2, <1>4, <1>5, <1>6, <1>7, FirstWaitFacts DEF EntryOK
<1>9. key \in DOMAIN g /\ g[key].until = NoWait => new.fails = g[key].fails + 1
  BY <1>7 DEF e
<1>10. key \in DOMAIN g /\ g[key].until # NoWait /\ now <= g[key].until => new.until # NoWait
  <2> SUFFICES ASSUME key \in DOMAIN g, g[key].until # NoWait, now <= g[key].until
               PROVE  new.until # NoWait
    OBVIOUS
  <2>1. e = g[key] /\ e.until \in Nat /\ e.fails >= FreeAttempts
    BY <1>2, <1>3 DEF e, EntryOK
  <2> QED
    BY <1>2, <1>4, <1>5, <1>6, <1>7, <2>1, FirstWaitFacts
<1>11. DOMAIN h = DOMAIN g \union {key} /\ h[key] = new /\ \A k \in DOMAIN g : k # key => h[k] = g[k]
  BY <1>1
<1> QED
  BY <1>7, <1>8, <1>9, <1>10, <1>11 DEF Bumped

LEMMA KeyFacts ==
  /\ Account \notin Clients /\ Keys = Clients \union {Account} /\ NoAccount \notin Keys /\ Account # NoAccount
  /\ \A key \in Clients : Table(key) = byIP
  /\ Table(Account) = byUser
<1>1. Account # NoAccount
  BY DEF Account, NoAccount
<1> QED
  BY <1>1, ClientsAssumption DEF Keys, Table

LEMMA BumpInTable ==
  ASSUME now \in Nat, NEW g, NEW key, \A k \in DOMAIN g : EntryOK(g[k])
  PROVE  /\ DOMAIN Bump(g, key, now) = DOMAIN g \union {key} /\ EntryOK(Bump(g, key, now)[key])
         /\ \A k \in DOMAIN g : k # key => Bump(g, key, now)[k] = g[k]
<1>1. PICK h : h = Bump(g, key, now)
  OBVIOUS
<1>2. key \in DOMAIN g => EntryOK(g[key])
  OBVIOUS
<1>3. Bumped(g, h, key)
  BY <1>1, <1>2, BumpFacts
<1> QED
  BY <1>1, <1>3 DEF Bumped

LEMMA NowAppended ==
  ASSUME now \in Nat, NEW s \in Seq(0..now)
  PROVE  Append(s, now) \in Seq(0..now)
<1>1. now \in 0..now
  OBVIOUS
<1> QED
  BY <1>1, AppendProperties

\* A failure is counted in the table of each of its keys.
LEMMA FailFacts ==
  ASSUME GuardsOK, now \in Nat, now' = now, NEW c \in Clients, NEW account \in {Account, NoAccount},
         Fail(c, account)
  PROVE  /\ GuardsOK'
         /\ \A key \in Keys \intersect {c, account} :
               /\ Table(key)' = Bump(Table(key), key, now)
               /\ failures'[key] = Append(failures[key], now)
         /\ \A key \in Keys \ {c, account} :
               /\ failures'[key] = failures[key]
               /\ key \in DOMAIN Table(key)' <=> key \in DOMAIN Table(key)
               /\ key \in DOMAIN Table(key) => Table(key)'[key] = Table(key)[key]
<1>1. /\ \A key \in DOMAIN byIP : EntryOK(byIP[key])
      /\ \A key \in DOMAIN byUser : EntryOK(byUser[key])
      /\ DOMAIN byIP \subseteq Clients /\ DOMAIN byUser \subseteq {Account}
      /\ failures \in [Keys -> Seq(0..now)]
  BY DEF GuardsOK
<1>2. \A x : EntryOK(x)' = EntryOK(x)
  BY DEF EntryOK
<1>3. byIP' = Bump(byIP, c, now)
  BY DEF Fail
<1>4. /\ DOMAIN byIP' = DOMAIN byIP \union {c} /\ EntryOK(byIP'[c])
      /\ \A k \in DOMAIN byIP : k # c => byIP'[k] = byIP[k]
  BY <1>1, <1>3, BumpInTable
<1>5. \A key \in DOMAIN byIP' : EntryOK(byIP'[key])
  BY <1>1, <1>4
<1>6. byUser' = IF account = NoAccount THEN byUser ELSE Bump(byUser, Account, now)
  BY DEF Fail
<1>7. DOMAIN byUser' \subseteq {Account} /\ \A key \in DOMAIN byUser' : EntryOK(byUser'[key])
  <2>1. CASE account = NoAccount
    BY <1>1, <1>6, <2>1
  <2>2. CASE account # NoAccount
    <3>1. byUser' = Bump(byUser, Account, now)
      BY <1>6, <2>2
    <3>2. /\ DOMAIN byUser' = DOMAIN byUser \union {Account} /\ EntryOK(byUser'[Account])
          /\ \A k \in DOMAIN byUser : k # Account => byUser'[k] = byUser[k]
      BY <1>1, <3>1, BumpInTable
    <3> QED
      BY <1>1, <3>2
  <2> QED
    BY <2>1, <2>2
<1>8. failures' = [k \in Keys |-> IF k \in {c, account} THEN Append(failures[k], now) ELSE failures[k]]
  BY DEF Fail
<1>9. failures' \in [Keys -> Seq(0..now)]
  <2>1. \A k \in Keys : Append(failures[k], now) \in Seq(0..now) /\ failures[k] \in Seq(0..now)
    BY <1>1, NowAppended
  <2> QED
    BY <1>8, <2>1
<1>10. GuardsOK'
  BY <1>2, <1>1, <1>4, <1>5, <1>7, <1>9 DEF GuardsOK
<1>11. \A key \in Keys \intersect {c, account} : Table(key)' = Bump(Table(key), key, now)
  BY <1>3, <1>6, KeyFacts DEF Table
<1>12. ASSUME NEW key \in Keys \ {c, account}
       PROVE  /\ key \in DOMAIN Table(key)' <=> key \in DOMAIN Table(key)
              /\ key \in DOMAIN Table(key) => Table(key)'[key] = Table(key)[key]
  <2>1. CASE key = Account
    <3>1. byUser' = byUser
      BY <1>6, <2>1
    <3> QED
      BY <2>1, <3>1 DEF Table
  <2>2. CASE key # Account
    BY <1>4, <2>2 DEF Table
  <2> QED
    BY <2>1, <2>2
<1> QED
  BY <1>8, <1>10, <1>11, <1>12

LEMMA SuccessFacts ==
  ASSUME GuardsOK, now \in Nat, now' = now, NEW c \in Clients, Success(c)
  PROVE  /\ GuardsOK'
         /\ \A key \in {c, Account} : failures'[key] = << >>
         /\ \A key \in Keys \ {c, Account} :
               /\ failures'[key] = failures[key]
               /\ key \in DOMAIN Table(key)' <=> key \in DOMAIN Table(key)
               /\ key \in DOMAIN Table(key) => Table(key)'[key] = Table(key)[key]
<1>1. \A x : EntryOK(x)' = EntryOK(x)
  BY DEF EntryOK
<1>2. /\ byIP' = [k \in DOMAIN byIP \ {c} |-> byIP[k]]
      /\ byUser' = [k \in DOMAIN byUser \ {Account} |-> byUser[k]]
      /\ failures' = [failures EXCEPT ![c] = << >>, ![Account] = << >>]
  BY DEF Success, Clear
<1>3. failures \in [Keys -> Seq(0..now)] /\ c \in Keys /\ Account \in Keys
  BY KeyFacts DEF GuardsOK
<1>4. failures' \in [Keys -> Seq(0..now)]
  <2>1. << >> \in Seq(0..now)
    OBVIOUS
  <2> QED
    BY <1>2, <1>3, <2>1
<1>5. GuardsOK'
  BY <1>1, <1>2, <1>4 DEF GuardsOK
<1>6. /\ \A key \in {c, Account} : failures'[key] = << >>
      /\ \A key \in Keys \ {c, Account} : failures'[key] = failures[key]
  BY <1>2, <1>3
<1>7. \A key \in Keys \ {c, Account} :
         /\ key \in DOMAIN Table(key)' <=> key \in DOMAIN Table(key)
         /\ key \in DOMAIN Table(key) => Table(key)'[key] = Table(key)[key]
  BY <1>2 DEF Table
<1> QED
  BY <1>5, <1>6, <1>7

LEMMA SameGuard == ASSUME GuardsOK, now' = now, UNCHANGED guard PROVE GuardsOK'
  BY DEF GuardsOK, guard, EntryOK

-----------------------------------------------------------------------------
(* What one request changes *)

LEMMA GotoFacts ==
  ASSUME PcFunction, NEW r \in Threads, NEW rec, Goto(r, rec)
  PROVE  /\ PcFunction' /\ pc'[r] = rec
         /\ \A q \in Threads : q # r => pc'[q] = pc[q]
  BY DEF PcFunction, Goto

\* Numbers that only grow keep what was typed.
Grows ==
    /\ now' >= now
    /\ made'.bindings >= made.bindings /\ made'.batches >= made.batches /\ made'.chals >= made.chals

LEMMA OthersKept ==
  ASSUME ScalarsOK, ScalarsOK', Grows
  PROVE  /\ \A c : CodeOK(c) /\ c \in CodeSet => CodeOK(c)'
         /\ \A q \in Threads : RequestOK(q) /\ pc'[q] = pc[q] => RequestOK(q)'
<1>1. /\ made.bindings \in Nat /\ made.batches \in Nat /\ made.chals \in Nat /\ now \in Nat
      /\ made'.bindings \in Nat /\ made'.batches \in Nat /\ made'.chals \in Nat /\ now' \in Nat
      /\ Skew \in Nat
  BY TwoFactorBounds, SkewAssumption DEF ScalarsOK, Start
<1>2. \A c : CodeOK(c) /\ c \in CodeSet => CodeOK(c)'
  BY <1>1 DEF CodeOK, CodeSet, Grows
<1>3. \A q \in Threads : \A f : Carries(q, f) /\ pc'[q] = pc[q] => Carries(q, f)'
  <2> SUFFICES ASSUME NEW q \in Threads, NEW f, Carries(q, f), pc'[q] = pc[q]
               PROVE  Carries(q, f)'
    OBVIOUS
  <2>1. "rest" \in f => pc[q].rest \in SUBSET CodeSet /\ \A c \in pc[q].rest : c.kind = "recovery" /\ CodeOK(c)'
    BY <1>2 DEF Carries
  <2>2. "code" \in f => CodeOK(pc[q].code)'
    <3>1. \A c : c = pc[q].code /\ "code" \in f => CodeOK(c)'
      BY <1>2 DEF Carries
    <3> QED
      BY <3>1 DEF CodeOK
  <2> QED
    BY <1>1, <2>1, <2>2 DEF Carries, Grows
<1>4. \A q \in Threads : Manages(q) /\ pc'[q] = pc[q] => Manages(q)'
  BY DEF Manages
<1>5. ASSUME NEW q \in Threads, RequestOK(q), pc'[q] = pc[q]
      PROVE  RequestOK(q)'
  <2>1. \A where : At(q, where)' <=> At(q, where)
    BY <1>5 DEF At
  <2> QED
    BY <1>3, <1>4, <1>5, <2>1 DEF RequestOK
<1> QED
  BY <1>2, <1>5

LEMMA TablesKept ==
  ASSUME ScalarsOK, ScalarsOK', TablesOK, Grows
  PROVE  /\ recovery' \subseteq recovery => RecoveryOK'
         /\ devices' \subseteq devices => DevicesOK'
         /\ \A id \in DOMAIN chals : chals'[id] = chals[id] => ChallengeOK(id)'
<1>1. /\ made.bindings \in Nat /\ made.batches \in Nat /\ made.chals \in Nat
      /\ made'.bindings \in Nat /\ made'.batches \in Nat /\ made'.chals \in Nat
  BY DEF ScalarsOK
<1>2. \A c : CodeOK(c) /\ c \in CodeSet => CodeOK(c)'
  BY OthersKept
<1>3. ASSUME recovery' \subseteq recovery PROVE RecoveryOK'
  <2>1. \A c \in recovery : c.kind = "recovery" /\ c \in CodeSet /\ CodeOK(c)
    BY DEF TablesOK, RecoveryOK
  <2> QED
    BY <1>2, <1>3, <2>1 DEF RecoveryOK
<1>4. devices' \subseteq devices => DevicesOK'
  BY <1>1 DEF TablesOK, DevicesOK, Grows
<1>5. \A id \in DOMAIN chals : chals'[id] = chals[id] => ChallengeOK(id)'
  BY <1>1 DEF TablesOK, ChallengeOK, Grows
<1> QED
  BY <1>3, <1>4, <1>5

\* A request goes on, and the numbers grow at most.
LEMMA StepTyped ==
  ASSUME TypeInv, ScalarsOK', Grows, NEW r \in Threads, NEW rec, Goto(r, rec),
         TablesOK', GuardsOK', RequestOK(r)'
  PROVE  TypeInv'
<1>1. \A q \in Threads : q # r => pc'[q] = pc[q]
  BY GotoFacts DEF TypeInv
<1>2. \A q \in Threads : RequestOK(q)'
  BY <1>1, OthersKept DEF TypeInv
<1> QED
  BY <1>2, GotoFacts DEF TypeInv

\* No table and no number changes but those of the guard.
LEMMA GuardStepTyped ==
  ASSUME TypeInv, NEW r \in Threads, NEW rec, Goto(r, rec), RequestOK(r)', GuardsOK',
         left' \in Nat, UNCHANGED <<world, faults, settings, devices, pending, chals, made, opened, torn>>
  PROVE  TypeInv'
<1>1. ScalarsOK' /\ Grows
  BY DEF TypeInv, ScalarsOK, Grows, world, settings, Start
<1>2. TablesOK'
  BY <1>1, TablesKept DEF TypeInv, TablesOK, settings
<1> QED
  BY <1>1, <1>2, StepTyped

LEMMA TypedFacts ==
  ASSUME ScalarsOK, NEW code \in Typed
  PROVE  code \in CodeSet /\ CodeOK(code)
<1>1. /\ made.bindings \in Nat /\ made.batches \in Nat /\ now \in Nat /\ now > Skew /\ Skew \in Nat
      /\ secret \in 0..made.bindings /\ pending \in 0..made.bindings /\ CodesPerBatch \in Nat
  BY TwoFactorBounds, SkewAssumption DEF ScalarsOK, Start
<1>2. ASSUME NEW b \in {secret, pending}, NEW n \in (now - Skew)..(now + Skew), code = Totp(b, n)
      PROVE  code \in CodeSet /\ CodeOK(code)
  BY <1>1, <1>2 DEF Totp, CodeSet, CodeOK
<1>3. ASSUME NEW b \in 0..made.bindings, NEW g \in 1..made.batches, code \in Batch(b, g)
      PROVE  code \in CodeSet /\ CodeOK(code)
  BY <1>1, <1>3 DEF Batch, CodeSet, CodeOK
<1>4. CASE code = WrongCode
  BY <1>1, <1>4 DEF WrongCode, CodeSet, CodeOK
<1>5. code \in Present \/ code \in Printed \/ code = WrongCode
  BY DEF Typed
<1>6. ASSUME code \in Present PROVE code \in CodeSet /\ CodeOK(code)
  BY <1>2, <1>6 DEF Present
<1>7. ASSUME code \in Printed PROVE code \in CodeSet /\ CodeOK(code)
  <2>1. PICK b \in 0..made.bindings, g \in 1..made.batches : code \in Batch(b, g)
    BY <1>7 DEF Printed
  <2> QED
    BY <1>3, <2>1
<1> QED
  BY <1>4, <1>5, <1>6, <1>7

-----------------------------------------------------------------------------
(* The steps of a request keep the types *)

LEMMA IdleOK == ASSUME NEW r, pc'[r] = Idle PROVE RequestOK(r)'
  BY DEF RequestOK, At, Idle, Stages, FactorStages

LEMMA BeginTyped ==
  ASSUME TypeInv, NEW r \in Threads, NEW c \in Clients, NEW what, NEW account \in {Account, NoAccount},
         Begin(r, c, what, account)
  PROVE  TypeInv'
<1>1. pc'[r] = [at |-> "password", what |-> what, client |-> c, account |-> account]
  BY GotoFacts DEF Begin, TypeInv
<1>2. RequestOK(r)'
  <2>1. pc'[r].at = "password" /\ pc'[r].client \in Clients /\ pc'[r].account \in {Account, NoAccount}
    BY <1>1
  <2> QED
    BY <2>1 DEF RequestOK, At, Carries, Stages
<1>3. left' \in Nat
  <2>1. left \in Nat
    BY DEF TypeInv, ScalarsOK
  <2>2. left > 0 /\ left' = left - 1
    BY DEF Begin
  <2> QED
    BY <2>1, <2>2
<1>4. GuardsOK'
  BY SameGuard DEF Begin, TypeInv, world
<1> QED
  BY <1>2, <1>3, <1>4, GuardStepTyped DEF Begin

LEMMA PasswordWrongTyped ==
  ASSUME TypeInv, NEW r \in Threads, PasswordWrong(r)
  PROVE  TypeInv'
<1>1. pc'[r] = Idle
  BY GotoFacts DEF PasswordWrong, TypeInv
<1>2. RequestOK(r)'
  BY <1>1, IdleOK
<1>3. left' \in Nat /\ now' = now /\ now \in Nat
  BY TwoFactorBounds, SkewAssumption DEF PasswordWrong, TypeInv, ScalarsOK, world, Start
<1>4. pc[r].client \in Clients /\ pc[r].account \in {Account, NoAccount}
  BY DEF PasswordWrong, TypeInv, RequestOK, Carries
<1>5. GuardsOK'
  BY <1>3, <1>4, FailFacts DEF PasswordWrong, TypeInv
<1> QED
  BY <1>2, <1>3, <1>5, GuardStepTyped DEF PasswordWrong

LEMMA LoginPasswordTyped ==
  ASSUME TypeInv, NEW r \in Threads, LoginPassword(r)
  PROVE  TypeInv'
<1>1. pc[r].client \in Clients
  BY DEF LoginPassword, PasswordRight, TypeInv, RequestOK, Carries
<1>2. pc'[r] = IF Enabled THEN [at |-> "factor", client |-> pc[r].client] ELSE Idle
  BY GotoFacts DEF LoginPassword, TypeInv
<1>3. RequestOK(r)'
  <2>1. CASE Enabled
    BY <1>1, <1>2, <2>1 DEF RequestOK, At, Carries, Stages
  <2>2. CASE ~ Enabled
    BY <1>2, <2>2, IdleOK
  <2> QED
    BY <2>1, <2>2
<1>4. left' \in Nat /\ now' = now /\ now \in Nat
  BY TwoFactorBounds, SkewAssumption DEF LoginPassword, TypeInv, ScalarsOK, world, Start
<1>5. GuardsOK'
  BY <1>1, <1>4, SuccessFacts DEF LoginPassword, TypeInv
<1> QED
  BY <1>3, <1>4, <1>5, GuardStepTyped DEF LoginPassword

LEMMA LoginDeviceTyped ==
  ASSUME TypeInv, NEW r \in Threads, LoginDevice(r)
  PROVE  TypeInv'
<1>1. pc'[r] = Idle
  BY GotoFacts DEF LoginDevice, TypeInv
<1>2. RequestOK(r)' /\ GuardsOK'
  BY <1>1, IdleOK, SameGuard DEF LoginDevice, TypeInv, world
<1> QED
  BY <1>2, GuardStepTyped DEF LoginDevice, TypeInv, ScalarsOK

LEMMA LoginChallengeTyped ==
  ASSUME TypeInv, NEW r \in Threads, LoginChallenge(r)
  PROVE  TypeInv'
<1>1. pc[r].client \in Clients
  BY DEF LoginChallenge, At, TypeInv, RequestOK, Carries
<1>2. pc'[r] = Idle
  BY GotoFacts DEF LoginChallenge, TypeInv
<1>3. RequestOK(r)' /\ GuardsOK'
  BY <1>2, IdleOK, SameGuard DEF LoginChallenge, TypeInv, world
<1>4. /\ made' = [made EXCEPT !.chals = made.chals + 1]
      /\ chals' = [k \in DOMAIN chals \union {made.chals + 1} |->
                     IF k = made.chals + 1 THEN [client |-> pc[r].client, attempts |-> 0] ELSE chals[k]]
      /\ UNCHANGED <<sc, now, left, faults, secret, enabled, lastStep, recovery, pending, opened, torn>>
      /\ devices' \subseteq devices
  BY DEF LoginChallenge, world, settings
<1>5. made' = [bindings |-> made.bindings, batches |-> made.batches, chals |-> made.chals + 1]
  BY <1>4 DEF TypeInv, ScalarsOK
<1>6. ScalarsOK' /\ Grows
  BY <1>4, <1>5 DEF TypeInv, ScalarsOK, Grows, Start
<1>7. \A id \in DOMAIN chals' : ChallengeOK(id)'
  <2> SUFFICES ASSUME NEW id \in DOMAIN chals' PROVE ChallengeOK(id)'
    OBVIOUS
  <2>1. CASE id = made.chals + 1
    <3>1. chals'[id] = [client |-> pc[r].client, attempts |-> 0]
      BY <1>4, <2>1
    <3> QED
      BY <1>1, <1>5, <2>1, <3>1, TwoFactorBounds DEF ChallengeOK, TypeInv, ScalarsOK
  <2>2. CASE id # made.chals + 1
    <3>1. id \in DOMAIN chals /\ chals'[id] = chals[id]
      BY <1>4, <2>2
    <3> QED
      BY <1>6, <3>1, TablesKept DEF TypeInv
  <2> QED
    BY <2>1, <2>2
<1>8. TablesOK'
  BY <1>4, <1>6, <1>7, TablesKept DEF TypeInv, TablesOK
<1> QED
  BY <1>3, <1>6, <1>8, StepTyped DEF LoginChallenge

LEMMA SetupPasswordTyped ==
  ASSUME TypeInv, NEW r \in Threads, SetupPassword(r)
  PROVE  TypeInv'
<1>1. pc[r].client \in Clients
  BY DEF SetupPassword, PasswordRight, TypeInv, RequestOK, Carries
<1>2. pc'[r] = Idle
  BY GotoFacts DEF SetupPassword, TypeInv
<1>3. now' = now /\ now \in Nat
  BY TwoFactorBounds, SkewAssumption DEF SetupPassword, TypeInv, ScalarsOK, world, Start
<1>4. RequestOK(r)' /\ GuardsOK'
  BY <1>1, <1>2, <1>3, IdleOK, SuccessFacts DEF SetupPassword, TypeInv
<1>5. /\ UNCHANGED <<sc, now, left, faults, secret, enabled, lastStep, recovery, devices, chals, opened, torn>>
      /\ \/ UNCHANGED <<pending, made>>
         \/ /\ made.bindings < MaxBindings /\ pending' = made.bindings + 1
            /\ made' = [made EXCEPT !.bindings = made.bindings + 1]
  BY DEF SetupPassword, world, settings
<1>6. ScalarsOK' /\ Grows
  <2>1. CASE UNCHANGED <<pending, made>>
    BY <1>5, <2>1 DEF TypeInv, ScalarsOK, Grows, Start
  <2>2. CASE ~ UNCHANGED <<pending, made>>
    <3>1. /\ made' = [bindings |-> made.bindings + 1, batches |-> made.batches, chals |-> made.chals]
          /\ made.bindings < MaxBindings /\ pending' = made.bindings + 1
      BY <1>5, <2>2 DEF TypeInv, ScalarsOK
    <3> QED
      BY <1>5, <3>1, TwoFactorBounds DEF TypeInv, ScalarsOK, Grows, Start
  <2> QED
    BY <2>1, <2>2
<1>7. TablesOK'
  BY <1>5, <1>6, TablesKept DEF TypeInv, TablesOK
<1> QED
  BY <1>4, <1>6, <1>7, StepTyped DEF SetupPassword

LEMMA ManagePasswordTyped ==
  ASSUME TypeInv, NEW r \in Threads, NEW what \in {"disable", "recovery", "change"}, ManagePassword(r, what)
  PROVE  TypeInv'
<1>1. pc[r].client \in Clients
  BY DEF ManagePassword, PasswordRight, TypeInv, RequestOK, Carries
<1>2. PICK at \in {"manage", "clear", "forget"} :
         Goto(r, [at |-> at, what |-> what, client |-> pc[r].client, k |-> 1])
  <2> DEFINE at == IF Enabled \/ what = "recovery" THEN "manage"
                   ELSE IF what = "disable" THEN "clear" ELSE "forget"
  <2>1. Goto(r, [at |-> at, what |-> what, client |-> pc[r].client, k |-> 1])
    BY DEF ManagePassword
  <2>2. at \in {"manage", "clear", "forget"}
    OBVIOUS
  <2> QED
    BY <2>1, <2>2
<1>3. pc'[r] = [at |-> at, what |-> what, client |-> pc[r].client, k |-> 1]
  BY <1>2, GotoFacts DEF TypeInv
<1>4. Len(ClearSteps) = 6
  BY DEF ClearSteps
<1>5. RequestOK(r)'
  BY <1>1, <1>3, <1>4 DEF RequestOK, At, Carries, Manages, Stages, FactorStages
<1>6. GuardsOK' /\ left' \in Nat
  BY SameGuard DEF ManagePassword, TypeInv, world, ScalarsOK
<1> QED
  BY <1>2, <1>5, <1>6, GuardStepTyped DEF ManagePassword

LEMMA AnswerTyped ==
  ASSUME TypeInv, NEW r \in Threads, NEW id \in DOMAIN chals, NEW code \in Typed, NEW remember,
         Answer(r, id, code, remember)
  PROVE  TypeInv'
<1>1. chals[id].client \in Clients /\ id \in 1..made.chals
  BY DEF TypeInv, TablesOK, ChallengeOK
<1>2. code \in CodeSet /\ CodeOK(code)
  BY TypedFacts DEF TypeInv
<1>3. pc'[r] = [at |-> "code", client |-> chals[id].client, id |-> id, code |-> code, remember |-> remember]
  BY GotoFacts DEF Answer, TypeInv
<1>4. UNCHANGED <<made, now>>
  BY DEF Answer, world
<1>5. RequestOK(r)'
  <2>1. CodeOK(code)'
    BY <1>2, <1>4 DEF CodeOK
  <2>2. \A c : c = pc'[r].code => c = code
    BY <1>3
  <2>3. CodeOK(pc[r].code)'
    BY <2>1, <2>2 DEF CodeOK
  <2> QED
    BY <1>1, <1>2, <1>3, <1>4, <2>3 DEF RequestOK, At, Carries, Stages, FactorStages
<1>6. GuardsOK'
  BY SameGuard DEF Answer, TypeInv, world
<1>7. left' \in Nat
  BY DEF Answer, TypeInv, ScalarsOK
<1> QED
  BY <1>3, <1>5, <1>6, <1>7, GuardStepTyped DEF Answer

LEMMA CheckCodeTyped ==
  ASSUME TypeInv, NEW r \in Threads, CheckCode(r)
  PROVE  TypeInv'
<1>1. Carries(r, {"client", "id", "code"})
  BY DEF CheckCode, At, TypeInv, RequestOK
<1>2. PICK code, rest : code = pc[r].code /\ rest = recovery \ {code}
  OBVIOUS
<1>3. /\ pc[r].client \in Clients /\ pc[r].id \in 1..made.chals /\ code \in CodeSet /\ CodeOK(code)
      /\ rest \in SUBSET CodeSet /\ \A c \in rest : c.kind = "recovery" /\ CodeOK(c)
  BY <1>1, <1>2 DEF Carries, TypeInv, TablesOK, RecoveryOK
<1>4. UNCHANGED <<made, now>>
  BY DEF CheckCode, world
<1>5. \A c : CodeOK(c)' <=> CodeOK(c)
  BY <1>4 DEF CodeOK
<1>6. \/ pc'[r] = [at |-> "spend", client |-> pc[r].client, id |-> pc[r].id, code |-> code,
                   remember |-> pc[r].remember, rest |-> rest]
      \/ pc'[r] = [at |-> "failed", client |-> pc[r].client, id |-> pc[r].id]
  BY <1>2, GotoFacts DEF CheckCode, TypeInv
<1>7. RequestOK(r)'
  <2>1. CASE pc'[r] = [at |-> "spend", client |-> pc[r].client, id |-> pc[r].id, code |-> code,
                       remember |-> pc[r].remember, rest |-> rest]
    <3>1. CodeOK(pc[r].code)' /\ \A c \in pc'[r].rest : CodeOK(c)'
      <4>1. \A c : c = pc'[r].code => CodeOK(c)'
        BY <1>3, <1>5, <2>1
      <4> QED
        BY <1>3, <1>5, <2>1, <4>1 DEF CodeOK
    <3> QED
      BY <1>3, <1>4, <2>1, <3>1 DEF RequestOK, At, Carries, Stages, FactorStages
  <2>2. CASE pc'[r] = [at |-> "failed", client |-> pc[r].client, id |-> pc[r].id]
    BY <1>3, <1>4, <2>2 DEF RequestOK, At, Carries, Stages
  <2> QED
    BY <1>6, <2>1, <2>2
<1>8. GuardsOK' /\ left' \in Nat
  BY SameGuard DEF CheckCode, TypeInv, world, ScalarsOK
<1> QED
  BY <1>7, <1>8, GuardStepTyped DEF CheckCode

\* What a fault leaves of the scalars.
LEMMA FaultTyped ==
  ASSUME ScalarsOK, NEW what, MayFault(what), UNCHANGED <<sc, left, now, made, settings, pending>>,
         torn' \in 0..(torn + 1)
  PROVE  ScalarsOK' /\ Grows
BY TwoFactorBounds DEF ScalarsOK, Grows, MayFault, settings, Start

LEMMA SpendCodeTyped ==
  ASSUME TypeInv, NEW r \in Threads, SpendCode(r)
  PROVE  TypeInv'
<1>1. Carries(r, {"client", "id", "code", "rest"})
  BY DEF SpendCode, At, TypeInv, RequestOK
<1>2. PICK code, rest : code = pc[r].code /\ rest = pc[r].rest
  OBVIOUS
<1>3. /\ pc[r].client \in Clients /\ pc[r].id \in 1..made.chals /\ code \in CodeSet /\ CodeOK(code)
      /\ rest \in SUBSET CodeSet /\ \A c \in rest : c.kind = "recovery" /\ CodeOK(c)
  BY <1>1, <1>2 DEF Carries
<1>4. UNCHANGED <<sc, left, now, made, secret, enabled, devices, pending, chals, guard, opened, torn>>
  BY DEF SpendCode, world
<1>5. \A c : CodeOK(c)' <=> CodeOK(c)
  BY <1>4 DEF CodeOK
<1>6. \/ /\ \/ code.kind = "totp" /\ lastStep' = code.n /\ UNCHANGED recovery
            \/ code.kind = "recovery" /\ recovery' = rest /\ UNCHANGED lastStep
         /\ Goto(r, [at |-> "accepted", client |-> pc[r].client, id |-> pc[r].id,
                     code |-> code, remember |-> pc[r].remember])
         /\ UNCHANGED faults
      \/ /\ MayFault("writeFail")
         /\ Goto(r, [at |-> "failed", client |-> pc[r].client, id |-> pc[r].id])
         /\ UNCHANGED <<lastStep, recovery>>
  BY <1>2, <1>3 DEF SpendCode, CodeOK
<1>7. RequestOK(r)'
  <2>1. CASE Goto(r, [at |-> "accepted", client |-> pc[r].client, id |-> pc[r].id,
                      code |-> code, remember |-> pc[r].remember])
    <3>1. pc'[r] = [at |-> "accepted", client |-> pc[r].client, id |-> pc[r].id,
                    code |-> code, remember |-> pc[r].remember]
      BY <2>1, GotoFacts DEF TypeInv
    <3>2. \A c : c = pc'[r].code => CodeOK(c)'
      BY <1>3, <1>5, <3>1
    <3>3. CodeOK(pc[r].code)'
      BY <3>2 DEF CodeOK
    <3> QED
      BY <1>3, <1>4, <3>1, <3>3 DEF RequestOK, At, Carries, Stages, FactorStages
  <2>2. CASE Goto(r, [at |-> "failed", client |-> pc[r].client, id |-> pc[r].id])
    <3>1. pc'[r] = [at |-> "failed", client |-> pc[r].client, id |-> pc[r].id]
      BY <2>2, GotoFacts DEF TypeInv
    <3> QED
      BY <1>3, <1>4, <3>1 DEF RequestOK, At, Carries, Stages
  <2> QED
    BY <1>6, <2>1, <2>2
<1>8. ScalarsOK' /\ Grows
  <2>1. CASE MayFault("writeFail") /\ UNCHANGED <<lastStep, recovery>>
    BY <1>4, <2>1, FaultTyped DEF TypeInv, settings, ScalarsOK
  <2>2. CASE UNCHANGED faults /\ lastStep' \in {lastStep, code.n} /\ (lastStep' = code.n => code.kind = "totp" \/ lastStep' = lastStep)
    <3>1. lastStep' \in 0..(now + Skew)
      BY <1>3, <2>2, SkewAssumption, TwoFactorBounds DEF CodeOK, CodeSet, TypeInv, ScalarsOK, Start
    <3> QED
      BY <1>4, <2>2, <3>1 DEF TypeInv, ScalarsOK, Grows, Start
  <2> QED
    BY <1>6, <2>1, <2>2
<1>9. TablesOK'
  <2>1. RecoveryOK'
    <3>1. CASE UNCHANGED recovery
      BY <1>8, <3>1, TablesKept DEF TypeInv
    <3>2. CASE recovery' = rest
      BY <1>3, <1>5, <3>2 DEF RecoveryOK
    <3> QED
      BY <1>6, <3>1, <3>2
  <2> QED
    BY <1>4, <1>8, <2>1, TablesKept DEF TypeInv, TablesOK
<1>10. GuardsOK'
  BY <1>4, SameGuard DEF TypeInv
<1> QED
  BY <1>6, <1>7, <1>8, <1>9, <1>10, StepTyped

LEMMA AnswerFailedTyped ==
  ASSUME TypeInv, NEW r \in Threads, AnswerFailed(r)
  PROVE  TypeInv'
<1>1. pc[r].client \in Clients
  BY DEF AnswerFailed, At, TypeInv, RequestOK, Carries
<1>2. pc'[r] = Idle
  BY GotoFacts DEF AnswerFailed, TypeInv
<1>3. now' = now /\ now \in Nat
  BY TwoFactorBounds, SkewAssumption DEF AnswerFailed, TypeInv, ScalarsOK, world, Start
<1>4. RequestOK(r)'
  BY <1>2, IdleOK
<1>5. GuardsOK'
  <2>1. Fail(pc[r].client, Account)
    BY DEF AnswerFailed
  <2> QED
    BY <1>1, <1>3, <2>1, FailFacts DEF TypeInv
<1>6. ScalarsOK' /\ Grows
  BY DEF AnswerFailed, TypeInv, ScalarsOK, Grows, world, settings, Start
<1>7. PICK id : id = pc[r].id
  OBVIOUS
<1>8. chals' = IF id \notin DOMAIN chals THEN chals
               ELSE IF chals[id].attempts + 1 >= MaxTries THEN [k \in DOMAIN chals \ {id} |-> chals[k]]
               ELSE [chals EXCEPT ![id].attempts = chals[id].attempts + 1]
  BY <1>7 DEF AnswerFailed
<1>9. \A k \in DOMAIN chals' : ChallengeOK(k)'
  <2> SUFFICES ASSUME NEW k \in DOMAIN chals' PROVE ChallengeOK(k)'
    OBVIOUS
  <2>1. k \in DOMAIN chals /\ ChallengeOK(k)
    <3>1. DOMAIN chals' \subseteq DOMAIN chals
      BY <1>8
    <3> QED
      BY <3>1 DEF TypeInv, TablesOK
  <2>2. CASE chals'[k] = chals[k]
    BY <1>6, <2>1, <2>2, TablesKept DEF TypeInv
  <2>3. CASE chals'[k] # chals[k]
    <3>1. id = k /\ ~ (chals[k].attempts + 1 >= MaxTries)
      BY <1>8, <2>1, <2>3
    <3>2. chals'[k] = [chals[k] EXCEPT !.attempts = chals[k].attempts + 1]
      BY <1>8, <2>1, <3>1
    <3>3. chals'[k] = [client |-> chals[k].client, attempts |-> chals[k].attempts + 1]
      BY <2>1, <3>2 DEF ChallengeOK
    <3>4. made' = made
      BY DEF AnswerFailed
    <3> QED
      BY <2>1, <3>1, <3>3, <3>4, TwoFactorBounds DEF ChallengeOK
  <2> QED
    BY <2>2, <2>3
<1>10. TablesOK'
  <2>1. UNCHANGED <<recovery, devices, opened>>
    BY DEF AnswerFailed, settings
  <2> QED
    BY <1>6, <1>9, <2>1, TablesKept DEF TypeInv, TablesOK
<1> QED
  BY <1>4, <1>5, <1>6, <1>10, StepTyped DEF AnswerFailed

LEMMA AnswerAcceptedTyped ==
  ASSUME TypeInv, NEW r \in Threads, AnswerAccepted(r)
  PROVE  TypeInv'
<1>1. Carries(r, {"client", "id", "code"})
  BY DEF AnswerAccepted, At, TypeInv, RequestOK
<1>2. PICK code, id : code = pc[r].code /\ id = pc[r].id
  OBVIOUS
<1>3. pc[r].client \in Clients /\ id \in 1..made.chals /\ code \in CodeSet /\ CodeOK(code)
  BY <1>1, <1>2 DEF Carries
<1>4. /\ UNCHANGED <<sc, now, left, faults, secret, enabled, lastStep, recovery, devices, pending, made, torn>>
      /\ chals' = [k \in DOMAIN chals \ {id} |-> chals[k]]
      /\ opened' = Append(opened, [code |-> code, id |-> id])
      /\ Success(pc[r].client)
      /\ \/ Goto(r, [at |-> "remember", client |-> pc[r].client, bind |-> code.bind])
         \/ Goto(r, Idle)
  BY <1>2 DEF AnswerAccepted, world, settings
<1>5. ScalarsOK' /\ Grows
  BY <1>4 DEF TypeInv, ScalarsOK, Grows, Start
<1>6. RequestOK(r)'
  <2>1. CASE Goto(r, Idle)
    BY <2>1, GotoFacts, IdleOK DEF TypeInv
  <2>2. CASE Goto(r, [at |-> "remember", client |-> pc[r].client, bind |-> code.bind])
    <3>1. pc'[r] = [at |-> "remember", client |-> pc[r].client, bind |-> code.bind]
      BY <2>2, GotoFacts DEF TypeInv
    <3> QED
      BY <1>3, <1>4, <3>1 DEF RequestOK, At, Carries, Stages, FactorStages, CodeOK
  <2> QED
    BY <1>4, <2>1, <2>2
<1>7. GuardsOK'
  <2>1. now' = now /\ now \in Nat
    BY SMTT(20), <1>4, TwoFactorBounds, SkewAssumption DEF TypeInv, ScalarsOK, Start
  <2> QED
    BY <1>3, <1>4, <2>1, SuccessFacts DEF TypeInv
<1>8. TablesOK'
  <2>1. opened' \in Seq([code : CodeSet, id : Nat])
    <3>1. id \in Nat
      BY <1>3 DEF TypeInv, ScalarsOK
    <3>2. [code |-> code, id |-> id] \in [code : CodeSet, id : Nat]
      BY <1>3, <3>1
    <3> QED
      BY <1>4, <3>2, AppendProperties DEF TypeInv, TablesOK
  <2>2. \A k \in DOMAIN chals' : k \in DOMAIN chals /\ chals'[k] = chals[k]
    BY <1>4
  <2> QED
    BY <1>4, <1>5, <2>1, <2>2, TablesKept DEF TypeInv, TablesOK
<1> QED
  BY <1>4, <1>5, <1>6, <1>7, <1>8, StepTyped

LEMMA RememberDeviceTyped ==
  ASSUME TypeInv, NEW r \in Threads, RememberDevice(r)
  PROVE  TypeInv'
<1>1. pc[r].client \in Clients /\ pc[r].bind \in 0..made.bindings
  BY DEF RememberDevice, At, TypeInv, RequestOK, Carries
<1>2. PICK d : d = [client |-> pc[r].client, bind |-> pc[r].bind]
  OBVIOUS
<1>3. /\ UNCHANGED <<sc, now, left, settings, pending, chals, guard, made, opened, torn>>
      /\ devices' \subseteq devices \union {d}
      /\ UNCHANGED faults \/ MayFault("writeFail")
      /\ Goto(r, Idle)
  BY <1>2 DEF RememberDevice, world
<1>4. RequestOK(r)' /\ GuardsOK'
  BY <1>3, GotoFacts, IdleOK, SameGuard DEF TypeInv
<1>5. ScalarsOK' /\ Grows
  <2>1. CASE UNCHANGED faults
    BY <1>3, <2>1 DEF TypeInv, ScalarsOK, Grows, settings, Start
  <2>2. CASE MayFault("writeFail")
    BY <1>3, <2>2, FaultTyped DEF TypeInv, ScalarsOK
  <2> QED
    BY <1>3, <2>1, <2>2
<1>6. TablesOK'
  <2>1. DevicesOK'
    BY <1>1, <1>2, <1>3 DEF TypeInv, TablesOK, DevicesOK
  <2> QED
    BY <1>3, <1>5, <2>1, TablesKept DEF TypeInv, TablesOK, settings
<1> QED
  BY <1>3, <1>4, <1>5, <1>6, StepTyped

LEMMA GrantedOK ==
  ASSUME NEW r \in Threads, NEW client \in Clients, NEW what \in {"disable", "recovery", "change"},
         pc'[r] = [at |-> Granted(what), what |-> what, client |-> client, k |-> 1]
  PROVE  RequestOK(r)'
<1>1. Len(ClearSteps) = 6
  BY DEF ClearSteps
<1>2. Granted(what) \in {"clear", "regen", "forget"}
  BY DEF Granted
<1> QED
  BY <1>1, <1>2 DEF RequestOK, At, Carries, Manages, Stages, FactorStages

LEMMA ManageCodeTyped ==
  ASSUME TypeInv, NEW r \in Threads, NEW code \in Typed, ManageCode(r, code)
  PROVE  TypeInv'
<1>1. Manages(r) /\ pc[r].k = 1
  BY DEF ManageCode, At, TypeInv, RequestOK
<1>2. PICK client, what : client = pc[r].client /\ what = pc[r].what
  OBVIOUS
<1>3. client \in Clients /\ what \in {"disable", "recovery", "change"}
  BY <1>1, <1>2 DEF Manages
<1>4. /\ UNCHANGED <<world, left, faults, settings, devices, pending, chals, made, opened, torn>>
      /\ left' \in Nat /\ now' = now /\ now \in Nat
  BY TwoFactorBounds, SkewAssumption DEF ManageCode, TypeInv, ScalarsOK, world, Start
<1>5. UNCHANGED guard => GuardsOK'
  BY <1>4, SameGuard DEF TypeInv
<1>6. \/ Goto(r, [pc[r] EXCEPT !.at = Granted(what)]) /\ UNCHANGED guard
      \/ /\ Goto(r, [at |-> "consume", what |-> what, client |-> client, k |-> 1, rest |-> recovery \ {code}])
         /\ UNCHANGED guard
      \/ Goto(r, Idle) /\ Fail(client, Account)
  BY <1>2 DEF ManageCode
<1>7. CASE Goto(r, [pc[r] EXCEPT !.at = Granted(what)]) /\ UNCHANGED guard
  <2>1. [pc[r] EXCEPT !.at = Granted(what)] = [at |-> Granted(what), what |-> what, client |-> client, k |-> 1]
    BY <1>1, <1>2 DEF Manages
  <2>2. pc'[r] = [at |-> Granted(what), what |-> what, client |-> client, k |-> 1]
    BY <1>7, <2>1, GotoFacts DEF TypeInv
  <2> QED
    BY <1>3, <1>4, <1>5, <1>7, <2>2, GrantedOK, GuardStepTyped
<1>8. CASE /\ Goto(r, [at |-> "consume", what |-> what, client |-> client, k |-> 1, rest |-> recovery \ {code}])
           /\ UNCHANGED guard
  <2>1. PICK rest : rest = recovery \ {code}
    OBVIOUS
  <2>2. pc'[r] = [at |-> "consume", what |-> what, client |-> client, k |-> 1, rest |-> rest]
    BY <1>8, <2>1, GotoFacts DEF TypeInv
  <2>3. rest \in SUBSET CodeSet /\ \A c \in rest : c.kind = "recovery" /\ CodeOK(c)'
    BY <1>4, <2>1 DEF TypeInv, TablesOK, RecoveryOK, CodeOK
  <2>4. \A c \in pc'[r].rest : CodeOK(c)'
    BY <2>2, <2>3
  <2>5. RequestOK(r)'
    BY <1>3, <2>2, <2>3, <2>4 DEF RequestOK, At, Carries, Stages, FactorStages
  <2> QED
    BY <1>4, <1>5, <1>8, <2>5, GuardStepTyped
<1>9. CASE Goto(r, Idle) /\ Fail(client, Account)
  <2>1. RequestOK(r)' /\ GuardsOK'
    BY <1>3, <1>4, <1>9, GotoFacts, IdleOK, FailFacts DEF TypeInv
  <2> QED
    BY <1>4, <1>9, <2>1, GuardStepTyped
<1> QED
  BY <1>6, <1>7, <1>8, <1>9

LEMMA ManageConsumeTyped ==
  ASSUME TypeInv, NEW r \in Threads, ManageConsume(r)
  PROVE  TypeInv'
<1>1. Carries(r, {"client", "rest"}) /\ pc[r].what \in {"disable", "recovery", "change"}
  BY DEF ManageConsume, At, TypeInv, RequestOK
<1>2. PICK client, what, rest : client = pc[r].client /\ what = pc[r].what /\ rest = pc[r].rest
  OBVIOUS
<1>3. /\ client \in Clients /\ what \in {"disable", "recovery", "change"}
      /\ rest \in SUBSET CodeSet /\ \A c \in rest : c.kind = "recovery" /\ CodeOK(c)
  BY <1>1, <1>2 DEF Carries
<1>4. /\ UNCHANGED <<sc, now, left, secret, enabled, lastStep, devices, pending, chals, made, opened, torn>>
      /\ now \in Nat
  BY TwoFactorBounds, SkewAssumption DEF ManageConsume, TypeInv, ScalarsOK, world, Start
<1>5. \A c : CodeOK(c)' <=> CodeOK(c)
  BY <1>4 DEF CodeOK
<1>6. \/ /\ recovery' = rest /\ UNCHANGED <<faults, guard>>
         /\ Goto(r, [at |-> Granted(what), what |-> what, client |-> client, k |-> 1])
      \/ MayFault("writeFail") /\ Fail(client, Account) /\ Goto(r, Idle) /\ UNCHANGED recovery
  BY <1>2 DEF ManageConsume
<1>7. CASE /\ recovery' = rest /\ UNCHANGED <<faults, guard>>
           /\ Goto(r, [at |-> Granted(what), what |-> what, client |-> client, k |-> 1])
  <2>1. ScalarsOK' /\ Grows
    BY <1>4, <1>7 DEF TypeInv, ScalarsOK, Grows, Start
  <2>2. pc'[r] = [at |-> Granted(what), what |-> what, client |-> client, k |-> 1]
    BY <1>7, GotoFacts DEF TypeInv
  <2>3. RequestOK(r)' /\ GuardsOK'
    BY <1>3, <1>4, <1>7, <2>2, GrantedOK, SameGuard DEF TypeInv
  <2>4. RecoveryOK'
    BY <1>3, <1>5, <1>7 DEF RecoveryOK
  <2>5. TablesOK'
    BY <1>4, <2>1, <2>4, TablesKept DEF TypeInv, TablesOK
  <2> QED
    BY <1>7, <2>1, <2>3, <2>5, StepTyped
<1>8. CASE MayFault("writeFail") /\ Fail(client, Account) /\ Goto(r, Idle) /\ UNCHANGED recovery
  <2>1. ScalarsOK' /\ Grows
    BY <1>4, <1>8, FaultTyped DEF TypeInv, settings, ScalarsOK
  <2>2. RequestOK(r)' /\ GuardsOK'
    BY <1>3, <1>4, <1>8, GotoFacts, IdleOK, FailFacts DEF TypeInv
  <2>3. TablesOK'
    BY <1>4, <1>8, <2>1, TablesKept DEF TypeInv, TablesOK
  <2> QED
    BY <1>8, <2>1, <2>2, <2>3, StepTyped
<1> QED
  BY <1>6, <1>7, <1>8

LEMMA RegenCodesTyped ==
  ASSUME TypeInv, NEW r \in Threads, RegenCodes(r)
  PROVE  TypeInv'
<1>1. pc[r].client \in Clients
  BY DEF RegenCodes, At, TypeInv, RequestOK, Carries
<1>2. /\ UNCHANGED <<sc, now, left, secret, enabled, lastStep, devices, pending, chals, opened, torn>>
      /\ Goto(r, Idle) /\ now \in Nat
  BY TwoFactorBounds, SkewAssumption DEF RegenCodes, TypeInv, ScalarsOK, world, Start
<1>3. RequestOK(r)'
  BY <1>2, GotoFacts, IdleOK DEF TypeInv
<1>4. \/ /\ made.batches < MaxBatches /\ recovery' = Batch(secret, made.batches + 1)
         /\ made' = [made EXCEPT !.batches = made.batches + 1]
         /\ Success(pc[r].client) /\ UNCHANGED faults
      \/ MayFault("writeFail") /\ UNCHANGED <<recovery, made, guard>>
  BY DEF RegenCodes
<1>5. CASE MayFault("writeFail") /\ UNCHANGED <<recovery, made, guard>>
  <2>1. ScalarsOK' /\ Grows
    BY <1>2, <1>5, FaultTyped DEF TypeInv, settings, ScalarsOK
  <2>2. TablesOK'
    BY <1>2, <1>5, <2>1, TablesKept DEF TypeInv, TablesOK
  <2> QED
    BY <1>2, <1>3, <1>5, <2>1, <2>2, SameGuard, StepTyped DEF TypeInv
<1>6. CASE /\ made.batches < MaxBatches /\ recovery' = Batch(secret, made.batches + 1)
           /\ made' = [made EXCEPT !.batches = made.batches + 1]
           /\ Success(pc[r].client) /\ UNCHANGED faults
  <2>1. made' = [bindings |-> made.bindings, batches |-> made.batches + 1, chals |-> made.chals]
    BY <1>6 DEF TypeInv, ScalarsOK
  <2>2. ScalarsOK' /\ Grows
    BY <1>2, <1>6, <2>1, TwoFactorBounds DEF TypeInv, ScalarsOK, Grows, Start
  <2>3. RecoveryOK'
    BY <1>2, <1>6, <2>1, TwoFactorBounds DEF TypeInv, ScalarsOK, RecoveryOK, Batch, CodeSet, CodeOK
  <2>4. TablesOK'
    BY <1>2, <2>2, <2>3, TablesKept DEF TypeInv, TablesOK
  <2>5. GuardsOK'
    BY <1>1, <1>2, <1>6, SuccessFacts DEF TypeInv
  <2> QED
    BY <1>2, <1>3, <2>2, <2>4, <2>5, StepTyped
<1> QED
  BY <1>4, <1>5, <1>6

LEMMA ForgetDevicesTyped ==
  ASSUME TypeInv, NEW r \in Threads, ForgetDevices(r)
  PROVE  TypeInv'
<1>1. pc[r].client \in Clients
  BY DEF ForgetDevices, At, TypeInv, RequestOK, Carries
<1>2. /\ UNCHANGED <<sc, now, left, settings, pending, chals, made, opened, torn>>
      /\ Goto(r, Idle) /\ now \in Nat /\ devices' \subseteq devices
      /\ UNCHANGED faults \/ MayFault("writeFail")
      /\ UNCHANGED guard \/ Success(pc[r].client)
  BY TwoFactorBounds, SkewAssumption DEF ForgetDevices, TypeInv, ScalarsOK, world, Start
<1>3. RequestOK(r)'
  BY <1>2, GotoFacts, IdleOK DEF TypeInv
<1>4. ScalarsOK' /\ Grows
  <2>1. CASE UNCHANGED faults
    BY <1>2, <2>1 DEF TypeInv, ScalarsOK, Grows, settings, Start
  <2>2. CASE MayFault("writeFail")
    BY <1>2, <2>2, FaultTyped DEF TypeInv, ScalarsOK
  <2> QED
    BY <1>2, <2>1, <2>2
<1>5. TablesOK'
  BY <1>2, <1>4, TablesKept DEF TypeInv, TablesOK, settings
<1>6. GuardsOK'
  BY <1>1, <1>2, SameGuard, SuccessFacts DEF TypeInv
<1> QED
  BY <1>2, <1>3, <1>4, <1>5, <1>6, StepTyped

LEMMA ClearStepTyped ==
  ASSUME TypeInv, NEW r \in Threads, ClearStep(r)
  PROVE  TypeInv'
<1>1. Manages(r)
  BY DEF ClearStep, At, TypeInv, RequestOK
<1>2. PICK client, what, k : client = pc[r].client /\ what = pc[r].what /\ k = pc[r].k
  OBVIOUS
<1>3. /\ client \in Clients /\ what \in {"disable", "recovery", "change"} /\ k \in 1..6
      /\ pc[r] = [at |-> "clear", what |-> what, client |-> client, k |-> k]
  <2>1. pc[r].at = "clear"
    BY DEF ClearStep, At
  <2> QED
    BY <1>1, <1>2, <2>1 DEF Manages, ClearSteps
<1>4. UNCHANGED <<sc, now, left, made, chals, opened>> /\ now \in Nat
  BY SMTT(20), TwoFactorBounds, SkewAssumption DEF ClearStep, CutOff, TypeInv, ScalarsOK, world, Start
<1>5. \/ /\ secret' \in {0, secret} /\ enabled' \in BOOLEAN /\ lastStep' \in {0, lastStep}
         /\ recovery' \subseteq recovery /\ pending' \in {0, pending} /\ devices' \subseteq devices
         /\ UNCHANGED <<faults, torn>>
         /\ \/ Goto(r, Idle) /\ Success(client)
            \/ k < 6 /\ Goto(r, [pc[r] EXCEPT !.k = k + 1]) /\ UNCHANGED guard
      \/ CutOff(r)
  <2>1. PICK step : step = ClearSteps[k]
    OBVIOUS
  <2>2. \/ /\ secret' = IF step = "secret" THEN 0 ELSE secret
           /\ enabled' = (enabled /\ step # "enabled")
           /\ lastStep' = IF step = "lastStep" THEN 0 ELSE lastStep
           /\ recovery' = IF step = "recovery" THEN {} ELSE recovery
           /\ pending' = IF step = "pending" THEN 0 ELSE pending
           /\ devices' = IF step = "devices" THEN {} ELSE devices
           /\ UNCHANGED <<faults, torn>>
           /\ IF k = 6 THEN Success(client) ELSE UNCHANGED guard
           /\ Goto(r, IF k = 6 THEN Idle ELSE [pc[r] EXCEPT !.k = k + 1])
        \/ CutOff(r)
    <3>1. Len(ClearSteps) = 6
      BY DEF ClearSteps
    <3> QED
      BY <1>2, <2>1, <3>1 DEF ClearStep
  <2>3. enabled' = (enabled /\ step # "enabled") => enabled' \in BOOLEAN
    OBVIOUS
  <2> QED
    BY <1>3, <2>2, <2>3
<1>6. CASE CutOff(r)
  <2>1. /\ MayFault("writeFail") /\ torn' = torn + 1 /\ Goto(r, Idle)
        /\ UNCHANGED <<settings, devices, pending, guard, made>>
    BY <1>6 DEF CutOff
  <2>2. ScalarsOK' /\ Grows
    <3>1. torn' \in 0..(torn + 1)
      BY <2>1 DEF TypeInv, ScalarsOK
    <3> QED
      BY <1>4, <2>1, <3>1, FaultTyped DEF TypeInv
  <2>3. TablesOK'
    BY <1>4, <2>1, <2>2, TablesKept DEF TypeInv, TablesOK, settings
  <2> QED
    BY <1>4, <2>1, <2>2, <2>3, GotoFacts, IdleOK, SameGuard, StepTyped DEF TypeInv
<1>7. CASE /\ secret' \in {0, secret} /\ enabled' \in BOOLEAN /\ lastStep' \in {0, lastStep}
           /\ recovery' \subseteq recovery /\ pending' \in {0, pending} /\ devices' \subseteq devices
           /\ UNCHANGED <<faults, torn>>
           /\ \/ Goto(r, Idle) /\ Success(client)
              \/ k < 6 /\ Goto(r, [pc[r] EXCEPT !.k = k + 1]) /\ UNCHANGED guard
  <2>1. ScalarsOK' /\ Grows
    BY <1>4, <1>7, SkewAssumption DEF TypeInv, ScalarsOK, Grows, Start
  <2>2. TablesOK'
    BY <1>4, <1>7, <2>1, TablesKept DEF TypeInv, TablesOK
  <2>3. CASE Goto(r, Idle) /\ Success(client)
    BY <1>3, <1>4, <2>1, <2>2, <2>3, GotoFacts, IdleOK, SuccessFacts, StepTyped DEF TypeInv
  <2>4. CASE k < 6 /\ Goto(r, [pc[r] EXCEPT !.k = k + 1]) /\ UNCHANGED guard
    <3>1. [pc[r] EXCEPT !.k = k + 1] = [at |-> "clear", what |-> what, client |-> client, k |-> k + 1]
      BY <1>3
    <3>2. pc'[r] = [at |-> "clear", what |-> what, client |-> client, k |-> k + 1]
      BY <2>4, <3>1, GotoFacts DEF TypeInv
    <3>3. Len(ClearSteps) = 6 /\ k + 1 \in 1..6
      BY <1>3, <2>4 DEF ClearSteps
    <3>4. RequestOK(r)'
      BY <1>3, <3>2, <3>3 DEF RequestOK, At, Carries, Manages, Stages, FactorStages
    <3> QED
      BY <1>4, <2>1, <2>2, <2>4, <3>4, SameGuard, StepTyped DEF TypeInv
  <2> QED
    BY <1>7, <2>3, <2>4
<1> QED
  BY <1>5, <1>6, <1>7

LEMMA EnableCheckTyped ==
  ASSUME TypeInv, NEW r \in Threads, NEW c \in Clients, NEW code \in Typed, EnableCheck(r, c, code)
  PROVE  TypeInv'
<1>1. /\ UNCHANGED <<world, faults, settings, devices, pending, chals, made, opened, torn>>
      /\ left' \in Nat /\ now' = now /\ now \in Nat /\ made' = made /\ pending \in 0..made.bindings
  BY TwoFactorBounds, SkewAssumption DEF EnableCheck, TypeInv, ScalarsOK, world, Start
<1>2. \/ Goto(r, [at |-> "enable", client |-> c, bind |-> pending, k |-> 1]) /\ UNCHANGED guard
      \/ Fail(c, Account) /\ UNCHANGED pc
  BY DEF EnableCheck
<1>3. CASE Goto(r, [at |-> "enable", client |-> c, bind |-> pending, k |-> 1]) /\ UNCHANGED guard
  <2>1. pc'[r] = [at |-> "enable", client |-> c, bind |-> pending, k |-> 1]
    BY <1>3, GotoFacts DEF TypeInv
  <2>2. Len(EnableSteps) = 5
    BY DEF EnableSteps
  <2>3. RequestOK(r)'
    BY <1>1, <2>1, <2>2 DEF RequestOK, At, Carries, Stages, FactorStages
  <2> QED
    BY <1>1, <1>3, <2>3, SameGuard, GuardStepTyped DEF TypeInv
<1>4. CASE Fail(c, Account) /\ UNCHANGED pc
  <2>1. GuardsOK'
    BY <1>1, <1>4, FailFacts DEF TypeInv
  <2>2. Goto(r, pc[r])
    BY <1>4 DEF Goto, TypeInv, PcFunction
  <2>3. ScalarsOK' /\ Grows
    BY <1>1 DEF TypeInv, ScalarsOK, Grows, world, settings, Start
  <2>4. RequestOK(r)'
    BY <1>4, <2>3, OthersKept DEF TypeInv
  <2> QED
    BY <1>1, <2>1, <2>2, <2>4, GuardStepTyped
<1> QED
  BY <1>2, <1>3, <1>4

LEMMA EnableStepTyped ==
  ASSUME TypeInv, NEW r \in Threads, EnableStep(r)
  PROVE  TypeInv'
<1>1. PICK client, b, k : client = pc[r].client /\ b = pc[r].bind /\ k = pc[r].k
  OBVIOUS
<1>2. /\ client \in Clients /\ b \in 0..made.bindings /\ k \in 1..5
      /\ pc[r] = [at |-> "enable", client |-> client, bind |-> b, k |-> k]
  <2>1. Len(EnableSteps) = 5
    BY DEF EnableSteps
  <2> QED
    BY <1>1, <2>1 DEF EnableStep, At, TypeInv, RequestOK, Carries
<1>3. UNCHANGED <<sc, now, left, chals, opened>> /\ now \in Nat
  BY SMTT(20), TwoFactorBounds, SkewAssumption DEF EnableStep, CutOff, TypeInv, ScalarsOK, world, Start
<1>4. \/ /\ secret' \in {b, secret} /\ enabled' \in BOOLEAN /\ lastStep' \in {0, lastStep}
         /\ pending' \in {0, pending}
         /\ \/ made' = made /\ recovery' = recovery
            \/ /\ made.batches < MaxBatches /\ made' = [made EXCEPT !.batches = made.batches + 1]
               /\ recovery' = Batch(b, made.batches + 1)
         /\ UNCHANGED <<faults, torn, devices>>
         /\ \/ Goto(r, Idle) /\ Success(client)
            \/ k < 5 /\ Goto(r, [pc[r] EXCEPT !.k = k + 1]) /\ UNCHANGED guard
      \/ CutOff(r)
      \/ /\ k < 5 /\ MayFault("writeFail") /\ torn' \in {torn, torn + 1}
         /\ Goto(r, [pc[r] EXCEPT !.k = k + 1])
         /\ UNCHANGED <<settings, pending, made, guard, devices>>
  <2>1. PICK step : step = EnableSteps[k]
    OBVIOUS
  <2>2. k = 5 => step = "pending"
    BY <2>1 DEF EnableSteps
  <2>3. \/ /\ step = "recovery" => made.batches < MaxBatches
           /\ secret' = IF step = "secret" THEN b ELSE secret
           /\ enabled' = (enabled \/ step = "enabled")
           /\ lastStep' = IF step = "lastStep" THEN 0 ELSE lastStep
           /\ recovery' = IF step = "recovery" THEN Batch(b, made.batches + 1) ELSE recovery
           /\ made' = IF step = "recovery" THEN [made EXCEPT !.batches = made.batches + 1] ELSE made
           /\ pending' = IF step = "pending" THEN 0 ELSE pending
           /\ IF k = 5 THEN Success(client) ELSE UNCHANGED guard
           /\ Goto(r, IF k = 5 THEN Idle ELSE [pc[r] EXCEPT !.k = k + 1])
           /\ UNCHANGED <<faults, torn, devices>>
        \/ CutOff(r)
        \/ /\ step \in {"enabled", "lastStep"} /\ MayFault("writeFail")
           /\ torn' = IF step = "enabled" THEN torn + 1 ELSE torn
           /\ Goto(r, [pc[r] EXCEPT !.k = k + 1])
           /\ UNCHANGED <<settings, pending, made, guard, devices>>
    <3>1. Len(EnableSteps) = 5
      BY DEF EnableSteps
    <3> QED
      BY <1>1, <2>1, <3>1 DEF EnableStep
  <2>4. enabled' = (enabled \/ step = "enabled") => enabled' \in BOOLEAN
    OBVIOUS
  <2> QED
    BY <1>2, <2>2, <2>3, <2>4
<1>5. UNCHANGED guard => GuardsOK'
  BY <1>3, SameGuard DEF TypeInv
<1>6. ASSUME k < 5, Goto(r, [pc[r] EXCEPT !.k = k + 1]), Grows, ScalarsOK' PROVE RequestOK(r)'
  <2>1. [pc[r] EXCEPT !.k = k + 1] = [at |-> "enable", client |-> client, bind |-> b, k |-> k + 1]
    BY <1>2
  <2>2. pc'[r] = [at |-> "enable", client |-> client, bind |-> b, k |-> k + 1]
    BY <1>6, <2>1, GotoFacts DEF TypeInv
  <2>3. Len(EnableSteps) = 5 /\ k + 1 \in 1..5 /\ b \in 0..made'.bindings
    BY <1>2, <1>6 DEF EnableSteps, Grows, ScalarsOK, TypeInv
  <2> QED
    BY <1>2, <2>2, <2>3 DEF RequestOK, At, Carries, Stages, FactorStages
<1>7. CASE CutOff(r)
  <2>1. /\ MayFault("writeFail") /\ torn' = torn + 1 /\ Goto(r, Idle)
        /\ UNCHANGED <<settings, devices, pending, guard, made>>
    BY <1>7 DEF CutOff
  <2>2. ScalarsOK' /\ Grows
    <3>1. torn' \in 0..(torn + 1)
      BY <2>1 DEF TypeInv, ScalarsOK
    <3> QED
      BY <1>3, <2>1, <3>1, FaultTyped DEF TypeInv
  <2>3. TablesOK'
    BY <1>3, <2>1, <2>2, TablesKept DEF TypeInv, TablesOK, settings
  <2> QED
    BY <1>5, <2>1, <2>2, <2>3, GotoFacts, IdleOK, StepTyped DEF TypeInv
<1>8. CASE /\ k < 5 /\ MayFault("writeFail") /\ torn' \in {torn, torn + 1}
           /\ Goto(r, [pc[r] EXCEPT !.k = k + 1])
           /\ UNCHANGED <<settings, pending, made, guard, devices>>
  <2>1. ScalarsOK' /\ Grows
    <3>1. torn' \in 0..(torn + 1)
      BY <1>8 DEF TypeInv, ScalarsOK
    <3> QED
      BY <1>3, <1>8, <3>1, FaultTyped DEF TypeInv
  <2>2. TablesOK'
    BY <1>3, <1>8, <2>1, TablesKept DEF TypeInv, TablesOK, settings
  <2> QED
    BY <1>5, <1>6, <1>8, <2>1, <2>2, StepTyped DEF TypeInv
<1>9. CASE /\ secret' \in {b, secret} /\ enabled' \in BOOLEAN /\ lastStep' \in {0, lastStep}
           /\ pending' \in {0, pending}
           /\ \/ made' = made /\ recovery' = recovery
              \/ /\ made.batches < MaxBatches /\ made' = [made EXCEPT !.batches = made.batches + 1]
                 /\ recovery' = Batch(b, made.batches + 1)
           /\ UNCHANGED <<faults, torn, devices>>
           /\ \/ Goto(r, Idle) /\ Success(client)
              \/ k < 5 /\ Goto(r, [pc[r] EXCEPT !.k = k + 1]) /\ UNCHANGED guard
  <2>1. ScalarsOK' /\ Grows /\ RecoveryOK'
    <3>1. CASE made' = made /\ recovery' = recovery
      <4>1. ScalarsOK' /\ Grows
        BY <1>2, <1>3, <1>9, <3>1, SkewAssumption DEF TypeInv, ScalarsOK, Grows, Start
      <4> QED
        BY <3>1, <4>1, TablesKept DEF TypeInv
    <3>2. CASE /\ made.batches < MaxBatches /\ made' = [made EXCEPT !.batches = made.batches + 1]
               /\ recovery' = Batch(b, made.batches + 1)
      <4>1. made' = [bindings |-> made.bindings, batches |-> made.batches + 1, chals |-> made.chals]
        BY <3>2 DEF TypeInv, ScalarsOK
      <4>2. ScalarsOK' /\ Grows
        BY <1>2, <1>3, <1>9, <3>2, <4>1, SkewAssumption, TwoFactorBounds
        DEF TypeInv, ScalarsOK, Grows, Start
      <4>3. RecoveryOK'
        BY <1>2, <3>2, <4>1, TwoFactorBounds DEF TypeInv, ScalarsOK, RecoveryOK, Batch, CodeSet, CodeOK
      <4> QED
        BY <4>2, <4>3
    <3> QED
      BY <1>9, <3>1, <3>2
  <2>2. TablesOK'
    BY <1>3, <1>9, <2>1, TablesKept DEF TypeInv, TablesOK
  <2>3. CASE Goto(r, Idle) /\ Success(client)
    BY <1>2, <1>3, <2>1, <2>2, <2>3, GotoFacts, IdleOK, SuccessFacts, StepTyped DEF TypeInv
  <2>4. CASE k < 5 /\ Goto(r, [pc[r] EXCEPT !.k = k + 1]) /\ UNCHANGED guard
    BY <1>5, <1>6, <2>1, <2>2, <2>4, StepTyped DEF TypeInv
  <2> QED
    BY <1>9, <2>3, <2>4
<1> QED
  BY <1>4, <1>7, <1>8, <1>9

-----------------------------------------------------------------------------
(* What is not a step of a request *)

\* No request moves.
LEMMA RestTyped ==
  ASSUME TypeInv, ScalarsOK', Grows, UNCHANGED pc, TablesOK', GuardsOK'
  PROVE  TypeInv'
<1>1. \A q \in Threads : RequestOK(q)'
  BY OthersKept DEF TypeInv
<1> QED
  BY <1>1 DEF TypeInv, PcFunction

LEMMA ForeignTyped ==
  ASSUME TypeInv, NEW c, NEW id, AnswerForeign(c, id)
  PROVE  TypeInv'
<1>1. ScalarsOK' /\ Grows
  BY DEF AnswerForeign, TypeInv, ScalarsOK, Grows, world, settings, Start
<1>2. \A k \in DOMAIN chals' : k \in DOMAIN chals /\ chals'[k] = chals[k]
  BY DEF AnswerForeign
<1>3. TablesOK'
  BY <1>1, <1>2, TablesKept DEF AnswerForeign, TypeInv, TablesOK, settings
<1> QED
  BY <1>1, <1>3, SameGuard, RestTyped DEF AnswerForeign, TypeInv, world

LEMMA CleanupTyped ==
  ASSUME TypeInv, GuardCleanup
  PROVE  TypeInv'
<1>1. ScalarsOK' /\ Grows
  BY DEF GuardCleanup, TypeInv, ScalarsOK, Grows, settings, Start
<1>2. TablesOK'
  BY <1>1, TablesKept DEF GuardCleanup, TypeInv, TablesOK, settings
<1>3. \A x : EntryOK(x)' <=> EntryOK(x)
  BY DEF GuardCleanup, EntryOK
<1>4. /\ DOMAIN byIP' \subseteq DOMAIN byIP /\ DOMAIN byUser' \subseteq DOMAIN byUser
      /\ \A k \in DOMAIN byIP' : byIP'[k] = byIP[k]
      /\ \A k \in DOMAIN byUser' : byUser'[k] = byUser[k]
      /\ now' = now /\ failures' = failures
  BY DEF GuardCleanup, Cleanup
<1>5. GuardsOK'
  BY <1>3, <1>4 DEF TypeInv, GuardsOK
<1> QED
  BY <1>1, <1>2, <1>5, RestTyped DEF GuardCleanup

LEMMA ExpireTyped ==
  ASSUME TypeInv, Expire
  PROVE  TypeInv'
<1>1. ScalarsOK' /\ Grows
  BY DEF Expire, TypeInv, ScalarsOK, Grows, world, settings, Start
<1>2. \A k \in DOMAIN chals' : k \in DOMAIN chals /\ chals'[k] = chals[k]
  BY DEF Expire
<1>3. devices' \subseteq devices
  BY DEF Expire
<1>4. TablesOK'
  BY <1>1, <1>2, <1>3, TablesKept DEF Expire, TypeInv, TablesOK, settings
<1> QED
  BY <1>1, <1>4, SameGuard, RestTyped DEF Expire, TypeInv, world

LEMMA NoFailuresOK ==
  ASSUME byIP' = << >>, byUser' = << >>, failures' = [k \in Keys |-> << >>]
  PROVE  GuardsOK'
<1>1. failures' \in [Keys -> Seq(0..now')]
  <2>1. << >> \in Seq(0..now')
    OBVIOUS
  <2> QED
    BY <2>1
<1>2. DOMAIN byIP' = {} /\ DOMAIN byUser' = {}
  OBVIOUS
<1> QED
  BY <1>1, <1>2 DEF GuardsOK

LEMMA RestartTyped ==
  ASSUME TypeInv, Restart
  PROVE  TypeInv'
<1>1. /\ UNCHANGED <<sc, now, left, made, opened>>
      /\ secret' \in {0, secret} /\ enabled' \in BOOLEAN /\ lastStep' \in {0, lastStep}
      /\ recovery' \subseteq recovery /\ devices' \subseteq devices /\ pending' = 0 /\ chals' = << >>
      /\ pc' = [r \in Threads |-> Idle]
      /\ byIP' = << >> /\ byUser' = << >> /\ failures' = [k \in Keys |-> << >>]
  BY DEF Restart, world, settings, TypeInv, ScalarsOK
<1>2. /\ faults < MaxFaults /\ faults' = faults + 1
      /\ torn' = torn \/ torn' = torn + 1
  BY DEF Restart, MayFault
<1>3. ScalarsOK' /\ Grows
  <2>1. /\ UNCHANGED <<sc, now, left, made>>
        /\ secret' \in {0, secret} /\ enabled' \in BOOLEAN /\ lastStep' \in {0, lastStep} /\ pending' = 0
    BY <1>1
  <2>2. torn' \in 0..faults'
    BY <1>2 DEF TypeInv, ScalarsOK
  <2> QED
    BY <1>2, <2>1, <2>2, SkewAssumption, TwoFactorBounds DEF TypeInv, ScalarsOK, Grows, Start
<1>4. TablesOK'
  <2>1. DOMAIN chals' = {}
    BY <1>1
  <2> QED
    BY <1>1, <1>3, <2>1, TablesKept DEF TypeInv, TablesOK
<1>5. GuardsOK'
  BY <1>1, NoFailuresOK
<1>6. \A r \in Threads : RequestOK(r)'
  BY <1>1, IdleOK
<1> QED
  BY <1>1, <1>3, <1>4, <1>5, <1>6 DEF TypeInv, PcFunction

LEMMA TickTyped ==
  ASSUME TypeInv, Tick
  PROVE  TypeInv'
<1>1. sc \in Scenario /\ sc.until \in Start..MaxNow
  BY TwoFactorScenarios DEF TypeInv, ScalarsOK, Scenario
<1>2. /\ now' = now + 1 /\ now < sc.until
      /\ UNCHANGED <<sc, left, faults, settings, devices, pending, chals, guard, pc, made, opened, torn>>
  BY DEF Tick
<1>3. ScalarsOK' /\ Grows
  BY <1>1, <1>2, TwoFactorBounds, SkewAssumption DEF TypeInv, ScalarsOK, Grows, settings, Start
<1>4. TablesOK'
  BY <1>2, <1>3, TablesKept DEF TypeInv, TablesOK, settings
<1>5. GuardsOK'
  <2>1. now \in Nat
    BY TwoFactorBounds, SkewAssumption DEF TypeInv, ScalarsOK, Start
  <2>2. \A x : EntryOK(x) => EntryOK(x)'
    BY <1>2, <2>1 DEF EntryOK
  <2>3. failures \in [Keys -> Seq(0..(now + 1))]
    <3>1. \A k \in Keys : failures[k] \in Seq(0..now) /\ failures = [x \in Keys |-> failures[x]]
      BY DEF TypeInv, GuardsOK
    <3>2. ASSUME NEW s \in Seq(0..now) PROVE s \in Seq(0..(now + 1))
      BY <2>1, SeqDef
    <3>3. \A k \in Keys : failures[k] \in Seq(0..(now + 1))
      BY <3>1, <3>2
    <3>4. failures = [x \in Keys |-> failures[x]]
      BY DEF TypeInv, GuardsOK
    <3> QED
      BY <3>3, <3>4
  <2> QED
    BY <1>2, <2>2, <2>3 DEF TypeInv, GuardsOK, guard
<1> QED
  BY <1>2, <1>3, <1>4, <1>5, RestTyped

LEMMA InitTyped == Init => TypeInv
<1> SUFFICES ASSUME Init PROVE TypeInv
  OBVIOUS
<1>1. sc \in Scenario /\ sc.until \in Start..MaxNow /\ sc.requests \in Nat /\ sc.bound \in BOOLEAN
  BY TwoFactorScenarios DEF Init, Scenario
<1>2. made = [bindings |-> made.bindings, batches |-> made.batches, chals |-> made.chals]
      /\ made.chals = 0 /\ made.bindings = (IF sc.bound THEN 1 ELSE 0)
      /\ made.batches = (IF sc.bound THEN 1 ELSE 0)
  BY DEF Init
<1>3. ScalarsOK
  BY <1>1, <1>2, TwoFactorBounds, SkewAssumption DEF Init, ScalarsOK, Start
<1>4. RecoveryOK
  <2>1. CASE sc.bound
    BY <1>2, <2>1, TwoFactorBounds DEF Init, RecoveryOK, Batch, CodeSet, CodeOK
  <2>2. CASE ~ sc.bound
    BY <2>2 DEF Init, RecoveryOK
  <2> QED
    BY <2>1, <2>2
<1>5. TablesOK
  <2>1. DOMAIN chals = {}
    BY DEF Init
  <2>2. opened \in Seq([code : CodeSet, id : Nat])
    BY DEF Init
  <2> QED
    BY <1>4, <2>1, <2>2 DEF Init, TablesOK, DevicesOK
<1>6. GuardsOK
  <2>1. DOMAIN byIP = {} /\ DOMAIN byUser = {}
    BY DEF Init
  <2>2. << >> \in Seq(0..now)
    OBVIOUS
  <2>3. failures \in [Keys -> Seq(0..now)]
    BY <2>2 DEF Init
  <2> QED
    BY <2>1, <2>3 DEF GuardsOK
<1>7. \A r \in Threads : RequestOK(r)
  BY DEF Init, RequestOK, At, Idle, Stages
<1> QED
  BY <1>3, <1>5, <1>6, <1>7 DEF Init, TypeInv, PcFunction

\* Every kind of step, by name.
Moves(r) ==
    \/ \E what : \E c \in Clients, account \in {Account, NoAccount} : Begin(r, c, what, account)
    \/ PasswordWrong(r) \/ LoginPassword(r) \/ LoginDevice(r) \/ LoginChallenge(r)
    \/ SetupPassword(r)
    \/ \E what \in {"disable", "recovery", "change"} : ManagePassword(r, what)
    \/ \E remember : \E id \in DOMAIN chals, code \in Typed : Answer(r, id, code, remember)
    \/ CheckCode(r) \/ SpendCode(r) \/ AnswerFailed(r) \/ AnswerAccepted(r) \/ RememberDevice(r)
    \/ \E code \in Typed : ManageCode(r, code)
    \/ ManageConsume(r) \/ ClearStep(r) \/ RegenCodes(r) \/ ForgetDevices(r)
    \/ \E c \in Clients, code \in Typed : EnableCheck(r, c, code)
    \/ EnableStep(r)

LEMMA NextMoves ==
  ASSUME Next
  PROVE  \/ \E r \in Threads : Moves(r)
         \/ \E c, id : id \in DOMAIN chals /\ AnswerForeign(c, id)
         \/ GuardCleanup \/ Expire \/ Restart \/ Tick
<1>1. ASSUME NEW r \in Threads, Requests(r) PROVE Moves(r)
  BY <1>1 DEF Requests, Moves
<1> QED
  BY <1>1 DEF Next

LEMMA StutterTyped == ASSUME TypeInv, UNCHANGED vars PROVE TypeInv'
<1>1. ScalarsOK' /\ Grows
  BY DEF vars, settings, TypeInv, ScalarsOK, Grows, Start
<1>2. TablesOK'
  BY <1>1, TablesKept DEF vars, settings, TypeInv, TablesOK
<1>3. GuardsOK'
  BY SameGuard DEF vars, TypeInv
<1> QED
  BY <1>1, <1>2, <1>3, RestTyped DEF vars

LEMMA MovesTyped ==
  ASSUME TypeInv, NEW r \in Threads, Moves(r)
  PROVE  TypeInv'
<1>1. CASE \E what : \E c \in Clients, account \in {Account, NoAccount} : Begin(r, c, what, account)
  BY <1>1, BeginTyped
<1>2. CASE PasswordWrong(r) \/ LoginPassword(r) \/ LoginDevice(r) \/ LoginChallenge(r) \/ SetupPassword(r)
  BY <1>2, PasswordWrongTyped, LoginPasswordTyped, LoginDeviceTyped, LoginChallengeTyped,
     SetupPasswordTyped
<1>3. CASE \E what \in {"disable", "recovery", "change"} : ManagePassword(r, what)
  BY <1>3, ManagePasswordTyped
<1>4. CASE \E remember : \E id \in DOMAIN chals, code \in Typed : Answer(r, id, code, remember)
  BY <1>4, AnswerTyped
<1>5. CASE CheckCode(r) \/ SpendCode(r) \/ AnswerFailed(r) \/ AnswerAccepted(r) \/ RememberDevice(r)
  BY <1>5, CheckCodeTyped, SpendCodeTyped, AnswerFailedTyped, AnswerAcceptedTyped, RememberDeviceTyped
<1>6. CASE \E code \in Typed : ManageCode(r, code)
  BY <1>6, ManageCodeTyped
<1>7. CASE ManageConsume(r) \/ ClearStep(r) \/ RegenCodes(r) \/ ForgetDevices(r) \/ EnableStep(r)
  BY <1>7, ManageConsumeTyped, ClearStepTyped, RegenCodesTyped, ForgetDevicesTyped, EnableStepTyped
<1>8. CASE \E c \in Clients, code \in Typed : EnableCheck(r, c, code)
  BY <1>8, EnableCheckTyped
<1> QED
  BY <1>1, <1>2, <1>3, <1>4, <1>5, <1>6, <1>7, <1>8 DEF Moves

LEMMA NextTyped == TypeInv /\ [Next]_vars => TypeInv'
<1> SUFFICES ASSUME TypeInv, [Next]_vars PROVE TypeInv'
  OBVIOUS
<1>1. CASE UNCHANGED vars
  BY <1>1, StutterTyped
<1>2. CASE Next
  BY <1>2, NextMoves, MovesTyped, ForeignTyped, CleanupTyped, ExpireTyped, RestartTyped, TickTyped
<1> QED
  BY <1>1, <1>2

LEMMA TypeInvHolds == Spec => []TypeInv
  BY InitTyped, NextTyped, PTL DEF Spec

LEMMA TypeInvTypes == TypeInv => TypeOK
<1> SUFFICES ASSUME TypeInv PROVE TypeOK
  OBVIOUS
<1>1. /\ made.bindings \in 0..MaxBindings /\ made.batches \in 0..MaxBatches /\ now \in 0..MaxNow
      /\ MaxBindings \in Nat /\ MaxBatches \in Nat /\ faults \in 0..MaxFaults /\ torn \in 0..MaxFaults
  BY TwoFactorBounds, SkewAssumption DEF TypeInv, ScalarsOK, Start
<1>2. /\ left \in Nat /\ secret \in 0..MaxBindings /\ pending \in 0..MaxBindings /\ enabled \in BOOLEAN
      /\ lastStep \in 0..(now + Skew)
  BY <1>1 DEF TypeInv, ScalarsOK
<1>3. \A c \in recovery : c.kind = "recovery" /\ CodeIn(c)
  BY <1>1 DEF TypeInv, TablesOK, RecoveryOK, CodeOK, CodeIn
<1>4. \A d \in devices : d.client \in Clients /\ d.bind \in 0..MaxBindings
  BY <1>1 DEF TypeInv, TablesOK, DevicesOK
<1>5. \A id \in DOMAIN chals : id <= made.chals /\ chals[id].attempts \in 0..(MaxTries - 1)
  BY DEF TypeInv, TablesOK, ChallengeOK
<1>6. \A r \in Threads : pc[r].at \in Stages
  BY DEF TypeInv, RequestOK
<1>7. /\ DOMAIN byIP \subseteq Clients /\ DOMAIN byUser \subseteq {Account}
      /\ \A c \in DOMAIN byIP : byIP[c].until # NoWait => byIP[c].fails >= FreeAttempts
  BY DEF TypeInv, GuardsOK, EntryOK
<1> QED
  BY <1>1, <1>2, <1>3, <1>4, <1>5, <1>6, <1>7 DEF TypeOK

\* What loginGuard, the challenges and the settings hold is of the form the handlers expect.
THEOREM TypeCorrect == Spec => []TypeOK
  BY TypeInvHolds, TypeInvTypes, PTL

-----------------------------------------------------------------------------
(* Throttling, key by key *)

LEMMA InFlightFacts ==
  ASSUME NEW key
  PROVE  /\ Cardinality(Threads) \in Nat /\ IsFiniteSet(Threads)
         /\ IsFiniteSet(InFlight(key)) /\ Cardinality(InFlight(key)) \in Nat
         /\ Cardinality(InFlight(key)) <= Cardinality(Threads)
<1>1. InFlight(key) \in SUBSET Threads
  BY DEF InFlight
<1> QED
  BY <1>1, ClientsAssumption, FS_Subset, FS_CardinalityType

\* The requests in flight afterwards: fewer than the threads, and fewer than before.
LEMMA FewerInFlight ==
  ASSUME NEW r \in Threads, NEW S \in SUBSET Threads, NEW T \in SUBSET S, r \notin T
  PROVE  /\ Cardinality(T) \in Nat /\ Cardinality(T) <= Cardinality(S)
         /\ Cardinality(T) <= Cardinality(Threads) - 1
         /\ r \in S => Cardinality(T) <= Cardinality(S) - 1
<1>1. IsFiniteSet(S) /\ IsFiniteSet(T) /\ Cardinality(T) \in Nat /\ Cardinality(T) <= Cardinality(S)
  BY ClientsAssumption, FS_Subset, FS_CardinalityType
<1>2. ASSUME NEW U, IsFiniteSet(U), r \in U, T \subseteq U
      PROVE  Cardinality(T) <= Cardinality(U) - 1
  <2>1. IsFiniteSet(U \ {r}) /\ Cardinality(U \ {r}) = Cardinality(U) - 1
    BY <1>2, FS_RemoveElement
  <2>2. T \in SUBSET (U \ {r})
    BY <1>2
  <2> QED
    BY <2>1, <2>2, FS_Subset
<1>3. r \in S => Cardinality(T) <= Cardinality(S) - 1
  BY <1>1, <1>2
<1>4. Cardinality(T) <= Cardinality(Threads) - 1
  BY <1>2, ClientsAssumption
<1> QED
  BY <1>1, <1>3, <1>4

\* The types a key needs.
KeyTyped(key) ==
    /\ now \in Nat /\ failures[key] \in Seq(0..now)
    /\ key \in DOMAIN Table(key) => EntryOK(Table(key)[key])

LEMMA KeyTypes ==
  ASSUME TypeInv, NEW key \in Keys
  PROVE  KeyTyped(key)
<1>1. now \in Nat /\ failures[key] \in Seq(0..now)
  <2>1. now \in Nat
    BY TwoFactorBounds, SkewAssumption DEF TypeInv, ScalarsOK, Start
  <2>2. failures[key] \in Seq(0..now)
    BY DEF TypeInv, GuardsOK
  <2> QED
    BY <2>1, <2>2
<1>2. key \in DOMAIN Table(key) => EntryOK(Table(key)[key])
  BY DEF Table, TypeInv, GuardsOK
<1> QED
  BY <1>1, <1>2 DEF KeyTyped

\* The guard keeps what it has of the key; no request comes in flight, or none is held back.
SameEntry(key) ==
    /\ failures'[key] = failures[key]
    /\ key \in DOMAIN Table(key) => key \in DOMAIN Table(key)' /\ Table(key)'[key] = Table(key)[key]

LEMMA KeyKept ==
  ASSUME NEW key, KeyTyped(key), KeyInv(key), now' \in Nat, now' >= now, SameEntry(key),
         \/ InFlight(key)' \subseteq InFlight(key)
         \/ ~ Blocked(Table(key), key, now) /\ now' = now
  PROVE  KeyInv(key)'
<1>1. PICK f, W, N, p, e : /\ f = failures[key] /\ W = FirstWait /\ N = Cardinality(Threads)
                           /\ p = Cardinality(InFlight(key)) /\ e = Table(key)[key]
  OBVIOUS
<1>2. PICK q : q = Cardinality(InFlight(key)')
  OBVIOUS
<1>3. W \in Nat /\ N \in Nat /\ p \in Nat /\ FreeAttempts \in Nat \ {0} /\ now \in Nat
  BY <1>1, InFlightFacts, FirstWaitFacts DEF KeyTyped
<1>4. f \in Seq(0..now) /\ failures'[key] = f
  BY <1>1 DEF KeyTyped, SameEntry
<1>5. Spaced(key)'
  BY <1>1, <1>4 DEF KeyInv, Spaced
<1>6. ASSUME NEW i \in 1..Len(f), now' - f[i] <= W
      PROVE  Remembered(key, i)'
  <2>1. f[i] \in Nat /\ now - f[i] <= W
    BY <1>3, <1>4, <1>6
  <2>2. Remembered(key, i)
    BY <1>1, <2>1 DEF KeyInv
  <2>3. /\ key \in DOMAIN Table(key) /\ e.seen >= f[i]
        /\ \/ e.until = NoWait /\ Since(key, i) <= e.fails
           \/ e.until >= f[i] + W /\ Since(key, i) + p <= FreeAttempts + N - 1
    BY <1>1, <2>2 DEF Remembered, Counted
  <2>4. key \in DOMAIN Table(key)' /\ Table(key)'[key] = e /\ Since(key, i)' = Since(key, i)
    BY <1>1, <2>3 DEF SameEntry, Since
  <2>5. Since(key, i) \in Nat
    BY <1>1, <1>4 DEF Since
  <2>6. \/ e.until = NoWait /\ Since(key, i) <= e.fails
        \/ e.until >= f[i] + W /\ Since(key, i) + q <= FreeAttempts + N - 1
    <3>1. CASE InFlight(key)' \subseteq InFlight(key)
      <4>1. q \in Nat /\ q <= p
        BY <1>1, <1>2, <3>1, InFlightFacts, FS_Subset, FS_CardinalityType
      <4> QED
        BY <1>3, <2>3, <2>5, <4>1
    <3>2. CASE ~ Blocked(Table(key), key, now) /\ now' = now
      <4>1. e.until = NoWait \/ ~ (now <= e.until)
        BY <1>1, <2>3, <3>2 DEF Blocked
      <4>2. e.until \in Nat \/ e.until = NoWait
        BY <1>1, <2>3 DEF KeyTyped, EntryOK
      <4> QED
        BY <1>3, <2>1, <2>3, <4>1, <4>2 DEF NoWait
    <3> QED
      BY <3>1, <3>2
  <2>7. Counted(key, i)'
    BY <1>1, <1>2, <1>4, <2>4, <2>6 DEF Counted
  <2> QED
    BY <1>4, <2>3, <2>4, <2>7 DEF Remembered
<1> QED
  BY <1>1, <1>4, <1>5, <1>6 DEF KeyInv

LEMMA KeyCleared ==
  ASSUME NEW key, failures'[key] = << >>
  PROVE  KeyInv(key)'
<1>1. Len(failures'[key]) = 0
  OBVIOUS
<1>2. Cardinality(Threads) \in Nat /\ FreeAttempts \in Nat \ {0}
  BY InFlightFacts, FirstWaitFacts
<1>3. Spaced(key)'
  BY <1>1, <1>2 DEF Spaced
<1>4. \A i \in 1..Len(failures'[key]) : FALSE
  BY <1>1
<1> QED
  BY <1>3, <1>4 DEF KeyInv

\* A request that was in flight, or was let pass now, fails at the cost of the key.
FailedStep(key, r) ==
    /\ Table(key)' = Bump(Table(key), key, now) /\ failures'[key] = Append(failures[key], now)
    /\ now' = now
    /\ InFlight(key)' \subseteq InFlight(key) /\ r \notin InFlight(key)'
    /\ r \in InFlight(key) \/ ~ Blocked(Table(key), key, now)

LEMMA KeyFailed ==
  ASSUME NEW key, NEW r \in Threads, KeyTyped(key), KeyInv(key), FailedStep(key, r)
  PROVE  KeyInv(key)'
<1>1. PICK f, W, F, N, p, g, h, n :
         /\ f = failures[key] /\ W = FirstWait /\ F = FreeAttempts /\ N = Cardinality(Threads)
         /\ p = Cardinality(InFlight(key)) /\ g = Table(key) /\ h = Bump(g, key, now) /\ n = Len(f)
  OBVIOUS
<1>2. PICK q : q = Cardinality(InFlight(key)')
  OBVIOUS
<1>3. /\ W \in Nat /\ N \in Nat /\ p \in Nat /\ F \in Nat \ {0} /\ now \in Nat /\ f \in Seq(0..now)
      /\ n \in Nat /\ now' = now
  BY <1>1, InFlightFacts, FirstWaitFacts DEF KeyTyped, FailedStep
<1>4. q \in Nat /\ q <= p /\ q <= N - 1 /\ (r \in InFlight(key) => q <= p - 1)
  <2>1. InFlight(key) \in SUBSET Threads /\ InFlight(key)' \in SUBSET InFlight(key) /\ r \notin InFlight(key)'
    BY DEF InFlight, FailedStep
  <2> QED
    BY <1>1, <1>2, <2>1, FewerInFlight
<1>5. PICK ff : ff = failures'[key]
  OBVIOUS
<1>6. /\ Len(ff) = n + 1 /\ \A i \in 1..n : ff[i] = f[i]
      /\ ff[n + 1] = now
  <2>1. now \in 0..now
    BY <1>3
  <2> QED
    BY <1>1, <1>3, <1>5, <2>1, AppendProperties DEF FailedStep
<1>7. \A i \in 1..n : f[i] \in Nat /\ f[i] <= now
  BY <1>1, <1>3
<1>8. key \in DOMAIN g => EntryOK(g[key])
  BY <1>1 DEF KeyTyped
<1>9. /\ key \in DOMAIN h /\ h[key].seen = now /\ h[key].fails >= 1 /\ EntryOK(h[key])
      /\ h[key].until = NoWait \/ h[key].until >= now + W
      /\ key \in DOMAIN g /\ g[key].until = NoWait => h[key].fails = g[key].fails + 1
      /\ key \in DOMAIN g /\ g[key].until # NoWait /\ now <= g[key].until => h[key].until # NoWait
  <2>1. Bumped(g, h, key)
    BY <1>1, <1>3, <1>8, BumpFacts
  <2> QED
    BY <1>1, <2>1 DEF Bumped
<1>10. Table(key)' = h
  BY <1>1 DEF FailedStep
\* What held of a failure before.
<1>11. ASSUME NEW i \in 1..n, now - f[i] <= W
       PROVE  /\ key \in DOMAIN g /\ EntryOK(g[key])
              /\ \/ g[key].until = NoWait /\ n - i + 1 <= g[key].fails
                 \/ /\ g[key].until # NoWait /\ now <= g[key].until
                    /\ n - i + 1 + p <= F + N - 1
  <2>1. Remembered(key, i)
    BY <1>1, <1>11 DEF KeyInv
  <2>2. /\ key \in DOMAIN g
        /\ \/ g[key].until = NoWait /\ n - i + 1 <= g[key].fails
           \/ g[key].until >= f[i] + W /\ n - i + 1 + p <= F + N - 1
    BY <1>1, <2>1 DEF Remembered, Counted, Since
  <2>3. f[i] \in Nat /\ f[i] + W >= now
    BY <1>3, <1>7, <1>11
  <2>4. EntryOK(g[key]) /\ g[key].until \in Int
    BY <1>8, <2>2 DEF EntryOK, NoWait
  <2>5. g[key].until >= f[i] + W => g[key].until # NoWait /\ now <= g[key].until
    BY SMTT(20), <1>3, <2>3, <2>4 DEF NoWait
  <2> QED
    BY <2>2, <2>4, <2>5
<1>12. ASSUME NEW i \in 1..(n + 1), now - ff[i] <= W
       PROVE  Remembered(key, i)'
  <2>1. Since(key, i)' = n + 1 - i + 1
    BY <1>3, <1>5, <1>6 DEF Since
  <2>2. CASE i = n + 1
    <3>1. /\ \/ h[key].until = NoWait /\ 1 <= h[key].fails
             \/ h[key].until >= now + W /\ 1 + q <= F + N - 1
      BY <1>3, <1>4, <1>9
    <3>2. Counted(key, i)'
      BY <1>1, <1>2, <1>3, <1>5, <1>6, <1>10, <2>1, <2>2, <3>1 DEF Counted
    <3> QED
      BY <1>3, <1>5, <1>6, <1>9, <1>10, <2>2, <3>2 DEF Remembered
  <2>3. CASE i # n + 1
    <3>1. i \in 1..n /\ ff[i] = f[i] /\ now - f[i] <= W /\ f[i] \in Nat /\ f[i] <= now
      BY <1>3, <1>6, <1>7, <1>12, <2>3
    <3>2. \/ h[key].until = NoWait /\ n + 1 - i + 1 <= h[key].fails
          \/ h[key].until >= f[i] + W /\ n + 1 - i + 1 + q <= F + N - 1
      <4>1. PICK d, gf, hf, hu : d = n - i + 1 /\ gf = g[key].fails /\ hf = h[key].fails /\ hu = h[key].until
        OBVIOUS
      <4>2. d \in Nat /\ d + 1 = n + 1 - i + 1
        BY <1>3, <3>1, <4>1
      <4>3. CASE g[key].until = NoWait /\ n - i + 1 <= g[key].fails
        <5>1. gf \in Nat /\ gf < F /\ hf = gf + 1 /\ d <= gf
          BY <1>1, <1>9, <1>11, <3>1, <4>1, <4>3 DEF EntryOK, NoWait
        <5>2. d + 1 <= hf /\ d + 1 + q <= F + N - 1
          BY <1>3, <1>4, <4>2, <5>1
        <5>3. hu = NoWait \/ hu >= f[i] + W
          <6>1. hu = NoWait \/ hu >= now + W
            BY <1>9, <4>1
          <6>2. hu \in Int
            BY <1>9, <4>1 DEF EntryOK, NoWait
          <6> QED
            BY <1>3, <3>1, <6>1, <6>2
        <5> QED
          BY <4>1, <4>2, <5>2, <5>3
      <4>4. CASE g[key].until # NoWait /\ now <= g[key].until /\ n - i + 1 + p <= F + N - 1
        <5>1. r \in InFlight(key)
          BY <1>1, <1>11, <3>1, <4>4 DEF FailedStep, Blocked
        <5>2. hu >= now + W /\ hu \in Int
          BY <1>9, <1>11, <3>1, <4>1, <4>4 DEF EntryOK, NoWait
        <5>3. hu >= f[i] + W
          BY <1>3, <3>1, <5>2
        <5>4. d + 1 + q <= F + N - 1
          <6>1. d + p <= F + N - 1
            BY <4>1, <4>4
          <6> QED
            BY <1>3, <1>4, <4>2, <5>1, <6>1
        <5> QED
          BY <4>1, <4>2, <5>3, <5>4
      <4> QED
        BY <1>11, <3>1, <4>3, <4>4
    <3>3. Counted(key, i)'
      BY <1>1, <1>2, <1>5, <1>10, <2>1, <3>1, <3>2 DEF Counted
    <3> QED
      BY <1>5, <1>9, <1>10, <3>1, <3>3 DEF Remembered
  <2> QED
    BY <2>2, <2>3
\* The failures before are spaced; of the last window, the first is longer ago than the wait.
<1>13. Spaced(key)'
  <2> DEFINE window == F + N
  <2> SUFFICES ASSUME NEW i \in 1..(Len(ff) - window + 1)
               PROVE  ff[i + window - 1] - ff[i] > W
    BY <1>1, <1>5 DEF Spaced
  <2>1. i \in Nat /\ i >= 1 /\ i + window - 1 <= n + 1 /\ i <= n + 1
    BY <1>3, <1>6
  <2>2. CASE i + window - 1 <= n
    <3>1. i \in 1..(n - window + 1) /\ i + window - 1 \in 1..n /\ i \in 1..n
      BY <1>3, <2>1, <2>2
    <3>2. f[i + window - 1] - f[i] > W
      BY <1>1, <3>1 DEF KeyInv, Spaced
    <3> QED
      BY <1>6, <3>1, <3>2
  <2>3. CASE i + window - 1 = n + 1
    <3>1. N >= 1
      BY <1>3, <1>4
    <3>2. i \in 1..n /\ n - i + 1 = window - 1
      BY <1>3, <2>1, <2>3, <3>1
    <3>3. ~ (now - f[i] <= W)
      <4> SUFFICES ASSUME now - f[i] <= W PROVE FALSE
        OBVIOUS
      <4>1. CASE g[key].until = NoWait /\ n - i + 1 <= g[key].fails
        <5>1. g[key].fails \in Nat /\ g[key].fails < F
          BY <1>1, <1>11, <3>2, <4>1 DEF EntryOK, NoWait
        <5> QED
          BY <1>3, <3>1, <3>2, <4>1, <5>1
      <4>2. CASE g[key].until # NoWait /\ now <= g[key].until /\ n - i + 1 + p <= F + N - 1
        <5>1. r \in InFlight(key)
          BY <1>1, <1>11, <3>2, <4>2 DEF FailedStep, Blocked
        <5> QED
          BY SMTT(20), <1>3, <1>4, <3>2, <4>2, <5>1
      <4> QED
        BY <1>11, <3>2, <4>1, <4>2
    <3> QED
      BY <1>3, <1>6, <1>7, <2>3, <3>2, <3>3
  <2> QED
    BY <1>3, <2>1, <2>2, <2>3
<1> QED
  BY <1>1, <1>3, <1>5, <1>6, <1>12, <1>13 DEF KeyInv

-----------------------------------------------------------------------------
(* Throttling, step by step *)

LEMMA FlightMoves ==
  ASSUME NEW r, NEW key, \A q \in Threads : q # r => pc'[q] = pc[q]
  PROVE  /\ (MayFail(r, key)' => MayFail(r, key)) => InFlight(key)' \subseteq InFlight(key)
         /\ ~ MayFail(r, key)' => InFlight(key)' \subseteq InFlight(key) /\ r \notin InFlight(key)'
<1>1. \A q \in Threads : q # r => (MayFail(q, key)' <=> MayFail(q, key))
  BY DEF MayFail, At
<1> QED
  BY <1>1 DEF InFlight

LEMMA GuardKept ==
  ASSUME UNCHANGED guard, NEW key \in Keys
  PROVE  SameEntry(key)
<1>1. byIP' = byIP /\ byUser' = byUser /\ failures' = failures
  BY DEF guard
<1>2. Table(key)' = Table(key)
  BY <1>1 DEF Table
<1> QED
  BY <1>1, <1>2 DEF SameEntry

LEMMA NotBlocked ==
  ASSUME NEW c \in Clients, NEW account \in {Account, NoAccount}, ~ BlockedFor(c, account),
         NEW key \in Keys \intersect {c, account}
  PROVE  ~ Blocked(Table(key), key, now)
<1>1. CASE key = c
  BY <1>1, KeyFacts DEF BlockedFor, Table
<1>2. CASE key = account /\ key # c
  <2>1. account = Account
    BY <1>2, KeyFacts
  <2> QED
    BY <1>2, <2>1, KeyFacts DEF BlockedFor, Table
<1> QED
  BY <1>1, <1>2

\* A request goes on, and comes in flight for no key.
NoneEnters(r) == \A key \in Keys : MayFail(r, key)' => MayFail(r, key)

LEMMA QuietStep ==
  ASSUME TypeInv, GuardInv, NEW r \in Threads, NEW rec, Goto(r, rec), now' = now, UNCHANGED guard,
         NoneEnters(r)
  PROVE  GuardInv'
<1> SUFFICES ASSUME NEW key \in Keys PROVE KeyInv(key)'
  BY DEF GuardInv
<1>1. InFlight(key)' \subseteq InFlight(key)
  BY GotoFacts, FlightMoves DEF TypeInv, NoneEnters
<1>2. KeyTyped(key) /\ KeyInv(key) /\ now \in Nat
  BY KeyTypes DEF GuardInv, KeyTyped
<1> QED
  BY <1>1, <1>2, GuardKept, KeyKept

\* One that the guard lets pass.
LEMMA EnterStep ==
  ASSUME TypeInv, GuardInv, NEW r \in Threads, NEW rec, Goto(r, rec), now' = now, UNCHANGED guard,
         NEW c \in Clients, NEW account \in {Account, NoAccount}, ~ BlockedFor(c, account),
         \A key \in Keys \ {c, account} : ~ MayFail(r, key)'
  PROVE  GuardInv'
<1> SUFFICES ASSUME NEW key \in Keys PROVE KeyInv(key)'
  BY DEF GuardInv
<1>1. KeyTyped(key) /\ KeyInv(key) /\ now \in Nat /\ SameEntry(key)
  BY KeyTypes, GuardKept DEF GuardInv, KeyTyped
<1>2. CASE key \in {c, account}
  <2>1. ~ Blocked(Table(key), key, now)
    BY <1>2, NotBlocked
  <2> QED
    BY <1>1, <2>1, KeyKept
<1>3. CASE key \notin {c, account}
  <2>1. InFlight(key)' \subseteq InFlight(key)
    <3>1. ~ MayFail(r, key)'
      BY <1>3
    <3> QED
      BY <3>1, GotoFacts, FlightMoves DEF TypeInv
  <2> QED
    BY <1>1, <2>1, KeyKept
<1> QED
  BY <1>2, <1>3

LEMMA SuccessStep ==
  ASSUME TypeInv, GuardInv, NEW r \in Threads, NEW rec, Goto(r, rec), now' = now,
         NEW c \in Clients, Success(c), NoneEnters(r)
  PROVE  GuardInv'
<1> SUFFICES ASSUME NEW key \in Keys PROVE KeyInv(key)'
  BY DEF GuardInv
<1>1. KeyTyped(key) /\ KeyInv(key) /\ now \in Nat
  BY KeyTypes DEF GuardInv, KeyTyped
<1>2. CASE key \in {c, Account}
  BY <1>1, <1>2, SuccessFacts, KeyCleared DEF TypeInv
<1>3. CASE key \notin {c, Account}
  <2>1. InFlight(key)' \subseteq InFlight(key)
    BY GotoFacts, FlightMoves DEF TypeInv, NoneEnters
  <2>2. SameEntry(key)
    BY <1>1, <1>3, SuccessFacts DEF SameEntry, TypeInv
  <2> QED
    BY <1>1, <2>1, <2>2, KeyKept
<1> QED
  BY <1>2, <1>3

LEMMA FailStep ==
  ASSUME TypeInv, GuardInv, NEW r \in Threads, now' = now, \A q \in Threads : q # r => pc'[q] = pc[q],
         NEW c \in Clients, NEW account \in {Account, NoAccount}, Fail(c, account),
         \A key \in Keys : ~ MayFail(r, key)',
         \A key \in Keys \intersect {c, account} : MayFail(r, key) \/ ~ Blocked(Table(key), key, now)
  PROVE  GuardInv'
<1> SUFFICES ASSUME NEW key \in Keys PROVE KeyInv(key)'
  BY DEF GuardInv
<1>1. KeyTyped(key) /\ KeyInv(key) /\ now \in Nat
  BY KeyTypes DEF GuardInv, KeyTyped
<1>2. InFlight(key)' \subseteq InFlight(key) /\ r \notin InFlight(key)'
  BY FlightMoves
<1>3. CASE key \in {c, account}
  <2>1. Table(key)' = Bump(Table(key), key, now) /\ failures'[key] = Append(failures[key], now)
    BY <1>1, <1>3, FailFacts DEF TypeInv
  <2>2. r \in InFlight(key) \/ ~ Blocked(Table(key), key, now)
    BY <1>3 DEF InFlight
  <2>3. FailedStep(key, r)
    BY <1>2, <2>1, <2>2 DEF FailedStep
  <2> QED
    BY <1>1, <2>3, KeyFailed
<1>4. CASE key \notin {c, account}
  <2>1. SameEntry(key)
    BY <1>1, <1>4, FailFacts DEF SameEntry, TypeInv
  <2> QED
    BY <1>1, <1>2, <2>1, KeyKept
<1> QED
  BY <1>3, <1>4

LEMMA NotInFlight ==
  ASSUME NEW r, pc'[r].at \notin {"password", "code", "spend", "failed", "manage", "consume"}, NEW key
  PROVE  ~ MayFail(r, key)'
BY DEF MayFail, At

LEMMA IdleNotInFlight == ASSUME NEW r, pc'[r] = Idle, NEW key PROVE ~ MayFail(r, key)'
BY DEF MayFail, At, Idle

\* The checks of the guard.
LEMMA BeginGuarded ==
  ASSUME TypeInv, GuardInv, NEW r \in Threads, NEW c \in Clients, NEW what,
         NEW account \in {Account, NoAccount}, Begin(r, c, what, account)
  PROVE  GuardInv'
<1>1. pc'[r] = [at |-> "password", what |-> what, client |-> c, account |-> account]
  BY GotoFacts DEF Begin, TypeInv
<1>2. \A key \in Keys \ {c, account} : ~ MayFail(r, key)'
  BY <1>1 DEF MayFail, At
<1> QED
  BY <1>2, EnterStep DEF Begin, world

LEMMA AnswerGuarded ==
  ASSUME TypeInv, GuardInv, NEW r \in Threads, NEW id \in DOMAIN chals, NEW code, NEW remember,
         Answer(r, id, code, remember)
  PROVE  GuardInv'
<1>1. PICK c : c = chals[id].client
  OBVIOUS
<1>2. c \in Clients
  BY <1>1 DEF TypeInv, TablesOK, ChallengeOK
<1>3. pc'[r] = [at |-> "code", client |-> c, id |-> id, code |-> code, remember |-> remember]
  BY <1>1, GotoFacts DEF Answer, TypeInv
<1>4. \A key \in Keys \ {c, Account} : ~ MayFail(r, key)'
  BY <1>3 DEF MayFail, At
<1>5. ~ BlockedFor(c, Account)
  BY <1>1 DEF Answer
<1> QED
  BY <1>2, <1>4, <1>5, EnterStep DEF Answer, world

\* The failures.
LEMMA PasswordWrongGuarded ==
  ASSUME TypeInv, GuardInv, NEW r \in Threads, PasswordWrong(r)
  PROVE  GuardInv'
<1>1. PICK c, account : c = pc[r].client /\ account = pc[r].account
  OBVIOUS
<1>2. c \in Clients /\ account \in {Account, NoAccount} /\ Fail(c, account)
  BY <1>1 DEF PasswordWrong, TypeInv, RequestOK, Carries
<1>3. \A key \in Keys : ~ MayFail(r, key)'
  BY GotoFacts, IdleNotInFlight DEF PasswordWrong, TypeInv
<1>4. \A key \in Keys \intersect {c, account} : MayFail(r, key)
  BY <1>1 DEF PasswordWrong, MayFail
<1>5. now' = now /\ \A q \in Threads : q # r => pc'[q] = pc[q]
  BY GotoFacts DEF PasswordWrong, TypeInv, world
<1> QED
  BY <1>2, <1>3, <1>4, <1>5, FailStep

LEMMA AnswerFailedGuarded ==
  ASSUME TypeInv, GuardInv, NEW r \in Threads, AnswerFailed(r)
  PROVE  GuardInv'
<1>1. PICK c : c = pc[r].client
  OBVIOUS
<1>2. c \in Clients /\ Fail(c, Account)
  BY <1>1 DEF AnswerFailed, At, TypeInv, RequestOK, Carries
<1>3. \A key \in Keys : ~ MayFail(r, key)'
  BY GotoFacts, IdleNotInFlight DEF AnswerFailed, TypeInv
<1>4. \A key \in Keys \intersect {c, Account} : MayFail(r, key)
  BY <1>1 DEF AnswerFailed, MayFail, At
<1>5. now' = now /\ \A q \in Threads : q # r => pc'[q] = pc[q]
  BY GotoFacts DEF AnswerFailed, TypeInv, world
<1> QED
  BY <1>2, <1>3, <1>4, <1>5, FailStep

LEMMA EnableCheckGuarded ==
  ASSUME TypeInv, GuardInv, NEW r \in Threads, NEW c \in Clients, NEW code, EnableCheck(r, c, code)
  PROVE  GuardInv'
<1>1. ~ BlockedFor(c, Account) /\ now' = now /\ pc[r].at = "idle"
  BY DEF EnableCheck, world, At
<1>2. CASE Goto(r, [at |-> "enable", client |-> c, bind |-> pending, k |-> 1]) /\ UNCHANGED guard
  <2>1. pc'[r] = [at |-> "enable", client |-> c, bind |-> pending, k |-> 1]
    BY <1>2, GotoFacts DEF TypeInv
  <2>2. \A key : ~ MayFail(r, key)'
    BY <2>1, NotInFlight
  <2> QED
    BY <1>1, <1>2, <2>2, QuietStep DEF NoneEnters
<1>3. CASE Fail(c, Account) /\ UNCHANGED pc
  <2>1. \A key : ~ MayFail(r, key)'
    BY <1>1, <1>3, NotInFlight
  <2> QED
    BY <1>1, <1>3, <2>1, NotBlocked, FailStep
<1> QED
  BY <1>2, <1>3 DEF EnableCheck

LEMMA ManageCodeGuarded ==
  ASSUME TypeInv, GuardInv, NEW r \in Threads, NEW code, ManageCode(r, code)
  PROVE  GuardInv'
<1>1. Manages(r) /\ pc[r].at = "manage" /\ now' = now
  BY DEF ManageCode, At, TypeInv, RequestOK, world
<1>2. PICK c, what : c = pc[r].client /\ what = pc[r].what
  OBVIOUS
<1>3. c \in Clients /\ what \in {"disable", "recovery", "change"} /\ \A key \in {c, Account} : MayFail(r, key)
  BY <1>1, <1>2 DEF Manages, MayFail, At
<1>4. \/ Goto(r, [pc[r] EXCEPT !.at = Granted(what)]) /\ UNCHANGED guard
      \/ /\ Goto(r, [at |-> "consume", what |-> what, client |-> c, k |-> 1, rest |-> recovery \ {code}])
         /\ UNCHANGED guard
      \/ Goto(r, Idle) /\ Fail(c, Account)
  BY <1>2 DEF ManageCode
<1>5. CASE Goto(r, [pc[r] EXCEPT !.at = Granted(what)]) /\ UNCHANGED guard
  <2>1. Granted(what) \in {"clear", "regen", "forget"}
    BY <1>3 DEF Granted
  <2>2. pc'[r].at = Granted(what)
    BY <1>1, <1>5, GotoFacts DEF TypeInv, Manages
  <2>3. \A key : ~ MayFail(r, key)'
    BY <2>1, <2>2, NotInFlight
  <2> QED
    BY <1>1, <1>5, <2>3, QuietStep DEF NoneEnters
<1>6. CASE /\ Goto(r, [at |-> "consume", what |-> what, client |-> c, k |-> 1, rest |-> recovery \ {code}])
           /\ UNCHANGED guard
  <2>1. pc'[r] = [at |-> "consume", what |-> what, client |-> c, k |-> 1, rest |-> recovery \ {code}]
    BY <1>6, GotoFacts DEF TypeInv
  <2>2. NoneEnters(r)
    BY <1>3, <2>1 DEF NoneEnters, MayFail, At
  <2> QED
    BY <1>1, <1>6, <2>2, QuietStep
<1>7. CASE Goto(r, Idle) /\ Fail(c, Account)
  <2>1. (\A key : ~ MayFail(r, key)') /\ \A q \in Threads : q # r => pc'[q] = pc[q]
    BY <1>7, GotoFacts, IdleNotInFlight DEF TypeInv
  <2> QED
    BY <1>1, <1>3, <1>7, <2>1, FailStep
<1> QED
  BY <1>4, <1>5, <1>6, <1>7

LEMMA ManageConsumeGuarded ==
  ASSUME TypeInv, GuardInv, NEW r \in Threads, ManageConsume(r)
  PROVE  GuardInv'
<1>1. PICK c, what : c = pc[r].client /\ what = pc[r].what
  OBVIOUS
<1>2. /\ c \in Clients /\ what \in {"disable", "recovery", "change"} /\ now' = now
      /\ \A key \in {c, Account} : MayFail(r, key)
  BY <1>1 DEF ManageConsume, At, TypeInv, RequestOK, Carries, world, MayFail
<1>3. \/ UNCHANGED guard /\ Goto(r, [at |-> Granted(what), what |-> what, client |-> c, k |-> 1])
      \/ Fail(c, Account) /\ Goto(r, Idle)
  BY <1>1 DEF ManageConsume
<1>4. CASE UNCHANGED guard /\ Goto(r, [at |-> Granted(what), what |-> what, client |-> c, k |-> 1])
  <2>1. pc'[r].at = Granted(what) /\ Granted(what) \in {"clear", "regen", "forget"}
    BY <1>2, <1>4, GotoFacts DEF TypeInv, Granted
  <2>2. \A key : ~ MayFail(r, key)'
    BY <2>1, NotInFlight
  <2> QED
    BY <1>2, <1>4, <2>2, QuietStep DEF NoneEnters
<1>5. CASE Fail(c, Account) /\ Goto(r, Idle)
  <2>1. (\A key : ~ MayFail(r, key)') /\ \A q \in Threads : q # r => pc'[q] = pc[q]
    BY <1>5, GotoFacts, IdleNotInFlight DEF TypeInv
  <2> QED
    BY <1>2, <1>5, <2>1, FailStep
<1> QED
  BY <1>3, <1>4, <1>5

\* A request ends, or goes where it cannot fail, having cleared the failures or not.
LEMMA EndGuarded ==
  ASSUME TypeInv, GuardInv, NEW r \in Threads, NEW rec, Goto(r, rec),
         rec.at \notin {"password", "code", "spend", "failed", "manage", "consume"},
         now' = now, NEW c \in Clients, UNCHANGED guard \/ Success(c)
  PROVE  GuardInv'
<1>1. NoneEnters(r)
  BY GotoFacts, NotInFlight DEF TypeInv, NoneEnters
<1> QED
  BY <1>1, QuietStep, SuccessStep

LEMMA IdleEnds == Idle.at \notin {"password", "code", "spend", "failed", "manage", "consume"}
BY DEF Idle

LEMMA LoginGuarded ==
  ASSUME TypeInv, GuardInv, NEW r \in Threads,
         LoginPassword(r) \/ LoginDevice(r) \/ LoginChallenge(r) \/ SetupPassword(r)
  PROVE  GuardInv'
<1>1. PICK c : c = pc[r].client
  OBVIOUS
<1>2. c \in Clients /\ now' = now
  BY <1>1 DEF LoginPassword, LoginDevice, LoginChallenge, SetupPassword, PasswordRight, At, world,
     TypeInv, RequestOK, Carries
<1>3. PICK rec \in {Idle, [at |-> "factor", client |-> c]} : Goto(r, rec)
  BY <1>1 DEF LoginPassword, LoginDevice, LoginChallenge, SetupPassword
<1>4. UNCHANGED guard \/ Success(c)
  BY <1>1 DEF LoginPassword, LoginDevice, LoginChallenge, SetupPassword
<1>5. rec.at \notin {"password", "code", "spend", "failed", "manage", "consume"}
  BY <1>3, IdleEnds
<1> QED
  BY <1>2, <1>3, <1>4, <1>5, EndGuarded

LEMMA ManagePasswordGuarded ==
  ASSUME TypeInv, GuardInv, NEW r \in Threads, NEW what, ManagePassword(r, what)
  PROVE  GuardInv'
<1>1. \A key \in {pc[r].client, Account} : MayFail(r, key)
  BY DEF ManagePassword, PasswordRight, MayFail
<1>2. PICK at, c : /\ at \in {"manage", "clear", "forget"} /\ c = pc[r].client
                   /\ Goto(r, [at |-> at, what |-> what, client |-> c, k |-> 1])
  <2> DEFINE at == IF Enabled \/ what = "recovery" THEN "manage"
                   ELSE IF what = "disable" THEN "clear" ELSE "forget"
  <2>1. Goto(r, [at |-> at, what |-> what, client |-> pc[r].client, k |-> 1])
    BY DEF ManagePassword
  <2>2. at \in {"manage", "clear", "forget"}
    OBVIOUS
  <2> QED
    BY <2>1, <2>2
<1>3. pc'[r] = [at |-> at, what |-> what, client |-> c, k |-> 1]
  BY <1>2, GotoFacts DEF TypeInv
<1>4. NoneEnters(r)
  BY <1>1, <1>2, <1>3 DEF NoneEnters, MayFail, At
<1> QED
  BY <1>2, <1>4, QuietStep DEF ManagePassword, world

LEMMA CodeGuarded ==
  ASSUME TypeInv, GuardInv, NEW r \in Threads, CheckCode(r) \/ SpendCode(r)
  PROVE  GuardInv'
<1>1. \A key \in {pc[r].client, Account} : MayFail(r, key)
  BY DEF CheckCode, SpendCode, MayFail, At
<1>2. PICK rec : /\ Goto(r, rec) /\ rec.at \in {"spend", "failed", "accepted"}
                 /\ rec.client = pc[r].client
  BY DEF CheckCode, SpendCode
<1>3. NoneEnters(r)
  BY <1>1, <1>2, GotoFacts DEF NoneEnters, MayFail, At, TypeInv
<1> QED
  BY <1>2, <1>3, QuietStep DEF CheckCode, SpendCode, world

LEMMA AcceptedGuarded ==
  ASSUME TypeInv, GuardInv, NEW r \in Threads,
         AnswerAccepted(r) \/ RememberDevice(r) \/ RegenCodes(r) \/ ForgetDevices(r)
  PROVE  GuardInv'
<1>1. PICK c : c = pc[r].client
  OBVIOUS
<1>2. c \in Clients /\ now' = now
  BY <1>1 DEF AnswerAccepted, RememberDevice, RegenCodes, ForgetDevices, At, world, TypeInv, RequestOK, Carries
<1>3. PICK rec \in {Idle, [at |-> "remember", client |-> c, bind |-> pc[r].code.bind]} : Goto(r, rec)
  BY <1>1 DEF AnswerAccepted, RememberDevice, RegenCodes, ForgetDevices
<1>4. UNCHANGED guard \/ Success(c)
  BY <1>1 DEF AnswerAccepted, RememberDevice, RegenCodes, ForgetDevices
<1>5. rec.at \notin {"password", "code", "spend", "failed", "manage", "consume"}
  BY <1>3, IdleEnds
<1> QED
  BY <1>2, <1>3, <1>4, <1>5, EndGuarded

LEMMA WritesGuarded ==
  ASSUME TypeInv, GuardInv, NEW r \in Threads, ClearStep(r) \/ EnableStep(r)
  PROVE  GuardInv'
<1>1. PICK c : c = pc[r].client
  OBVIOUS
<1>2. c \in Clients /\ now' = now /\ pc[r].at \in {"clear", "enable"}
  BY <1>1 DEF ClearStep, EnableStep, At, world, TypeInv, RequestOK, Carries, Manages
<1>3. PICK rec \in {Idle, [pc[r] EXCEPT !.k = pc[r].k + 1]} : Goto(r, rec)
  BY DEF ClearStep, EnableStep, CutOff
<1>4. UNCHANGED guard \/ Success(c)
  BY <1>1 DEF ClearStep, EnableStep, CutOff
<1>5. rec.at \notin {"password", "code", "spend", "failed", "manage", "consume"}
  <2>1. CASE rec = Idle
    BY <2>1, IdleEnds
  <2>2. CASE rec = [pc[r] EXCEPT !.k = pc[r].k + 1]
    <3>1. rec.at = pc[r].at
      BY <1>2, <2>2 DEF TypeInv, RequestOK, At, Manages
    <3> QED
      BY <1>2, <3>1
  <2> QED
    BY <1>3, <2>1, <2>2
<1> QED
  BY <1>2, <1>3, <1>4, <1>5, EndGuarded

\* What is not a step of a request.
LEMMA NobodyEnters ==
  ASSUME UNCHANGED pc, NEW key
  PROVE  InFlight(key)' \subseteq InFlight(key)
BY DEF InFlight, MayFail, At

LEMMA RestGuarded ==
  ASSUME TypeInv, GuardInv, UNCHANGED <<pc, guard>>, now' \in Nat, now' >= now
  PROVE  GuardInv'
BY KeyTypes, NobodyEnters, GuardKept, KeyKept DEF GuardInv

LEMMA CleanupGuarded ==
  ASSUME TypeInv, GuardInv, GuardCleanup
  PROVE  GuardInv'
<1> SUFFICES ASSUME NEW key \in Keys PROVE KeyInv(key)'
  BY DEF GuardInv
<1>1. PICK f, g, h : f = failures[key] /\ g = Table(key) /\ h = Cleanup(g, now)
  OBVIOUS
<1>2. Table(key)' = h /\ failures' = failures /\ now' = now /\ UNCHANGED pc
  BY <1>1 DEF GuardCleanup, Table
<1>3. KeyTyped(key) /\ KeyInv(key) /\ now \in Nat /\ f \in Seq(0..now)
  BY <1>1, KeyTypes DEF GuardInv, KeyTyped
<1>4. DOMAIN h = DOMAIN g \ Stale(g, now) /\ \A k \in DOMAIN h : h[k] = g[k]
  BY <1>1 DEF Cleanup
<1>5. CASE key \notin DOMAIN g \/ key \in DOMAIN h
  <2>1. SameEntry(key)
    BY <1>1, <1>2, <1>4, <1>5 DEF SameEntry
  <2> QED
    BY <1>2, <1>3, <2>1, NobodyEnters, KeyKept
<1>6. CASE key \in DOMAIN g /\ key \notin DOMAIN h
  <2>1. g[key].seen \in Nat /\ now - g[key].seen > GuardRetention
    BY <1>1, <1>3, <1>4, <1>6 DEF Stale, KeyTyped, EntryOK
  <2>2. ASSUME NEW i \in 1..Len(f), now - f[i] <= FirstWait PROVE FALSE
    <3>1. g[key].seen >= f[i]
      BY <1>1, <2>2 DEF KeyInv, Remembered, GuardInv
    <3>2. f[i] \in Nat
      BY <1>3
    <3> QED
      BY SMTT(20), <1>3, <2>1, <2>2, <3>1, <3>2, FirstWaitFacts
  <2>3. Spaced(key)'
    BY <1>2, <1>3 DEF KeyInv, Spaced
  <2> QED
    BY <1>1, <1>2, <2>2, <2>3 DEF KeyInv
<1> QED
  BY <1>5, <1>6

LEMMA RestartGuarded == ASSUME Restart PROVE GuardInv'
<1>1. \A key \in Keys : failures'[key] = << >>
  BY DEF Restart
<1> QED
  BY <1>1, KeyCleared DEF GuardInv

LEMMA InitGuarded == Init => GuardInv
<1> SUFFICES ASSUME Init, NEW key \in Keys PROVE KeyInv(key)
  BY DEF GuardInv
<1>1. failures[key] = << >> /\ Len(failures[key]) = 0
  BY DEF Init
<1>2. Cardinality(Threads) \in Nat /\ FreeAttempts \in Nat \ {0}
  BY InFlightFacts, FirstWaitFacts
<1>3. Spaced(key)
  BY <1>1, <1>2 DEF Spaced
<1> QED
  BY <1>1, <1>3 DEF KeyInv

LEMMA MovesGuarded ==
  ASSUME TypeInv, GuardInv, NEW r \in Threads, Moves(r)
  PROVE  GuardInv'
<1>1. CASE \E what : \E c \in Clients, account \in {Account, NoAccount} : Begin(r, c, what, account)
  BY <1>1, BeginGuarded
<1>2. CASE LoginPassword(r) \/ LoginDevice(r) \/ LoginChallenge(r) \/ SetupPassword(r)
  BY <1>2, LoginGuarded
<1>3. CASE \E what \in {"disable", "recovery", "change"} : ManagePassword(r, what)
  BY <1>3, ManagePasswordGuarded
<1>4. CASE \E remember : \E id \in DOMAIN chals, code \in Typed : Answer(r, id, code, remember)
  BY <1>4, AnswerGuarded
<1>5. CASE CheckCode(r) \/ SpendCode(r)
  BY <1>5, CodeGuarded
<1>6. CASE \E code \in Typed : ManageCode(r, code)
  BY <1>6, ManageCodeGuarded
<1>7. CASE PasswordWrong(r) \/ AnswerFailed(r) \/ ManageConsume(r)
  BY <1>7, PasswordWrongGuarded, AnswerFailedGuarded, ManageConsumeGuarded
<1>8. CASE \E c \in Clients, code \in Typed : EnableCheck(r, c, code)
  BY <1>8, EnableCheckGuarded
<1>9. CASE AnswerAccepted(r) \/ RememberDevice(r) \/ RegenCodes(r) \/ ForgetDevices(r)
  BY <1>9, AcceptedGuarded
<1>10. CASE ClearStep(r) \/ EnableStep(r)
  BY <1>10, WritesGuarded
<1> QED
  BY <1>1, <1>2, <1>3, <1>4, <1>5, <1>6, <1>7, <1>8, <1>9, <1>10 DEF Moves

LEMMA NextGuarded == TypeInv /\ GuardInv /\ [Next]_vars => GuardInv'
<1> SUFFICES ASSUME TypeInv, GuardInv, [Next]_vars PROVE GuardInv'
  OBVIOUS
<1>1. now \in Nat
  BY TwoFactorBounds, SkewAssumption DEF TypeInv, ScalarsOK, Start
<1>2. CASE UNCHANGED vars \/ (\E c, id : id \in DOMAIN chals /\ AnswerForeign(c, id)) \/ Expire \/ Tick
  <2>1. UNCHANGED <<pc, guard>> /\ now' \in Nat /\ now' >= now
    <3>1. CASE UNCHANGED vars
      BY <1>1, <3>1 DEF vars
    <3>2. CASE Tick
      BY <1>1, <3>2 DEF Tick
    <3>3. CASE Expire
      BY <1>1, <3>3 DEF Expire, world
    <3>4. CASE \E c, id : id \in DOMAIN chals /\ AnswerForeign(c, id)
      BY <1>1, <3>4 DEF AnswerForeign, world
    <3> QED
      BY <1>2, <3>1, <3>2, <3>3, <3>4
  <2> QED
    BY <2>1, RestGuarded
<1>3. CASE \E r \in Threads : Moves(r)
  BY <1>3, MovesGuarded
<1>4. CASE GuardCleanup \/ Restart
  BY <1>4, CleanupGuarded, RestartGuarded
<1> QED
  BY <1>2, <1>3, <1>4, NextMoves

LEMMA GuardInvThrottles == GuardInv => Throttled
<1> SUFFICES ASSUME GuardInv PROVE Throttled
  OBVIOUS
<1>1. \A key \in Keys : Spaced(key)
  BY DEF GuardInv, KeyInv
<1> QED
  BY <1>1 DEF Spaced, Throttled, FirstWait

\* loginGuard, security.go: however the requests overlap, whatever they are about and whenever
\* the clean-up comes, FreeAttempts failures of a client or of the account, and those of the
\* requests already past the check, are followed by none before the first wait is over.
THEOREM ThrottledHolds == Spec => []Throttled
<1>1. Spec => [](TypeInv /\ GuardInv)
  BY InitTyped, NextTyped, InitGuarded, NextGuarded, PTL DEF Spec
<1> QED
  BY <1>1, GuardInvThrottles, PTL

-----------------------------------------------------------------------------
(* The second factor: what is spent stays spent *)

LEMMA ElementOf == ASSUME NEW S, NEW s \in Seq(S), NEW i \in 1..Len(s) PROVE s[i] \in S
  OBVIOUS

LEMMA SpentCarried ==
  ASSUME TypeInv, SpentOK, opened' = opened,
         \A c \in CodeSet : CodeOK(c) /\ Spent(c) => CodeOK(c)' /\ Spent(c)',
         \A id : Answered(id) => Answered(id)'
  PROVE  SpentOK'
<1> SUFFICES ASSUME NEW i \in 1..Len(opened)
             PROVE  (CodeOK(opened[i].code) /\ Spent(opened[i].code) /\ Answered(opened[i].id))'
  BY DEF SpentOK
<1>1. PICK c, id : c = opened[i].code /\ id = opened[i].id
  OBVIOUS
<1>2. c \in CodeSet /\ CodeOK(c) /\ Spent(c) /\ Answered(id)
  <2>1. opened[i] \in [code : CodeSet, id : Nat]
    BY ElementOf DEF TypeInv, TablesOK
  <2>2. CodeOK(opened[i].code) /\ Spent(opened[i].code) /\ Answered(opened[i].id)
    BY DEF SpentOK
  <2> QED
    BY <1>1, <2>1, <2>2
<1>3. CodeOK(c)' /\ Spent(c)' /\ Answered(id)'
  BY <1>2
<1>4. opened'[i].code = c /\ opened'[i].id = id
  BY <1>1
<1>5. CodeOK(opened[i].code)'
  BY <1>3, <1>4 DEF CodeOK
<1>6. Spent(opened[i].code)'
  BY <1>3, <1>4 DEF Spent
<1>7. Answered(opened[i].id)'
  BY <1>3, <1>4 DEF Answered
<1> QED
  BY <1>5, <1>6, <1>7

LEMMA OnceKept ==
  ASSUME TypeInv, TypeInv', CodeOnce, opened' = opened, torn' >= torn
  PROVE  CodeOnce'
<1>1. torn \in Nat /\ torn' \in Nat
  BY DEF TypeInv, ScalarsOK
<1> QED
  BY <1>1 DEF CodeOnce

\* Requests leave or stay aside, none that was writing.
LEMMA AsideStep ==
  ASSUME TypeInv, TypeInv', FactorInv, Grows,
         UNCHANGED <<sc, secret, enabled, lastStep, recovery, opened, torn>>,
         devices' \subseteq devices, DOMAIN chals' \subseteq DOMAIN chals \union {made.chals + 1},
         \/ pending' \in {0, pending}
         \/ ~ Enabled /\ pending' > made.bindings,
         \A q \in Threads : \/ pc'[q] = pc[q]
                            \/ pc'[q].at \notin FactorStages /\ pc[q].at \notin {"enable", "clear"}
  PROVE  FactorInv'
<1>1. \A q \in Threads : pc'[q].at \in FactorStages => pc'[q] = pc[q]
  OBVIOUS
<1>2. \A q \in Threads : /\ pc[q].at \in {"enable", "clear"} => pc'[q] = pc[q]
                         /\ pc'[q].at \in {"enable", "clear"} => pc'[q] = pc[q]
  BY DEF FactorStages
<1>3. Turns'
  BY <1>1 DEF FactorInv, Turns
<1>4. \A q \in Threads : (Between(q)' <=> Between(q)) /\ (Rewriting(q)' <=> Rewriting(q))
  BY <1>2 DEF Between, Rewriting, At
<1>5. Enabled' = Enabled
  BY DEF Enabled
<1>6. WholeOK'
  <2>1. ASSUME torn' = 0, \A q \in Threads : ~ Between(q)' PROVE Whole'
    <3>1. Whole
      BY <1>4, <2>1 DEF FactorInv, WholeOK
    <3> QED
      BY <1>5, <3>1 DEF Whole, Own, TypeInv, ScalarsOK
  <2> QED
    BY <2>1 DEF WholeOK
<1>7. TornOnceOK'
  BY <1>4, <1>5 DEF FactorInv, TornOnceOK, Own
<1>8. SpentOK'
  <2>1. ASSUME NEW c \in CodeSet, CodeOK(c), Spent(c) PROVE CodeOK(c)' /\ Spent(c)'
    <3>1. CodeOK(c)'
      BY <2>1, OthersKept DEF TypeInv
    <3>2. torn = 0 /\ c.kind = "totp" => c.bind # pending'
      <4>1. c.bind <= made.bindings /\ c.bind \in Nat /\ made.bindings \in Nat
        BY <2>1 DEF CodeOK, CodeSet, TypeInv, ScalarsOK
      <4>2. pending' \in Nat
        BY DEF TypeInv, ScalarsOK
      <4> QED
        BY <2>1, <4>1, <4>2 DEF Spent
    <3>3. \A q \in Threads : At(q, "enable")' \/ At(q, "accepted")' => pc'[q] = pc[q]
      BY <1>1 DEF At, FactorStages
    <3>4. \A q \in Threads : At(q, "enable")' => pc'[q].bind # c.bind \/ ~ (torn = 0 /\ c.kind = "totp")
      BY <2>1, <3>3 DEF Spent, At
    <3>5. \A q \in Threads : At(q, "accepted")' /\ pc'[q].code = c => c.kind = "totp" /\ torn > 0
      BY <2>1, <3>3 DEF Spent, At
    <3> QED
      BY <2>1, <3>1, <3>2, <3>4, <3>5 DEF Spent
  <2>2. ASSUME NEW id, Answered(id) PROVE Answered(id)'
    <3>1. id \in 1..made'.chals /\ id \notin DOMAIN chals'
      BY <2>2 DEF Answered, TypeInv, ScalarsOK, Grows
    <3>2. \A q \in Threads : pc'[q].at \in {"code", "spend", "accepted"} => pc'[q] = pc[q]
      BY <1>1 DEF FactorStages
    <3> QED
      BY <2>2, <3>1, <3>2 DEF Answered
  <2> QED
    BY <2>1, <2>2, SpentCarried DEF FactorInv
<1>9. CodeOnce'
  BY OnceKept DEF FactorInv, TypeInv, ScalarsOK
<1>10. ASSUME NEW q \in Threads PROVE TurnOK(q)'
  <2>1. CASE pc'[q].at \notin FactorStages
    BY <2>1 DEF TurnOK, At, FactorStages
  <2>2. CASE pc'[q].at \in FactorStages
    <3>1. pc'[q] = pc[q]
      BY <1>1, <2>2
    <3>2. TurnOK(q)
      BY DEF FactorInv
    <3> QED
      BY <1>5, <3>1, <3>2 DEF TurnOK, At, Own
  <2> QED
    BY <2>1, <2>2
<1> QED
  BY <1>3, <1>6, <1>7, <1>8, <1>9, <1>10 DEF FactorInv

\* The request r has its turn.
Alone(r) == \A q \in Threads : q # r => pc[q].at \notin FactorStages /\ pc'[q] = pc[q]

LEMMA HasTurn ==
  ASSUME TypeInv, Turns, NEW r \in Threads, NEW rec, Goto(r, rec), MyTurn(r) \/ pc[r].at \in FactorStages
  PROVE  Alone(r) /\ pc'[r] = rec
<1>1. pc'[r] = rec /\ \A q \in Threads : q # r => pc'[q] = pc[q]
  BY GotoFacts DEF TypeInv
<1>2. \A q \in Threads : q # r => pc[q].at \notin FactorStages
  BY DEF Turns, MyTurn
<1> QED
  BY <1>1, <1>2 DEF Alone

LEMMA TurnStep ==
  ASSUME TypeInv, FactorInv, NEW r \in Threads, Alone(r), UNCHANGED sc,
         TurnOK(r)', SpentOK', CodeOnce',
         torn' = 0 /\ ~ Between(r)' => Whole',
         torn' <= 1 /\ ~ Rewriting(r)' /\ Enabled' => Own(recovery)'
  PROVE  FactorInv'
<1>1. \A q \in Threads : q # r => pc'[q].at \notin FactorStages
  BY DEF Alone
<1>2. Turns'
  BY <1>1 DEF FactorInv, Turns
<1>3. \A q \in Threads : q # r => TurnOK(q)'
  BY <1>1 DEF TurnOK, At, FactorStages
<1>4. WholeOK' /\ TornOnceOK'
  BY DEF WholeOK, TornOnceOK
<1> QED
  BY <1>2, <1>3, <1>4 DEF FactorInv

\* What holds before the step of a request that has its turn.
LEMMA TurnFacts ==
  ASSUME TypeInv, FactorInv, NEW r \in Threads, Alone(r)
  PROVE  /\ torn = 0 /\ ~ Between(r) => Whole
         /\ torn <= 1 /\ ~ Rewriting(r) /\ Enabled => Own(recovery)
         /\ TurnOK(r) /\ torn \in Nat
<1>1. \A q \in Threads : q # r => ~ Between(q) /\ ~ Rewriting(q)
  BY DEF Alone, Between, Rewriting, At, FactorStages
<1> QED
  BY <1>1 DEF FactorInv, WholeOK, TornOnceOK, TypeInv, ScalarsOK

\* What the request may do to the codes that have been spent.
LEMMA SpentStep ==
  ASSUME TypeInv, TypeInv', FactorInv, Grows, NEW r \in Threads, Alone(r), opened' = opened, torn' >= torn,
         \A c \in recovery' : c \in recovery \/ c.batch > made.batches,
         DOMAIN chals' \subseteq DOMAIN chals,
         pending' \in {0, pending},
         \/ torn' > 0
         \/ secret' = secret /\ lastStep' >= lastStep
         \/ secret' = 0
         \/ At(r, "enable") /\ secret' = pc[r].bind,
         At(r, "enable")' => pc'[r].bind = pending \/ (At(r, "enable") /\ pc'[r].bind = pc[r].bind),
         pc'[r].at \in {"code", "spend", "accepted"} =>
            \/ pc'[r].id \in DOMAIN chals
            \/ pc[r].at \in {"code", "spend", "accepted"} /\ pc'[r].id = pc[r].id,
         At(r, "accepted")' =>
            \/ pc'[r].code.kind = "recovery" /\ pc'[r].code \in recovery
            \/ pc'[r].code.kind = "totp" /\ pc'[r].code.bind = secret /\ pc'[r].code.n > lastStep
  PROVE  SpentOK' /\ CodeOnce'
<1>1. torn \in Nat /\ torn' \in Nat /\ lastStep \in Nat /\ lastStep' \in Nat
  BY SkewAssumption, TwoFactorBounds DEF TypeInv, ScalarsOK, Start
<1>2. \A q \in Threads : q # r => pc'[q].at \notin FactorStages /\ pc[q].at \notin FactorStages
  BY DEF Alone
<1>3. \A q \in Threads : At(q, "enable")' \/ At(q, "accepted")' \/ pc'[q].at \in {"code", "spend", "accepted"}
                         => q = r
  BY <1>2 DEF At, FactorStages
<1>4. ASSUME NEW c \in CodeSet, CodeOK(c), Spent(c) PROVE CodeOK(c)' /\ Spent(c)'
  <2>1. CodeOK(c)'
    BY <1>4, OthersKept DEF TypeInv
  <2>2. c.kind = "recovery" => c \notin recovery'
    <3>1. c.batch <= made.batches /\ c.batch \in Nat /\ made.batches \in Nat
      BY <1>4 DEF CodeOK, CodeSet, TypeInv, ScalarsOK
    <3> QED
      BY <1>4, <3>1 DEF Spent
  <2>3. ASSUME c.kind = "totp", torn' = 0
        PROVE  /\ c.bind # 0 /\ c.bind # pending' /\ (c.bind = secret' => c.n <= lastStep')
               /\ (At(r, "enable")' => pc'[r].bind # c.bind)
    <3>1. torn = 0
      BY <1>1, <2>3
    <3>2. /\ c.bind # 0 /\ c.bind # pending /\ (c.bind = secret => c.n <= lastStep)
          /\ (At(r, "enable") => pc[r].bind # c.bind)
      BY <1>4, <2>3, <3>1 DEF Spent
    <3>3. c.n \in Nat
      BY DEF CodeSet
    <3> QED
      BY <1>1, <2>3, <3>2, <3>3
  <2>4. At(r, "accepted")' /\ pc'[r].code = c => c.kind = "totp" /\ torn > 0
    <3>1. c.n \in Nat
      BY DEF CodeSet
    <3> QED
      BY <1>1, <1>4, <3>1 DEF Spent
  <2>5. torn > 0 => torn' > 0
    BY <1>1
  <2> QED
    BY <1>3, <2>1, <2>2, <2>3, <2>4, <2>5 DEF Spent
<1>5. ASSUME NEW id, Answered(id) PROVE Answered(id)'
  <2>1. id \in 1..made'.chals /\ id \notin DOMAIN chals'
    BY <1>5 DEF Answered, TypeInv, ScalarsOK, Grows
  <2>2. pc'[r].at \in {"code", "spend", "accepted"} => pc'[r].id # id
    BY <1>5 DEF Answered
  <2> QED
    BY <1>3, <2>1, <2>2 DEF Answered
<1> QED
  BY <1>4, <1>5, SpentCarried, OnceKept DEF FactorInv

-----------------------------------------------------------------------------
(* The second factor, step by step *)

\* A request that has its turn looks at what there is.
LEMMA LookStep ==
  ASSUME TypeInv, TypeInv', FactorInv, NEW r \in Threads, Alone(r), ~ Between(r), ~ Between(r)',
         UNCHANGED <<world, settings, devices, pending, chals, made, opened, torn>>,
         At(r, "enable")' => pc'[r].bind = pending,
         pc'[r].at \in {"code", "spend"} =>
            \/ pc'[r].id \in DOMAIN chals
            \/ pc[r].at \in {"code", "spend", "accepted"} /\ pc'[r].id = pc[r].id,
         pc'[r].at # "accepted", TurnOK(r)'
  PROVE  FactorInv'
<1>1. /\ UNCHANGED <<sc, now, secret, enabled, lastStep, recovery, devices, pending, chals, made, opened, torn>>
      /\ Enabled' = Enabled
  BY DEF world, settings, Enabled
<1>2. Grows /\ torn' >= torn /\ lastStep' >= lastStep
  BY <1>1, SkewAssumption, TwoFactorBounds DEF Grows, TypeInv, ScalarsOK, Start
<1>3. SpentOK' /\ CodeOnce'
  <2>1. DOMAIN chals' \subseteq DOMAIN chals /\ (\A c \in recovery' : c \in recovery)
        /\ pending' \in {0, pending} /\ secret' = secret /\ opened' = opened
    BY <1>1
  <2>2. ~ At(r, "accepted")'
    BY DEF At
  <2> QED
    BY <1>2, <2>1, <2>2, SpentStep
<1>4. torn' = 0 /\ ~ Between(r)' => Whole'
  BY <1>1, TurnFacts DEF Whole, Own
<1>5. torn' <= 1 /\ ~ Rewriting(r)' /\ Enabled' => Own(recovery)'
  <2>1. ~ Rewriting(r)
    BY DEF Rewriting, Between, At, TypeInv, RequestOK
  <2> QED
    BY <1>1, <2>1, TurnFacts DEF Own
<1> QED
  BY <1>1, <1>3, <1>4, <1>5, TurnStep

\* Stages of which TurnOK says nothing.
LEMMA NothingToSay ==
  ASSUME NEW r, pc'[r].at \notin {"spend", "accepted", "remember", "consume", "regen", "clear", "enable"}
  PROVE  TurnOK(r)'
BY DEF TurnOK, At

LEMMA ManagePasswordFactor ==
  ASSUME TypeInv, TypeInv', FactorInv, NEW r \in Threads, NEW what, ManagePassword(r, what)
  PROVE  FactorInv'
<1>1. PICK at, c : /\ at \in {"manage", "clear", "forget"} /\ c = pc[r].client
                   /\ Goto(r, [at |-> at, what |-> what, client |-> c, k |-> 1])
  <2> DEFINE at == IF Enabled \/ what = "recovery" THEN "manage"
                   ELSE IF what = "disable" THEN "clear" ELSE "forget"
  <2>1. Goto(r, [at |-> at, what |-> what, client |-> pc[r].client, k |-> 1])
    BY DEF ManagePassword
  <2>2. at \in {"manage", "clear", "forget"}
    OBVIOUS
  <2> QED
    BY <2>1, <2>2
<1>2. Alone(r) /\ pc'[r] = [at |-> at, what |-> what, client |-> c, k |-> 1]
  BY <1>1, HasTurn DEF FactorInv, ManagePassword
<1>3. TurnOK(r)'
  BY <1>1, <1>2 DEF TurnOK, At
<1>4. ~ Between(r) /\ ~ Between(r)'
  BY <1>2 DEF ManagePassword, PasswordRight, At, Between
<1> QED
  BY <1>1, <1>2, <1>3, <1>4, LookStep DEF ManagePassword, At

LEMMA AnswerFactor ==
  ASSUME TypeInv, TypeInv', FactorInv, NEW r \in Threads, NEW id \in DOMAIN chals, NEW code, NEW remember,
         Answer(r, id, code, remember)
  PROVE  FactorInv'
<1>1. Alone(r) /\ pc'[r].at = "code" /\ pc'[r].id = id
  BY HasTurn DEF FactorInv, Answer
<1>2. TurnOK(r)'
  BY <1>1, NothingToSay
<1>3. ~ Between(r) /\ ~ Between(r)'
  BY <1>1 DEF Answer, At, Between
<1> QED
  BY <1>1, <1>2, <1>3, LookStep DEF Answer, At

LEMMA EnableCheckFactor ==
  ASSUME TypeInv, TypeInv', FactorInv, NEW r \in Threads, NEW c, NEW code, EnableCheck(r, c, code)
  PROVE  FactorInv'
<1>1. UNCHANGED <<world, faults, settings, devices, pending, chals, made, opened, torn>>
  BY DEF EnableCheck
<1>2. CASE UNCHANGED pc
  <2>1. Grows
    BY <1>1, SkewAssumption, TwoFactorBounds DEF Grows, world, TypeInv, ScalarsOK, Start
  <2>2. UNCHANGED <<sc, secret, enabled, lastStep, recovery, opened, torn>> /\ devices' = devices
        /\ chals' = chals /\ pending' = pending
    BY <1>1 DEF world, settings
  <2> QED
    BY <1>2, <2>1, <2>2, AsideStep
<1>3. CASE InTime(code, pending) /\ Goto(r, [at |-> "enable", client |-> c, bind |-> pending, k |-> 1])
  <2>1. Alone(r) /\ pc'[r] = [at |-> "enable", client |-> c, bind |-> pending, k |-> 1]
    BY <1>3, HasTurn DEF FactorInv, EnableCheck
  <2>2. ~ Between(r) /\ ~ Between(r)' /\ pending # 0
    BY <2>1 DEF EnableCheck, At, Between
  <2>3. torn = 0 => ~ Enabled
    BY <2>1, <2>2, TurnFacts DEF Whole
  <2>4. TurnOK(r)'
    <3>1. torn' = torn /\ Enabled' = Enabled
      BY <1>1 DEF Enabled, settings
    <3> QED
      BY <2>1, <2>2, <2>3, <3>1 DEF TurnOK, At
  <2> QED
    BY <1>1, <2>1, <2>2, <2>4, LookStep
<1> QED
  BY <1>2, <1>3 DEF EnableCheck

LEMMA LastStepIs == ASSUME TypeInv PROVE LastStep = lastStep
BY SkewAssumption, TwoFactorBounds DEF LastStep, TypeInv, ScalarsOK, Start

LEMMA CheckCodeFactor ==
  ASSUME TypeInv, TypeInv', FactorInv, NEW r \in Threads, CheckCode(r)
  PROVE  FactorInv'
<1>1. PICK code, rest : code = pc[r].code /\ rest = recovery \ {code}
  OBVIOUS
<1>2. /\ UNCHANGED <<world, settings, devices, pending, chals, made, opened, torn>>
      /\ pc[r].at = "code" /\ CodeOK(code)
      /\ \/ /\ NewCode(code) \/ code \in recovery
            /\ Goto(r, [at |-> "spend", client |-> pc[r].client, id |-> pc[r].id, code |-> code,
                        remember |-> pc[r].remember, rest |-> rest])
         \/ Goto(r, [at |-> "failed", client |-> pc[r].client, id |-> pc[r].id])
  BY <1>1 DEF CheckCode, At, TypeInv, RequestOK, Carries
<1>3. ~ Between(r) /\ pc[r].at \in FactorStages
  BY <1>2 DEF Between, FactorStages
<1>4. CASE Goto(r, [at |-> "failed", client |-> pc[r].client, id |-> pc[r].id])
  <2>1. Alone(r) /\ pc'[r].at = "failed"
    BY <1>3, <1>4, HasTurn DEF FactorInv
  <2>2. TurnOK(r)' /\ ~ Between(r)'
    BY <2>1, NothingToSay DEF Between
  <2> QED
    BY <1>2, <1>3, <2>1, <2>2, LookStep DEF At
<1>5. CASE /\ NewCode(code) \/ code \in recovery
           /\ Goto(r, [at |-> "spend", client |-> pc[r].client, id |-> pc[r].id, code |-> code,
                       remember |-> pc[r].remember, rest |-> rest])
  <2>1. /\ Alone(r)
        /\ pc'[r] = [at |-> "spend", client |-> pc[r].client, id |-> pc[r].id, code |-> code,
                     remember |-> pc[r].remember, rest |-> rest]
    BY <1>3, <1>5, HasTurn DEF FactorInv
  <2>2. ~ Between(r)' /\ ~ At(r, "enable")'
    BY <2>1 DEF Between, At
  <2>3. recovery' = recovery /\ secret' = secret /\ lastStep' = lastStep
    BY <1>2 DEF settings
  <2>4. code.kind = "totp" => code.bind = secret /\ secret # 0 /\ code.n > lastStep
    BY <1>5, LastStepIs DEF NewCode, InTime, TypeInv, TablesOK, RecoveryOK
  <2>5. code.kind = "recovery" => code \in recovery
    BY <1>5 DEF NewCode, InTime
  <2>6. TurnOK(r)'
    <3>1. pc'[r].rest = recovery' \ {pc'[r].code}
      BY <1>1, <2>1, <2>3
    <3> QED
      BY <2>1, <2>3, <2>4, <2>5, <3>1 DEF TurnOK, At
  <2> QED
    BY <1>2, <1>3, <2>1, <2>2, <2>6, LookStep
<1> QED
  BY <1>2, <1>4, <1>5

LEMMA SpendCodeFactor ==
  ASSUME TypeInv, TypeInv', FactorInv, NEW r \in Threads, SpendCode(r)
  PROVE  FactorInv'
<1>1. PICK code, rest : code = pc[r].code /\ rest = pc[r].rest
  OBVIOUS
<1>2. /\ UNCHANGED <<sc, now, secret, enabled, devices, pending, chals, made, opened, torn>>
      /\ pc[r].at = "spend" /\ CodeOK(code) /\ code \in CodeSet
  BY <1>1 DEF SpendCode, world, At, TypeInv, RequestOK, Carries
<1>3. pc[r].at \in FactorStages /\ ~ Between(r) /\ ~ Rewriting(r) /\ Enabled' = Enabled
  BY <1>2 DEF Between, Rewriting, At, FactorStages, Enabled
<1>4. Grows
  BY <1>2, SkewAssumption, TwoFactorBounds DEF Grows, TypeInv, ScalarsOK, Start
<1>5. CASE /\ Goto(r, [at |-> "failed", client |-> pc[r].client, id |-> pc[r].id])
           /\ UNCHANGED <<lastStep, recovery>>
  <2>1. /\ pc'[r] = [at |-> "failed", client |-> pc[r].client, id |-> pc[r].id]
        /\ \A q \in Threads : q # r => pc'[q] = pc[q]
    BY <1>5, GotoFacts DEF TypeInv
  <2>2. pc'[r].at \notin FactorStages /\ pc[r].at \notin {"enable", "clear"}
    BY <1>2, <2>1 DEF FactorStages
  <2> QED
    BY <1>2, <1>4, <1>5, <2>1, <2>2, AsideStep
<1>6. CASE /\ \/ code.kind = "totp" /\ lastStep' = code.n /\ UNCHANGED recovery
              \/ code.kind = "recovery" /\ recovery' = rest /\ UNCHANGED lastStep
           /\ Goto(r, [at |-> "accepted", client |-> pc[r].client, id |-> pc[r].id,
                       code |-> code, remember |-> pc[r].remember])
  <2>1. /\ Alone(r)
        /\ pc'[r] = [at |-> "accepted", client |-> pc[r].client, id |-> pc[r].id,
                     code |-> code, remember |-> pc[r].remember]
    BY <1>3, <1>6, HasTurn DEF FactorInv
  <2>2. /\ rest = recovery \ {code}
        /\ code.kind = "totp" => code.bind = secret /\ secret # 0 /\ code.n > lastStep
        /\ code.kind = "recovery" => code \in recovery
    <3>1. TurnOK(r)
      BY DEF FactorInv
    <3> QED
      BY <1>1, <1>2, <3>1 DEF TurnOK, At
  <2>3. lastStep \in Nat /\ lastStep' \in Nat /\ code.n \in Nat /\ lastStep' >= lastStep
    BY <1>2, <1>6, <2>2, SkewAssumption, TwoFactorBounds DEF TypeInv, ScalarsOK, Start, CodeSet
  <2>4. recovery' \subseteq recovery
    BY <1>6, <2>2
  <2>5. torn = 0 => code.bind = secret /\ secret # 0
    <3>1. torn = 0 /\ code.kind = "recovery" => code.bind = secret /\ secret # 0
      BY <1>3, <2>1, <2>2, TurnFacts DEF Whole, Own, Enabled
    <3> QED
      BY <1>2, <2>2, <3>1 DEF CodeSet
  <2>6. TurnOK(r)'
    <3>1. code.kind = "recovery" => code \notin recovery'
      BY <1>6, <2>2
    <3>2. code.kind = "totp" => code.n <= lastStep'
      BY <1>6, <2>3
    <3> QED
      BY <1>2, <2>1, <2>2, <2>5, <3>1, <3>2 DEF TurnOK, At
  <2>7. SpentOK' /\ CodeOnce'
    <3>1. /\ DOMAIN chals' \subseteq DOMAIN chals /\ (\A c \in recovery' : c \in recovery)
          /\ pending' \in {0, pending} /\ secret' = secret /\ opened' = opened /\ torn' >= torn
      BY <1>2, <2>4 DEF TypeInv, ScalarsOK
    <3>2. ~ At(r, "enable")' /\ pc'[r].id = pc[r].id /\ pc'[r].code = code
      BY <2>1 DEF At
    <3>3. \/ code.kind = "recovery" /\ code \in recovery
          \/ code.kind = "totp" /\ code.bind = secret /\ code.n > lastStep
      BY <1>2, <2>2 DEF CodeSet
    <3> QED
      BY <1>2, <1>4, <2>1, <2>3, <3>1, <3>2, <3>3, SpentStep
  <2>8. torn' = 0 => Whole'
    BY <1>2, <1>3, <2>1, <2>4, TurnFacts DEF Whole, Own
  <2>9. torn' <= 1 /\ Enabled' => Own(recovery)'
    BY <1>2, <1>3, <2>1, <2>4, TurnFacts DEF Own
  <2> QED
    BY <1>2, <2>1, <2>6, <2>7, <2>8, <2>9, TurnStep
<1>7. \/ /\ Goto(r, [at |-> "failed", client |-> pc[r].client, id |-> pc[r].id])
         /\ UNCHANGED <<lastStep, recovery>>
      \/ /\ \/ code.kind = "totp" /\ lastStep' = code.n /\ UNCHANGED recovery
            \/ code.kind = "recovery" /\ recovery' = rest /\ UNCHANGED lastStep
         /\ Goto(r, [at |-> "accepted", client |-> pc[r].client, id |-> pc[r].id,
                     code |-> code, remember |-> pc[r].remember])
  BY <1>1, <1>2 DEF SpendCode, CodeSet
<1> QED
  BY <1>5, <1>6, <1>7

LEMMA AnswerAcceptedFactor ==
  ASSUME TypeInv, TypeInv', FactorInv, NEW r \in Threads, AnswerAccepted(r)
  PROVE  FactorInv'
<1>1. PICK code, id : code = pc[r].code /\ id = pc[r].id
  OBVIOUS
<1>2. /\ UNCHANGED <<sc, now, secret, enabled, lastStep, recovery, devices, pending, made, torn>>
      /\ pc[r].at = "accepted" /\ CodeOK(code) /\ code \in CodeSet /\ id \in 1..made.chals
      /\ chals' = [k \in DOMAIN chals \ {id} |-> chals[k]]
      /\ opened' = Append(opened, [code |-> code, id |-> id])
      /\ \/ Goto(r, [at |-> "remember", client |-> pc[r].client, bind |-> code.bind])
         \/ Goto(r, Idle)
  BY <1>1 DEF AnswerAccepted, world, settings, At, TypeInv, RequestOK, Carries
<1>3. pc[r].at \in FactorStages /\ ~ Between(r) /\ ~ Rewriting(r) /\ Enabled' = Enabled
  BY <1>2 DEF Between, Rewriting, At, FactorStages, Enabled
<1>4. /\ Alone(r)
      /\ \/ pc'[r] = [at |-> "remember", client |-> pc[r].client, bind |-> code.bind]
         \/ pc'[r] = Idle
  BY <1>2, <1>3, HasTurn DEF FactorInv
<1>5. pc'[r].at \in {"remember", "idle"}
  BY <1>4 DEF Idle
<1>6. /\ code.kind = "totp" => code.bind = secret /\ secret # 0 /\ code.n <= lastStep
      /\ code.kind = "recovery" => code \notin recovery
      /\ torn = 0 => code.bind = secret /\ secret # 0
  <2>1. TurnOK(r)
    BY DEF FactorInv
  <2> QED
    BY <1>1, <1>2, <2>1 DEF TurnOK, At
<1>7. torn = 0 => Whole
  BY <1>3, <1>4, TurnFacts
<1>8. \A q \in Threads : pc'[q].at \notin {"code", "spend", "accepted", "enable"}
  BY <1>4, <1>5 DEF Alone, FactorStages
<1>9. Spent(code)' /\ CodeOK(code)' /\ Answered(id)'
  <2>1. torn = 0 => code.bind # pending
    BY <1>6, <1>7 DEF Whole, Enabled
  <2>2. Spent(code)'
    BY <1>2, <1>6, <1>8, <2>1 DEF Spent, At
  <2>3. CodeOK(code)' /\ Answered(id)'
    BY <1>2, <1>8 DEF CodeOK, Answered
  <2> QED
    BY <2>2, <2>3
<1>10. ASSUME NEW c, CodeOK(c), Spent(c) PROVE CodeOK(c)' /\ Spent(c)'
  BY <1>2, <1>8, <1>10 DEF CodeOK, Spent, At
<1>11. ASSUME NEW k, Answered(k) PROVE Answered(k)'
  BY <1>2, <1>8, <1>11 DEF Answered
<1>12. PICK n : n = Len(opened)
  OBVIOUS
<1>13. /\ n \in Nat /\ Len(opened') = n + 1 /\ \A i \in 1..n : opened'[i] = opened[i]
       /\ opened'[n + 1] = [code |-> code, id |-> id]
  <2>1. opened \in Seq([code : CodeSet, id : Nat]) /\ id \in Nat
    BY <1>2 DEF TypeInv, TablesOK, ScalarsOK
  <2>2. [code |-> code, id |-> id] \in [code : CodeSet, id : Nat]
    BY <1>2, <2>1
  <2> QED
    BY <1>2, <1>12, <2>1, <2>2, AppendProperties
<1>14. SpentOK'
  <2> SUFFICES ASSUME NEW i \in 1..(n + 1)
               PROVE  (CodeOK(opened[i].code) /\ Spent(opened[i].code) /\ Answered(opened[i].id))'
    BY <1>13 DEF SpentOK
  <2>1. PICK c, k : c = opened'[i].code /\ k = opened'[i].id
    OBVIOUS
  <2>2. CodeOK(c)' /\ Spent(c)' /\ Answered(k)'
    <3>1. CASE i = n + 1
      BY <1>9, <1>13, <2>1, <3>1
    <3>2. CASE i \in 1..n
      <4>1. c = opened[i].code /\ k = opened[i].id
        BY <1>13, <2>1, <3>2
      <4>2. CodeOK(opened[i].code) /\ Spent(opened[i].code) /\ Answered(opened[i].id)
        BY <1>12, <3>2 DEF FactorInv, SpentOK
      <4>3. CodeOK(c) /\ Spent(c) /\ Answered(k)
        BY <4>1, <4>2
      <4> QED
        BY <1>10, <1>11, <4>3
    <3> QED
      BY <1>13, <3>1, <3>2
  <2>3. CodeOK(opened[i].code)'
    BY <2>1, <2>2 DEF CodeOK
  <2>4. Spent(opened[i].code)'
    BY <2>1, <2>2 DEF Spent
  <2>5. Answered(opened[i].id)'
    BY <2>1, <2>2 DEF Answered
  <2> QED
    BY <2>3, <2>4, <2>5
<1>15. CodeOnce'
  <2>1. ASSUME NEW i \in 1..n
        PROVE  /\ opened[i].id # id
               /\ opened[i].code = code => code.kind = "totp" /\ torn > 0
    <3>1. Spent(opened[i].code) /\ Answered(opened[i].id)
      BY <1>12 DEF FactorInv, SpentOK
    <3>2. opened[i].id # id
      BY <1>1, <1>2, <3>1 DEF Answered
    <3>3. opened[i].code = code => code.kind = "totp" /\ torn > 0
      BY <1>1, <1>2, <3>1 DEF Spent, At
    <3> QED
      BY <3>2, <3>3
  <2>2. \A i, j \in 1..n : i # j =>
           /\ opened[i].id # opened[j].id
           /\ opened[i].code = opened[j].code => opened[i].code.kind = "totp" /\ torn > 0
    BY <1>12 DEF FactorInv, CodeOnce
  <2>3. ASSUME NEW i \in 1..(n + 1), NEW j \in 1..(n + 1), i # j
        PROVE  /\ opened'[i].id # opened'[j].id
               /\ opened'[i].code = opened'[j].code => opened'[i].code.kind = "totp" /\ torn > 0
    <3>1. CASE i \in 1..n /\ j \in 1..n
      BY <1>13, <2>2, <2>3, <3>1
    <3>2. CASE i = n + 1 /\ j \in 1..n
      BY <1>13, <2>1, <3>2
    <3>3. CASE i \in 1..n /\ j = n + 1
      BY <1>13, <2>1, <3>3
    <3> QED
      BY <1>13, <2>3, <3>1, <3>2, <3>3
  <2> QED
    BY <1>2, <1>13, <2>3 DEF CodeOnce
<1>16. TurnOK(r)'
  <2>1. CASE pc'[r] = Idle
    BY <1>5, <2>1, NothingToSay DEF Idle
  <2>2. CASE pc'[r] = [at |-> "remember", client |-> pc[r].client, bind |-> code.bind]
    BY <1>2, <1>6, <2>2 DEF TurnOK, At
  <2> QED
    BY <1>4, <2>1, <2>2
<1>17. torn' = 0 => Whole'
  BY <1>2, <1>3, <1>7 DEF Whole, Own
<1>18. torn' <= 1 /\ Enabled' => Own(recovery)'
  BY <1>2, <1>3, <1>4, TurnFacts DEF Own
<1> QED
  BY <1>2, <1>4, <1>14, <1>15, <1>16, <1>17, <1>18, TurnStep

LEMMA RememberDeviceFactor ==
  ASSUME TypeInv, TypeInv', FactorInv, NEW r \in Threads, RememberDevice(r)
  PROVE  FactorInv'
<1>1. PICK b, d : b = pc[r].bind /\ d = [client |-> pc[r].client, bind |-> pc[r].bind]
  OBVIOUS
<1>2. /\ UNCHANGED <<sc, now, secret, enabled, lastStep, recovery, pending, chals, made, opened, torn>>
      /\ pc[r].at = "remember" /\ devices' \subseteq devices \union {d} /\ d.bind = b
      /\ Goto(r, Idle)
  BY <1>1 DEF RememberDevice, world, settings, At
<1>3. pc[r].at \in FactorStages /\ ~ Between(r) /\ ~ Rewriting(r) /\ Enabled' = Enabled
  BY <1>2 DEF Between, Rewriting, At, FactorStages, Enabled
<1>4. Alone(r) /\ pc'[r] = Idle
  BY <1>2, <1>3, HasTurn DEF FactorInv
<1>5. pc'[r].at = "idle"
  BY <1>4 DEF Idle
<1>6. torn = 0 => b = secret /\ secret # 0
  <2>1. TurnOK(r)
    BY DEF FactorInv
  <2> QED
    BY <1>1, <1>2, <2>1 DEF TurnOK, At
<1>7. Grows /\ torn' >= torn /\ lastStep' >= lastStep
  BY <1>2, SkewAssumption, TwoFactorBounds DEF Grows, TypeInv, ScalarsOK, Start
<1>8. SpentOK' /\ CodeOnce'
  <2>1. ~ At(r, "enable")' /\ ~ At(r, "accepted")' /\ pc'[r].at \notin {"code", "spend", "accepted"}
    BY <1>5 DEF At
  <2> QED
    BY <1>2, <1>4, <1>7, <2>1, SpentStep
<1>9. torn' = 0 => Whole'
  BY <1>2, <1>3, <1>4, <1>6, TurnFacts DEF Whole, Own
<1>10. torn' <= 1 /\ Enabled' => Own(recovery)'
  BY <1>2, <1>3, <1>4, TurnFacts DEF Own
<1> QED
  BY <1>2, <1>4, <1>5, <1>8, <1>9, <1>10, NothingToSay, TurnStep

LEMMA ManageCodeFactor ==
  ASSUME TypeInv, TypeInv', FactorInv, NEW r \in Threads, NEW code, ManageCode(r, code)
  PROVE  FactorInv'
<1>1. UNCHANGED <<world, left, faults, settings, devices, pending, chals, made, opened, torn>>
      /\ pc[r].at = "manage"
  BY DEF ManageCode, At
<1>2. Manages(r) /\ pc[r].k = 1
  BY <1>1 DEF At, TypeInv, RequestOK
<1>3. PICK c, what : c = pc[r].client /\ what = pc[r].what
  OBVIOUS
<1>4. what \in {"disable", "recovery", "change"}
  BY <1>2, <1>3 DEF Manages
<1>5. pc[r].at \in FactorStages /\ ~ Between(r)
  BY <1>1 DEF Between, FactorStages
<1>6. /\ secret' = secret /\ recovery' = recovery /\ torn' = torn
  BY <1>1 DEF settings
<1>7. CASE InTime(code, secret) /\ Goto(r, [pc[r] EXCEPT !.at = Granted(what)])
  <2>1. [pc[r] EXCEPT !.at = Granted(what)] = [at |-> Granted(what), what |-> what, client |-> c, k |-> 1]
    BY <1>2, <1>3 DEF Manages
  <2>2. Alone(r) /\ pc'[r] = [at |-> Granted(what), what |-> what, client |-> c, k |-> 1]
    BY <1>5, <1>7, <2>1, HasTurn DEF FactorInv
  <2>3. Granted(what) \in {"clear", "regen", "forget"}
    BY <1>4 DEF Granted
  <2>4. TurnOK(r)'
    BY <1>6, <1>7, <2>2, <2>3 DEF TurnOK, At, InTime
  <2>5. ~ Between(r)' /\ ~ At(r, "enable")' /\ pc'[r].at \notin {"code", "spend", "accepted"}
    BY <2>2, <2>3 DEF Between, At
  <2> QED
    BY <1>1, <1>5, <2>2, <2>4, <2>5, LookStep
<1>8. CASE /\ code \in recovery
           /\ Goto(r, [at |-> "consume", what |-> what, client |-> c, k |-> 1, rest |-> recovery \ {code}])
  <2>1. /\ Alone(r)
        /\ pc'[r] = [at |-> "consume", what |-> what, client |-> c, k |-> 1, rest |-> recovery \ {code}]
    BY <1>5, <1>8, HasTurn DEF FactorInv
  <2>2. torn = 0 => secret # 0
    BY <1>5, <1>8, <2>1, TurnFacts DEF Whole, Enabled
  <2>3. TurnOK(r)'
    <3>1. pc'[r].at = "consume" /\ pc'[r].rest \subseteq recovery'
      BY <1>6, <2>1
    <3> QED
      BY <1>6, <2>2, <3>1 DEF TurnOK, At
  <2>4. ~ Between(r)' /\ ~ At(r, "enable")' /\ pc'[r].at \notin {"code", "spend", "accepted"}
    BY <2>1 DEF Between, At
  <2> QED
    BY <1>1, <1>5, <2>1, <2>3, <2>4, LookStep
<1>9. CASE Goto(r, Idle)
  <2>1. Alone(r) /\ pc'[r] = Idle /\ pc'[r].at = "idle"
    BY <1>5, <1>9, HasTurn DEF FactorInv, Idle
  <2>2. TurnOK(r)' /\ ~ Between(r)' /\ ~ At(r, "enable")' /\ pc'[r].at \notin {"code", "spend", "accepted"}
    BY <2>1, NothingToSay DEF Between, At
  <2> QED
    BY <1>1, <1>5, <2>1, <2>2, LookStep
<1> QED
  BY <1>3, <1>7, <1>8, <1>9 DEF ManageCode

LEMMA ManageConsumeFactor ==
  ASSUME TypeInv, TypeInv', FactorInv, NEW r \in Threads, ManageConsume(r)
  PROVE  FactorInv'
<1>1. PICK c, what, rest : c = pc[r].client /\ what = pc[r].what /\ rest = pc[r].rest
  OBVIOUS
<1>2. /\ UNCHANGED <<sc, now, secret, enabled, lastStep, devices, pending, chals, made, opened, torn>>
      /\ pc[r].at = "consume" /\ what \in {"disable", "recovery", "change"}
      /\ \/ recovery' = rest /\ Goto(r, [at |-> Granted(what), what |-> what, client |-> c, k |-> 1])
         \/ Goto(r, Idle) /\ UNCHANGED recovery
  BY <1>1 DEF ManageConsume, world, At, TypeInv, RequestOK
<1>3. pc[r].at \in FactorStages /\ ~ Between(r) /\ ~ Rewriting(r) /\ Enabled' = Enabled
  BY <1>2 DEF Between, Rewriting, At, FactorStages, Enabled
<1>4. /\ Alone(r)
      /\ \/ recovery' = rest /\ pc'[r] = [at |-> Granted(what), what |-> what, client |-> c, k |-> 1]
         \/ pc'[r] = Idle /\ UNCHANGED recovery
  BY <1>2, <1>3, HasTurn DEF FactorInv
<1>5. rest \subseteq recovery /\ (torn = 0 => secret # 0)
  <2>1. TurnOK(r)
    BY DEF FactorInv
  <2> QED
    BY <1>1, <1>2, <2>1 DEF TurnOK, At
<1>6. recovery' \subseteq recovery
  BY <1>4, <1>5
<1>7. /\ pc'[r].at \in {"clear", "regen", "forget", "idle"}
      /\ pc'[r].at = "clear" => pc'[r].k = 1
  <2>1. Granted(what) \in {"clear", "regen", "forget"}
    BY <1>2 DEF Granted
  <2> QED
    BY <1>4, <2>1 DEF Idle
<1>8. Grows /\ torn' >= torn /\ lastStep' >= lastStep
  BY <1>2, SkewAssumption, TwoFactorBounds DEF Grows, TypeInv, ScalarsOK, Start
<1>9. SpentOK' /\ CodeOnce'
  <2>1. ~ At(r, "enable")' /\ ~ At(r, "accepted")' /\ pc'[r].at \notin {"code", "spend", "accepted"}
    BY <1>7 DEF At
  <2>2. \A x \in recovery' : x \in recovery
    BY <1>6
  <2> QED
    BY <1>2, <1>4, <1>8, <2>1, <2>2, SpentStep
<1>10. TurnOK(r)'
  BY <1>2, <1>5, <1>7 DEF TurnOK, At
<1>11. torn' = 0 => Whole'
  BY <1>2, <1>3, <1>4, <1>6, TurnFacts DEF Whole, Own
<1>12. torn' <= 1 /\ Enabled' => Own(recovery)'
  BY <1>2, <1>3, <1>4, <1>6, TurnFacts DEF Own
<1> QED
  BY <1>2, <1>4, <1>9, <1>10, <1>11, <1>12, TurnStep

LEMMA RegenCodesFactor ==
  ASSUME TypeInv, TypeInv', FactorInv, NEW r \in Threads, RegenCodes(r)
  PROVE  FactorInv'
<1>1. /\ UNCHANGED <<sc, now, secret, enabled, lastStep, devices, pending, chals, opened, torn>>
      /\ pc[r].at = "regen" /\ Goto(r, Idle)
  BY DEF RegenCodes, world, At
<1>2. pc[r].at \in FactorStages /\ ~ Between(r) /\ ~ Rewriting(r) /\ Enabled' = Enabled
  BY <1>1 DEF Between, Rewriting, At, FactorStages, Enabled
<1>3. Alone(r) /\ pc'[r] = Idle /\ pc'[r].at = "idle"
  BY <1>1, <1>2, HasTurn DEF FactorInv, Idle
<1>4. TurnOK(r)' /\ ~ At(r, "enable")' /\ ~ At(r, "accepted")' /\ pc'[r].at \notin {"code", "spend", "accepted"}
  BY <1>3, NothingToSay DEF At
<1>5. torn' >= torn /\ lastStep' >= lastStep
  BY <1>1, SkewAssumption, TwoFactorBounds DEF TypeInv, ScalarsOK, Start
<1>6. torn = 0 => Whole
  BY <1>2, <1>3, TurnFacts
<1>7. CASE UNCHANGED <<recovery, made>>
  <2>1. Grows
    BY <1>1, <1>7, SkewAssumption, TwoFactorBounds DEF Grows, TypeInv, ScalarsOK, Start
  <2>2. SpentOK' /\ CodeOnce'
    BY <1>1, <1>3, <1>4, <1>5, <1>7, <2>1, SpentStep
  <2>3. torn' = 0 => Whole'
    BY <1>1, <1>2, <1>6, <1>7 DEF Whole, Own
  <2>4. torn' <= 1 /\ Enabled' => Own(recovery)'
    BY <1>1, <1>2, <1>3, <1>7, TurnFacts DEF Own
  <2> QED
    BY <1>1, <1>3, <1>4, <2>2, <2>3, <2>4, TurnStep
<1>8. CASE recovery' = Batch(secret, made.batches + 1) /\ made' = [made EXCEPT !.batches = made.batches + 1]
  <2>1. made' = [bindings |-> made.bindings, batches |-> made.batches + 1, chals |-> made.chals]
    BY <1>8 DEF TypeInv, ScalarsOK
  <2>2. Grows
    BY <1>1, <2>1, SkewAssumption, TwoFactorBounds DEF Grows, TypeInv, ScalarsOK, Start
  <2>3. \A x \in recovery' : x.bind = secret /\ x.batch > made.batches
    BY <1>8 DEF Batch, TypeInv, ScalarsOK
  <2>4. SpentOK' /\ CodeOnce'
    BY <1>1, <1>3, <1>4, <1>5, <2>2, <2>3, SpentStep
  <2>5. torn = 0 => secret # 0
    <3>1. TurnOK(r)
      BY DEF FactorInv
    <3> QED
      BY <1>1, <3>1 DEF TurnOK
  <2>6. torn' = 0 => Whole'
    BY <1>1, <1>2, <1>6, <2>3, <2>5 DEF Whole, Own
  <2>7. torn' <= 1 /\ Enabled' => Own(recovery)'
    BY <1>1, <2>3 DEF Own
  <2> QED
    BY <1>1, <1>3, <1>4, <2>4, <2>6, <2>7, TurnStep
<1> QED
  BY <1>7, <1>8 DEF RegenCodes

\* A request that writes is cut off; the codes are those of the binding in force all the same.
LEMMA CutStep ==
  ASSUME TypeInv, TypeInv', FactorInv, NEW r \in Threads, pc[r].at \in {"clear", "enable"}, CutOff(r),
         UNCHANGED <<sc, now, chals, opened>>, torn = 0 /\ Enabled => Own(recovery)
  PROVE  FactorInv'
<1>1. /\ torn' = torn + 1 /\ Goto(r, Idle)
      /\ UNCHANGED <<secret, enabled, lastStep, recovery, devices, pending, made>>
  BY DEF CutOff, settings
<1>2. pc[r].at \in FactorStages /\ torn \in Nat /\ Enabled' = Enabled
  BY <1>1 DEF FactorStages, TypeInv, ScalarsOK, Enabled
<1>3. Alone(r) /\ pc'[r] = Idle /\ pc'[r].at = "idle"
  BY <1>1, <1>2, HasTurn DEF FactorInv, Idle
<1>4. TurnOK(r)' /\ ~ At(r, "enable")' /\ ~ At(r, "accepted")' /\ pc'[r].at \notin {"code", "spend", "accepted"}
  BY <1>3, NothingToSay DEF At
<1>5. Grows
  BY <1>1, SkewAssumption, TwoFactorBounds DEF Grows, TypeInv, ScalarsOK, Start
<1>6. SpentOK' /\ CodeOnce'
  <2>1. torn' >= torn /\ torn' > 0
    BY <1>1, <1>2
  <2> QED
    BY <1>1, <1>3, <1>4, <1>5, <2>1, SpentStep
<1>7. torn' # 0 /\ (torn' <= 1 => torn = 0)
  BY <1>1, <1>2
<1>8. torn' <= 1 /\ Enabled' => Own(recovery)'
  BY <1>1, <1>2, <1>7 DEF Own
<1> QED
  BY <1>3, <1>4, <1>6, <1>7, <1>8, TurnStep

LEMMA ClearStepFactor ==
  ASSUME TypeInv, TypeInv', FactorInv, NEW r \in Threads, ClearStep(r)
  PROVE  FactorInv'
<1>1. PICK c, what, k : c = pc[r].client /\ what = pc[r].what /\ k = pc[r].k
  OBVIOUS
<1>2. k \in 1..6 /\ pc[r] = [at |-> "clear", what |-> what, client |-> c, k |-> k]
  <2>1. Manages(r) /\ pc[r].at = "clear"
    BY DEF ClearStep, At, TypeInv, RequestOK
  <2> QED
    BY <1>1, <2>1 DEF Manages, ClearSteps
<1>3. PICK step : step = ClearSteps[k]
  OBVIOUS
<1>4. \/ k = 1 /\ step = "secret"
      \/ k = 2 /\ step = "enabled"
      \/ k = 3 /\ step = "lastStep"
      \/ k = 4 /\ step = "recovery"
      \/ k = 5 /\ step = "pending"
      \/ k = 6 /\ step = "devices"
  BY <1>2, <1>3 DEF ClearSteps
<1>5. UNCHANGED <<sc, now, chals, opened>>
  BY DEF ClearStep, world
<1>6. (k > 1 => secret = 0) /\ (k > 4 => recovery = {})
  <2>1. TurnOK(r)
    BY DEF FactorInv
  <2> QED
    BY <1>1, <1>2, <2>1 DEF TurnOK, At
<1>7. ~ Rewriting(r) /\ (k = 1 => ~ Between(r)) /\ pc[r].at \in FactorStages
  BY <1>1, <1>2 DEF Rewriting, Between, At, FactorStages
<1>8. \/ /\ secret' = IF step = "secret" THEN 0 ELSE secret
         /\ enabled' = (enabled /\ step # "enabled")
         /\ lastStep' = IF step = "lastStep" THEN 0 ELSE lastStep
         /\ recovery' = IF step = "recovery" THEN {} ELSE recovery
         /\ pending' = IF step = "pending" THEN 0 ELSE pending
         /\ devices' = IF step = "devices" THEN {} ELSE devices
         /\ UNCHANGED <<torn, made>>
         /\ Goto(r, IF k = 6 THEN Idle ELSE [pc[r] EXCEPT !.k = k + 1])
      \/ CutOff(r)
  <2>1. Len(ClearSteps) = 6
    BY DEF ClearSteps
  <2> QED
    BY <1>1, <1>3, <2>1 DEF ClearStep
<1>9. CASE CutOff(r)
  <2>1. PICK rec : Goto(r, rec)
    BY <1>9 DEF CutOff
  <2>2. Alone(r)
    BY <1>7, <2>1, HasTurn DEF FactorInv
  <2>3. torn = 0 /\ Enabled => Own(recovery)
    BY <1>7, <2>2, TurnFacts
  <2> QED
    BY <1>2, <1>5, <1>9, <2>3, CutStep
<1>10. CASE /\ secret' = IF step = "secret" THEN 0 ELSE secret
            /\ enabled' = (enabled /\ step # "enabled")
            /\ lastStep' = IF step = "lastStep" THEN 0 ELSE lastStep
            /\ recovery' = IF step = "recovery" THEN {} ELSE recovery
            /\ pending' = IF step = "pending" THEN 0 ELSE pending
            /\ devices' = IF step = "devices" THEN {} ELSE devices
            /\ UNCHANGED <<torn, made>>
            /\ Goto(r, IF k = 6 THEN Idle ELSE [pc[r] EXCEPT !.k = k + 1])
  <2>1. PICK rec : /\ rec = IF k = 6 THEN Idle
                            ELSE [at |-> "clear", what |-> what, client |-> c, k |-> k + 1]
                   /\ Goto(r, rec)
    <3>1. k # 6 => [pc[r] EXCEPT !.k = k + 1] = [at |-> "clear", what |-> what, client |-> c, k |-> k + 1]
      BY <1>2
    <3> QED
      BY <1>10, <3>1
  <2>2. Alone(r) /\ pc'[r] = rec
    BY <1>7, <2>1, HasTurn DEF FactorInv
  <2>3. secret' = 0 /\ recovery' \subseteq recovery /\ pending' \in {0, pending} /\ (k >= 4 => recovery' = {})
    BY <1>2, <1>4, <1>6, <1>10
  <2>4. ~ Enabled'
    BY <2>3 DEF Enabled
  <2>5. /\ ~ At(r, "enable")' /\ ~ At(r, "accepted")' /\ pc'[r].at \notin {"code", "spend", "accepted"}
        /\ TurnOK(r)' /\ (k # 6 => Between(r)')
    <3>1. CASE k = 6
      <4>1. pc'[r].at = "idle"
        BY <2>1, <2>2, <3>1 DEF Idle
      <4> QED
        BY <3>1, <4>1, NothingToSay DEF At
    <3>2. CASE k # 6
      <4>1. pc'[r] = [at |-> "clear", what |-> what, client |-> c, k |-> k + 1]
        BY <2>1, <2>2, <3>2
      <4>2. k + 1 > 4 => recovery' = {}
        BY <1>2, <2>3
      <4> QED
        BY <1>2, <2>3, <4>1, <4>2 DEF TurnOK, At, Between
    <3> QED
      BY <3>1, <3>2
  <2>6. Grows /\ torn' >= torn
    BY <1>5, <1>10, SkewAssumption, TwoFactorBounds DEF Grows, TypeInv, ScalarsOK, Start
  <2>7. SpentOK' /\ CodeOnce'
    <3>1. (\A x \in recovery' : x \in recovery) /\ DOMAIN chals' \subseteq DOMAIN chals /\ opened' = opened
      BY <1>5, <2>3
    <3> QED
      BY <2>2, <2>3, <2>5, <2>6, <3>1, SpentStep
  <2>8. torn' = 0 /\ ~ Between(r)' => Whole'
    <3>1. ~ Between(r)' => k = 6 /\ devices' = {}
      BY <1>4, <1>10, <2>5
    <3> QED
      BY <1>2, <2>3, <2>4, <3>1 DEF Whole
  <2> QED
    BY <1>5, <2>2, <2>4, <2>5, <2>7, <2>8, TurnStep
<1> QED
  BY <1>8, <1>9, <1>10

LEMMA EnableStepFactor ==
  ASSUME TypeInv, TypeInv', FactorInv, NEW r \in Threads, EnableStep(r)
  PROVE  FactorInv'
<1>1. PICK c, b, k : c = pc[r].client /\ b = pc[r].bind /\ k = pc[r].k
  OBVIOUS
<1>2. k \in 1..5 /\ pc[r] = [at |-> "enable", client |-> c, bind |-> b, k |-> k]
  BY <1>1 DEF EnableStep, At, TypeInv, RequestOK, EnableSteps
<1>3. PICK step : step = EnableSteps[k]
  OBVIOUS
<1>4. \/ k = 1 /\ step = "secret"
      \/ k = 2 /\ step = "enabled"
      \/ k = 3 /\ step = "lastStep"
      \/ k = 4 /\ step = "recovery"
      \/ k = 5 /\ step = "pending"
  BY <1>2, <1>3 DEF EnableSteps
<1>5. UNCHANGED <<sc, now, chals, opened>>
  BY DEF EnableStep, world
<1>6. /\ b # 0 /\ (k > 1 => secret = b) /\ (k = 5 => Own(recovery))
      /\ torn = 0 => /\ k = 1 => ~ Enabled
                     /\ k > 1 => devices = {}
                     /\ k \in 2..4 => recovery = {}
                     /\ k > 2 => enabled
  <2>1. TurnOK(r)
    BY DEF FactorInv
  <2> QED
    BY <1>1, <1>2, <2>1 DEF TurnOK, At
<1>7. (k = 1 => ~ Between(r) /\ ~ Rewriting(r)) /\ pc[r].at \in FactorStages /\ (k = 5 => ~ Rewriting(r))
  BY <1>1, <1>2 DEF Rewriting, Between, At, FactorStages
<1>8. \/ /\ secret' = IF step = "secret" THEN b ELSE secret
         /\ enabled' = (enabled \/ step = "enabled")
         /\ lastStep' = IF step = "lastStep" THEN 0 ELSE lastStep
         /\ recovery' = IF step = "recovery" THEN Batch(b, made.batches + 1) ELSE recovery
         /\ made' = IF step = "recovery" THEN [made EXCEPT !.batches = made.batches + 1] ELSE made
         /\ pending' = IF step = "pending" THEN 0 ELSE pending
         /\ UNCHANGED <<torn, devices>>
         /\ Goto(r, IF k = 5 THEN Idle ELSE [pc[r] EXCEPT !.k = k + 1])
      \/ step \in {"secret", "recovery"} /\ CutOff(r)
      \/ /\ step \in {"enabled", "lastStep"}
         /\ torn' = IF step = "enabled" THEN torn + 1 ELSE torn
         /\ Goto(r, [pc[r] EXCEPT !.k = k + 1])
         /\ UNCHANGED <<settings, pending, made, devices>>
  <2>1. Len(EnableSteps) = 5
    BY DEF EnableSteps
  <2> QED
    BY <1>1, <1>3, <2>1 DEF EnableStep
<1>9. CASE step \in {"secret", "recovery"} /\ CutOff(r)
  <2>1. PICK rec : Goto(r, rec)
    BY <1>9 DEF CutOff
  <2>2. Alone(r)
    BY <1>7, <2>1, HasTurn DEF FactorInv
  <2>3. torn = 0 /\ Enabled => Own(recovery)
    <3>1. CASE k = 1
      BY <1>7, <2>2, <3>1, TurnFacts
    <3>2. CASE k = 4
      BY <1>6, <3>2 DEF Own
    <3> QED
      BY <1>4, <1>9, <3>1, <3>2
  <2> QED
    BY <1>2, <1>5, <1>9, <2>3, CutStep
<1>10. torn \in Nat /\ made.batches \in Nat /\ enabled \in BOOLEAN
  BY DEF TypeInv, ScalarsOK
<1>11. k # 5 => [pc[r] EXCEPT !.k = k + 1] = [at |-> "enable", client |-> c, bind |-> b, k |-> k + 1]
  BY <1>2
<1>12. CASE /\ step \in {"enabled", "lastStep"}
            /\ torn' = IF step = "enabled" THEN torn + 1 ELSE torn
            /\ Goto(r, [pc[r] EXCEPT !.k = k + 1])
            /\ UNCHANGED <<settings, pending, made, devices>>
  <2>1. k \in {2, 3} /\ secret' = secret /\ recovery' = recovery /\ enabled' = enabled /\ lastStep' = lastStep
        /\ pending' = pending /\ made' = made /\ devices' = devices
    BY <1>4, <1>12 DEF settings
  <2>2. /\ Alone(r) /\ pc'[r] = [at |-> "enable", client |-> c, bind |-> b, k |-> k + 1]
    BY <1>7, <1>11, <1>12, <2>1, HasTurn DEF FactorInv
  <2>3. Between(r)' /\ Rewriting(r)' /\ ~ At(r, "accepted")' /\ pc'[r].at \notin {"code", "spend", "accepted"}
    BY <2>1, <2>2 DEF Between, Rewriting, At
  <2>4. torn' >= torn /\ (torn' = 0 => torn = 0 /\ k = 3)
    BY <1>4, <1>10, <1>12, <2>1
  <2>5. TurnOK(r)'
    BY <1>6, <2>1, <2>2, <2>4 DEF TurnOK, At, Own
  <2>6. Grows
    BY <1>5, <2>1, SkewAssumption, TwoFactorBounds DEF Grows, TypeInv, ScalarsOK, Start
  <2>7. SpentOK' /\ CodeOnce'
    <3>1. /\ (\A x \in recovery' : x \in recovery) /\ DOMAIN chals' \subseteq DOMAIN chals /\ opened' = opened
          /\ pending' \in {0, pending} /\ secret' = secret /\ lastStep' >= lastStep
      BY <1>5, <2>1, SkewAssumption, TwoFactorBounds DEF TypeInv, ScalarsOK, Start
    <3>2. At(r, "enable") /\ pc'[r].bind = pc[r].bind
      BY <1>2, <2>2 DEF At
    <3> QED
      BY <2>2, <2>3, <2>4, <2>6, <3>1, <3>2, SpentStep
  <2> QED
    BY <1>5, <2>2, <2>3, <2>5, <2>7, TurnStep
<1>13. CASE /\ secret' = IF step = "secret" THEN b ELSE secret
            /\ enabled' = (enabled \/ step = "enabled")
            /\ lastStep' = IF step = "lastStep" THEN 0 ELSE lastStep
            /\ recovery' = IF step = "recovery" THEN Batch(b, made.batches + 1) ELSE recovery
            /\ made' = IF step = "recovery" THEN [made EXCEPT !.batches = made.batches + 1] ELSE made
            /\ pending' = IF step = "pending" THEN 0 ELSE pending
            /\ UNCHANGED <<torn, devices>>
            /\ Goto(r, IF k = 5 THEN Idle ELSE [pc[r] EXCEPT !.k = k + 1])
  <2>1. PICK rec : /\ rec = IF k = 5 THEN Idle
                            ELSE [at |-> "enable", client |-> c, bind |-> b, k |-> k + 1]
                   /\ Goto(r, rec)
    BY <1>11, <1>13
  <2>2. Alone(r) /\ pc'[r] = rec
    BY <1>7, <2>1, HasTurn DEF FactorInv
  <2>3. /\ k # 5 => pc'[r] = [at |-> "enable", client |-> c, bind |-> b, k |-> k + 1]
        /\ k = 5 => pc'[r].at = "idle"
    BY <2>1, <2>2 DEF Idle
  <2>4. secret' = b /\ torn' = torn /\ devices' = devices /\ pending' \in {0, pending}
    BY <1>2, <1>4, <1>6, <1>13
  <2>5. /\ k = 4 => \A x \in recovery' : x.bind = b /\ x.batch > made.batches
        /\ k # 4 => recovery' = recovery /\ made' = made
    BY <1>4, <1>10, <1>13 DEF Batch
  <2>6. Grows
    <3>1. CASE k = 4
      <4>1. made' = [bindings |-> made.bindings, batches |-> made.batches + 1, chals |-> made.chals]
        BY <1>4, <1>13, <3>1 DEF TypeInv, ScalarsOK
      <4> QED
        BY <1>5, <4>1, SkewAssumption, TwoFactorBounds DEF Grows, TypeInv, ScalarsOK, Start
    <3>2. CASE k # 4
      BY <1>5, <2>5, <3>2, SkewAssumption, TwoFactorBounds DEF Grows, TypeInv, ScalarsOK, Start
    <3> QED
      BY <3>1, <3>2
  <2>7. /\ ~ At(r, "accepted")' /\ pc'[r].at \notin {"code", "spend", "accepted"}
        /\ At(r, "enable")' => pc'[r].bind = b
    BY <2>3 DEF At
  <2>8. SpentOK' /\ CodeOnce'
    <3>1. /\ \A x \in recovery' : x \in recovery \/ x.batch > made.batches
          /\ DOMAIN chals' \subseteq DOMAIN chals /\ opened' = opened /\ torn' >= torn
      BY <1>5, <1>10, <2>4, <2>5
    <3>2. At(r, "enable") /\ secret' = pc[r].bind /\ pc[r].bind = b
      BY <1>2, <2>4 DEF At
    <3> QED
      BY <2>2, <2>4, <2>6, <2>7, <3>1, <3>2, SpentStep
  <2>9. /\ torn = 0 /\ k > 1 => devices' = {}
        /\ torn = 0 /\ k = 1 => devices' = {} /\ recovery' = {}
    <3>1. torn = 0 /\ k = 1 => Whole /\ ~ Enabled
      BY <1>6, <1>7, <2>2, TurnFacts
    <3> QED
      BY <1>6, <2>4, <2>5, <3>1 DEF Whole
  <2>10. /\ torn = 0 /\ k \in 1..3 => recovery' = {}
         /\ torn = 0 /\ k > 1 => enabled'
         /\ k \in {4, 5} => Own(recovery)'
    <3>1. torn = 0 /\ k > 1 => enabled'
      <4>1. (enabled \/ step = "enabled") => enabled'
        BY <1>13
      <4>2. torn = 0 /\ k > 1 => enabled \/ step = "enabled"
        <5>1. k = 2 => step = "enabled"
          BY <1>4
        <5>2. torn = 0 /\ k > 2 => enabled
          BY <1>6
        <5> QED
          BY <1>2, <5>1, <5>2
      <4> QED
        BY <4>1, <4>2
    <3>2. torn = 0 /\ k \in 1..3 => recovery' = {}
      BY <1>6, <2>5, <2>9
    <3>3. k \in {4, 5} => Own(recovery)'
      BY <1>6, <2>4, <2>5 DEF Own
    <3> QED
      BY <3>1, <3>2, <3>3
  <2>11. TurnOK(r)'
    <3>1. CASE k = 5
      BY <2>3, <3>1, NothingToSay
    <3>2. CASE k # 5
      <4>1. pc'[r] = [at |-> "enable", client |-> c, bind |-> b, k |-> k + 1] /\ k \in 1..4
        BY <1>2, <2>3, <3>2
      <4>2. /\ k + 1 # 1 /\ (k + 1 = 5 => k = 4) /\ (k + 1 \in 2..4 => k \in 1..3) /\ (k + 1 > 2 => k > 1)
        BY <4>1
      <4>3. torn' = 0 => devices' = {}
        BY <2>4, <2>9, <4>1
      <4> QED
        BY <1>6, <2>4, <2>10, <4>1, <4>2, <4>3 DEF TurnOK, At
    <3> QED
      BY <3>1, <3>2
  <2>12. torn' = 0 /\ ~ Between(r)' => Whole'
    <3>1. ~ Between(r)' => k = 5
      BY <1>2, <2>3 DEF Between
    <3>2. k = 5 => pending' = 0
      BY <1>4, <1>13
    <3> QED
      BY <1>6, <2>4, <2>9, <2>10, <3>1, <3>2 DEF Whole, Enabled
  <2>13. torn' <= 1 /\ ~ Rewriting(r)' /\ Enabled' => Own(recovery)'
    <3>1. ~ Rewriting(r)' => k \in {4, 5}
      BY <1>2, <2>3 DEF Rewriting, At
    <3> QED
      BY <2>10, <3>1
  <2> QED
    BY <1>5, <2>2, <2>8, <2>11, <2>12, <2>13, TurnStep
<1> QED
  BY <1>8, <1>9, <1>12, <1>13

\* A request goes aside, or stays there.
LEMMA OneAside ==
  ASSUME TypeInv, NEW r \in Threads, NEW rec, Goto(r, rec), rec.at \notin FactorStages,
         pc[r].at \notin {"enable", "clear"}
  PROVE  \A q \in Threads : \/ pc'[q] = pc[q]
                            \/ pc'[q].at \notin FactorStages /\ pc[q].at \notin {"enable", "clear"}
  BY GotoFacts DEF TypeInv

LEMMA IdleAside == Idle.at \notin FactorStages
  BY DEF Idle, FactorStages

LEMMA BeginFactor ==
  ASSUME TypeInv, TypeInv', FactorInv, NEW r \in Threads, NEW c, NEW what, NEW account,
         Begin(r, c, what, account)
  PROVE  FactorInv'
<1>1. PICK rec : Goto(r, rec) /\ rec.at = "password"
  BY DEF Begin
<1>2. rec.at \notin FactorStages /\ pc[r].at \notin {"enable", "clear"}
  BY <1>1 DEF FactorStages, Begin, At
<1>3. UNCHANGED <<world, settings, devices, pending, chals, made, opened, torn>>
  BY DEF Begin
<1>4. Grows
  BY <1>3, SkewAssumption, TwoFactorBounds DEF Grows, world, TypeInv, ScalarsOK, Start
<1>5. /\ UNCHANGED <<sc, secret, enabled, lastStep, recovery, opened, torn>>
      /\ devices' = devices /\ chals' = chals /\ pending' = pending
  BY <1>3 DEF world, settings
<1> QED
  BY <1>1, <1>2, <1>4, <1>5, OneAside, AsideStep

\* The requests that end, and the logins that go on to the second factor.
LEMMA AsideFactor ==
  ASSUME TypeInv, TypeInv', FactorInv, NEW r \in Threads,
         \/ PasswordWrong(r) \/ LoginPassword(r) \/ LoginDevice(r) \/ LoginChallenge(r)
         \/ AnswerFailed(r) \/ ForgetDevices(r)
  PROVE  FactorInv'
<1>1. PICK rec : Goto(r, rec) /\ (rec = Idle \/ rec.at = "factor")
  BY DEF PasswordWrong, LoginPassword, LoginDevice, LoginChallenge, AnswerFailed, ForgetDevices
<1>2. rec.at \notin FactorStages
  BY <1>1, IdleAside DEF FactorStages
<1>3. pc[r].at \notin {"enable", "clear"}
  BY DEF PasswordWrong, LoginPassword, LoginDevice, LoginChallenge, AnswerFailed, ForgetDevices,
     PasswordRight, At
<1>4. UNCHANGED <<sc, now, secret, enabled, lastStep, recovery, pending, opened, torn>>
  BY DEF PasswordWrong, LoginPassword, LoginDevice, LoginChallenge, AnswerFailed, ForgetDevices,
     world, settings
<1>5. devices' \subseteq devices
  BY DEF PasswordWrong, LoginPassword, LoginDevice, LoginChallenge, AnswerFailed, ForgetDevices
<1>6. \/ made' = made
      \/ made' = [made EXCEPT !.chals = made.chals + 1]
  BY DEF PasswordWrong, LoginPassword, LoginDevice, LoginChallenge, AnswerFailed, ForgetDevices
<1>7. Grows
  <2>1. made = [bindings |-> made.bindings, batches |-> made.batches, chals |-> made.chals]
    BY DEF TypeInv, ScalarsOK
  <2> QED
    BY <1>4, <1>6, <2>1, SkewAssumption, TwoFactorBounds DEF Grows, TypeInv, ScalarsOK, Start
<1>8. DOMAIN chals' \subseteq DOMAIN chals \union {made.chals + 1}
  <2>1. CASE AnswerFailed(r)
    BY <2>1 DEF AnswerFailed
  <2>2. CASE LoginChallenge(r)
    BY <2>2 DEF LoginChallenge
  <2>3. CASE PasswordWrong(r) \/ LoginPassword(r) \/ LoginDevice(r) \/ ForgetDevices(r)
    <3>1. chals' = chals
      BY <2>3 DEF PasswordWrong, LoginPassword, LoginDevice, ForgetDevices
    <3> QED
      BY <3>1
  <2> QED
    BY <2>1, <2>2, <2>3
<1> QED
  BY <1>1, <1>2, <1>3, <1>4, <1>5, <1>7, <1>8, OneAside, AsideStep

LEMMA SetupPasswordFactor ==
  ASSUME TypeInv, TypeInv', FactorInv, NEW r \in Threads, SetupPassword(r)
  PROVE  FactorInv'
<1>1. Goto(r, Idle) /\ UNCHANGED <<sc, now, secret, enabled, lastStep, recovery, devices, chals, opened, torn>>
  BY DEF SetupPassword, world, settings
<1>2. pc[r].at \notin {"enable", "clear"}
  BY DEF SetupPassword, PasswordRight, At
<1>3. /\ made' = made \/ made' = [made EXCEPT !.bindings = made.bindings + 1]
      /\ pending' = pending \/ (~ Enabled /\ pending' = made.bindings + 1)
  BY DEF SetupPassword
<1>4. Grows /\ made.bindings + 1 > made.bindings
  <2>1. made = [bindings |-> made.bindings, batches |-> made.batches, chals |-> made.chals]
    BY DEF TypeInv, ScalarsOK
  <2> QED
    BY <1>1, <1>3, <2>1, SkewAssumption, TwoFactorBounds DEF Grows, TypeInv, ScalarsOK, Start
<1>5. devices' \subseteq devices /\ DOMAIN chals' \subseteq DOMAIN chals \union {made.chals + 1}
  BY <1>1
<1>6. pending' \in {0, pending} \/ (~ Enabled /\ pending' > made.bindings)
  BY <1>3, <1>4
<1> QED
  BY <1>1, <1>2, <1>4, <1>5, <1>6, IdleAside, OneAside, AsideStep

\* What is not a step of a request, but for the restart.
LEMMA RestFactor ==
  ASSUME TypeInv, TypeInv', FactorInv,
         \/ \E c, id : id \in DOMAIN chals /\ AnswerForeign(c, id)
         \/ GuardCleanup \/ Expire \/ Tick \/ UNCHANGED vars
  PROVE  FactorInv'
<1>1. UNCHANGED <<sc, pc, secret, enabled, lastStep, recovery, made, opened, torn>>
  BY DEF AnswerForeign, GuardCleanup, Expire, Tick, vars, world, settings
<1>2. now' = now \/ now' = now + 1
  BY DEF AnswerForeign, GuardCleanup, Expire, Tick, vars, world
<1>3. Grows
  BY <1>1, <1>2, SkewAssumption, TwoFactorBounds DEF Grows, TypeInv, ScalarsOK, Start
<1>4. devices' \subseteq devices /\ pending' \in {0, pending}
  BY DEF AnswerForeign, GuardCleanup, Expire, Tick, vars
<1>5. DOMAIN chals' \subseteq DOMAIN chals
  <2>1. CASE \E c, id : id \in DOMAIN chals /\ AnswerForeign(c, id)
    BY <2>1 DEF AnswerForeign
  <2>2. CASE Expire
    BY <2>2 DEF Expire
  <2>3. CASE GuardCleanup \/ Tick \/ UNCHANGED vars
    <3>1. chals' = chals
      BY <2>3 DEF GuardCleanup, Tick, vars
    <3> QED
      BY <3>1
  <2> QED
    BY <2>1, <2>2, <2>3
<1> QED
  BY <1>1, <1>3, <1>4, <1>5, AsideStep

\* The panel dies: a request that was enabling or clearing is left incomplete.
LEMMA RestartFactor ==
  ASSUME TypeInv, TypeInv', FactorInv, Restart
  PROVE  FactorInv'
<1>1. /\ pending' = 0 /\ chals' = << >> /\ UNCHANGED <<sc, made, opened>>
      /\ \A q \in Threads : pc'[q].at = "idle"
      /\ torn' = IF \E r \in Threads : pc[r].at \in {"clear", "enable"} THEN torn + 1 ELSE torn
  BY DEF Restart, world, Idle
<1>2. \/ UNCHANGED <<secret, enabled, lastStep, recovery, devices>>
      \/ secret' = 0 /\ recovery' = {} /\ devices' = {}
  BY DEF Restart, settings
<1>3. torn \in Nat /\ torn' >= torn
  BY SMTT(20), <1>1 DEF TypeInv, ScalarsOK
<1>4. \A q \in Threads : ~ Between(q)' /\ ~ Rewriting(q)' /\ TurnOK(q)'
  BY <1>1 DEF Between, Rewriting, TurnOK, At
<1>5. Turns'
  BY <1>1 DEF FactorInv, Turns, FactorStages
<1>6. torn' = 0 => Whole'
  <2>1. torn' = 0 => torn = 0 /\ \A q \in Threads : ~ Between(q)
    BY <1>1, <1>3 DEF Between
  <2>2. torn' = 0 => Whole
    BY <2>1 DEF FactorInv, WholeOK
  <2> QED
    BY <1>1, <1>2, <2>2 DEF Whole, Enabled, Own
<1>7. torn' <= 1 /\ Enabled' => Own(recovery)'
  <2>1. SUFFICES ASSUME torn' <= 1, Enabled' PROVE Own(recovery)'
    OBVIOUS
  <2>2. UNCHANGED <<secret, enabled, lastStep, recovery, devices>> /\ Enabled
    BY <1>2, <2>1 DEF Enabled
  <2>3. Own(recovery)
    <3>1. CASE \E r \in Threads : pc[r].at \in {"clear", "enable"}
      <4>1. PICK r \in Threads : pc[r].at \in {"clear", "enable"}
        BY <3>1
      <4>2. torn = 0 /\ \A q \in Threads : q # r => pc[q].at \notin FactorStages
        BY <1>1, <1>3, <2>1, <4>1 DEF FactorInv, Turns, FactorStages
      <4>3. TurnOK(r)
        BY DEF FactorInv
      <4>4. CASE ~ Between(r)
        <5>1. \A q \in Threads : ~ Between(q)
          BY <4>2, <4>4 DEF Between, FactorStages
        <5> QED
          BY <2>2, <4>2, <5>1 DEF FactorInv, WholeOK, Whole
      <4>5. CASE Between(r) /\ At(r, "clear")
        BY <2>2, <4>3, <4>5 DEF Between, TurnOK, Enabled, At
      <4>6. CASE Between(r) /\ At(r, "enable")
        <5>1. pc[r].k = 5 => Own(recovery)
          BY <4>3, <4>6 DEF TurnOK, At
        <5>2. pc[r].k \in 2..4 => recovery = {}
          BY <4>2, <4>3, <4>6 DEF TurnOK, At
        <5>3. pc[r].k \in 2..5
          <6>1. pc[r].k \in 1..5 /\ pc[r].k > 1
            BY <4>6 DEF Between, TypeInv, RequestOK, At, EnableSteps
          <6> QED
            BY <6>1
        <5> QED
          BY <5>1, <5>2, <5>3 DEF Own
      <4> QED
        BY <4>1, <4>4, <4>5, <4>6 DEF Between, At
    <3>2. CASE \A r \in Threads : pc[r].at \notin {"clear", "enable"}
      BY <1>1, <2>1, <2>2, <3>2 DEF FactorInv, TornOnceOK, Rewriting, At
    <3> QED
      BY <3>1, <3>2
  <2> QED
    BY <2>2, <2>3 DEF Own
<1>8. WholeOK' /\ TornOnceOK'
  BY <1>6, <1>7 DEF WholeOK, TornOnceOK
<1>9. SpentOK'
  <2>1. Grows
    <3>1. made' = made /\ now' = now
      BY DEF Restart, world
    <3> QED
      BY <3>1, SkewAssumption, TwoFactorBounds DEF Grows, TypeInv, ScalarsOK, Start
  <2>2. ASSUME NEW c \in CodeSet, CodeOK(c), Spent(c) PROVE CodeOK(c)' /\ Spent(c)'
    <3>1. CodeOK(c)'
      BY <2>1, <2>2, OthersKept DEF TypeInv
    <3>2. c.kind = "recovery" => c \notin recovery'
      BY <1>2, <2>2 DEF Spent
    <3>3. torn' = 0 => torn = 0
      BY SMTT(20), <1>3, <1>1 DEF TypeInv, ScalarsOK
    <3>4. c.kind = "totp" /\ torn' = 0 => /\ c.bind # 0 /\ c.bind # pending'
                                          /\ c.bind = secret' => c.n <= lastStep'
      BY <1>1, <1>2, <2>2, <3>3 DEF Spent
    <3> QED
      BY <1>1, <3>1, <3>2, <3>4 DEF Spent, At
  <2>3. ASSUME NEW id, Answered(id) PROVE Answered(id)'
    BY <1>1, <2>3 DEF Answered
  <2> QED
    BY <1>1, <2>2, <2>3, SpentCarried DEF FactorInv
<1>10. CodeOnce'
  BY <1>1, <1>3, OnceKept DEF FactorInv
<1> QED
  BY <1>4, <1>5, <1>8, <1>9, <1>10 DEF FactorInv

LEMMA InitFactor ==
  ASSUME Init, "overlap" \notin sc.env
  PROVE  FactorInv
<1>1. pending = 0 /\ devices = {} /\ opened = << >> /\ torn = 0 /\ \A r \in Threads : pc[r].at = "idle"
  BY DEF Init, Idle
<1>2. /\ secret = (IF sc.bound THEN 1 ELSE 0) /\ enabled = sc.bound
      /\ recovery = (IF sc.bound THEN Batch(1, 1) ELSE {})
  BY DEF Init
<1>3. Whole
  BY <1>1, <1>2 DEF Whole, Enabled, Own, Batch
<1>4. Turns /\ \A r \in Threads : TurnOK(r)
  BY <1>1 DEF Turns, FactorStages, TurnOK, At
<1>5. WholeOK /\ TornOnceOK
  BY <1>3 DEF WholeOK, TornOnceOK, Whole
<1>6. SpentOK /\ CodeOnce
  <2>1. Len(opened) = 0
    BY <1>1
  <2> QED
    BY <2>1 DEF SpentOK, CodeOnce
<1> QED
  BY <1>4, <1>5, <1>6 DEF FactorInv

LEMMA MovesFactor ==
  ASSUME TypeInv, TypeInv', FactorInv, NEW r \in Threads, Moves(r)
  PROVE  FactorInv'
<1>1. CASE \E what : \E c \in Clients, account \in {Account, NoAccount} : Begin(r, c, what, account)
  BY <1>1, BeginFactor
<1>2. CASE \/ PasswordWrong(r) \/ LoginPassword(r) \/ LoginDevice(r) \/ LoginChallenge(r)
           \/ AnswerFailed(r) \/ ForgetDevices(r)
  BY <1>2, AsideFactor
<1>3. CASE SetupPassword(r)
  BY <1>3, SetupPasswordFactor
<1>4. CASE \E what \in {"disable", "recovery", "change"} : ManagePassword(r, what)
  BY <1>4, ManagePasswordFactor
<1>5. CASE \E remember : \E id \in DOMAIN chals, code \in Typed : Answer(r, id, code, remember)
  BY <1>5, AnswerFactor
<1>6. CASE CheckCode(r) \/ SpendCode(r) \/ AnswerAccepted(r) \/ RememberDevice(r)
  BY <1>6, CheckCodeFactor, SpendCodeFactor, AnswerAcceptedFactor, RememberDeviceFactor
<1>7. CASE \E code \in Typed : ManageCode(r, code)
  BY <1>7, ManageCodeFactor
<1>8. CASE ManageConsume(r) \/ ClearStep(r) \/ RegenCodes(r) \/ EnableStep(r)
  BY <1>8, ManageConsumeFactor, ClearStepFactor, RegenCodesFactor, EnableStepFactor
<1>9. CASE \E c \in Clients, code \in Typed : EnableCheck(r, c, code)
  BY <1>9, EnableCheckFactor
<1> QED
  BY <1>1, <1>2, <1>3, <1>4, <1>5, <1>6, <1>7, <1>8, <1>9 DEF Moves

LEMMA NextFactor == TypeInv /\ FactorInv /\ [Next]_vars => FactorInv'
<1> SUFFICES ASSUME TypeInv, FactorInv, [Next]_vars PROVE FactorInv'
  OBVIOUS
<1>1. TypeInv'
  BY NextTyped
<1>2. CASE \/ \E c, id : id \in DOMAIN chals /\ AnswerForeign(c, id)
           \/ GuardCleanup \/ Expire \/ Tick \/ UNCHANGED vars
  BY <1>1, <1>2, RestFactor
<1>3. CASE \E r \in Threads : Moves(r)
  BY <1>1, <1>3, MovesFactor
<1>4. CASE Restart
  BY <1>1, <1>4, RestartFactor
<1> QED
  BY <1>2, <1>3, <1>4, NextMoves

LEMMA FactorInvHolds ==
  ASSUME \A s \in Scenarios : "overlap" \notin s.env
  PROVE  Spec => [](TypeInv /\ FactorInv)
<1>1. Init => FactorInv
  BY InitFactor DEF Init
<1> QED
  BY <1>1, InitTyped, NextTyped, NextFactor, PTL DEF Spec

\* twofa.go, handleLogin2FA and the management handlers: while the requests that check codes or
\* change the second factor take turns, a challenge and a recovery code open one session at
\* most, whatever writes fail and whenever the panel dies; a code of the authenticator does
\* while no enable or disable has been left incomplete.
THEOREM CodeOnceHolds ==
  ASSUME \A s \in Scenarios : "overlap" \notin s.env
  PROVE  Spec => []CodeOnce
<1>1. FactorInv => CodeOnce
  BY DEF FactorInv
<1> QED
  BY <1>1, FactorInvHolds, PTL

\* Under the same condition: the recovery codes and the devices that stand in for the second
\* factor are those of the binding in force (clearTOTP, handle2FAEnable, handle2FARecovery,
\* issueDeviceToken).
THEOREM OwnBindingHolds ==
  ASSUME \A s \in Scenarios : "overlap" \notin s.env
  PROVE  Spec => []OwnBinding
<1>1. TypeInv /\ FactorInv => OwnBinding
  <2> SUFFICES ASSUME TypeInv, FactorInv, Enabled, Quiet
               PROVE  /\ torn <= 1 => \A c \in recovery : c.bind = secret
                      /\ torn = 0 => \A d \in devices : d.bind = secret
    BY DEF OwnBinding
  <2>1. \A r \in Threads : ~ Between(r) /\ ~ Rewriting(r)
    BY DEF Quiet, Between, Rewriting, At
  <2> QED
    BY <2>1 DEF FactorInv, WholeOK, TornOnceOK, Whole, Own
<1> QED
  BY <1>1, FactorInvHolds, PTL
=============================================================================

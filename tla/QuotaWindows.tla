---------------------------- MODULE QuotaWindows ----------------------------
(***************************************************************************)
(* Traffic quotas of one node (internal/controller/controller.go,          *)
(* sampler.go, internal/gostmgr/quota.go, internal/store/store.go).        *)
(*                                                                         *)
(* On a gost node gost itself counts and refuses traffic beyond the limit. *)
(* It keeps the count in memory and flushes it to quota.json.  The panel   *)
(* moves the quota to the window of the present day or month, and when     *)
(* gost has counted less than the panel has recorded since the window      *)
(* opened it gives gost the panel's sum (Reconcile, once a minute).        *)
(* On a reality node the panel decides in every sampling pass and stops or *)
(* starts the node's sing-box process.                                     *)
(*                                                                         *)
(* How a sampling pass finds the increments is the matter of               *)
(* TrafficAccounting: here `pend` is what the engine has counted since the *)
(* last pass, and a pass records it.  What UpdateQuota and ResetQuota do   *)
(* inside gost is external; client.go says that a changed window resets    *)
(* the count.                                                              *)
(***************************************************************************)
EXTENDS Integers

CONSTANTS
    HourLen, DayLen, MonthLen,  \* in clock ticks
    MaxNow,                     \* last instant of any scenario
    Retention,                  \* ticks of hourly points that prune keeps
    Absent,
    QuotaScenarios

QuotaEvents ==
    { "reset",     \* the admin resets the node's traffic
      "edit",      \* the admin saves the node with other quota parameters
      "crash",     \* gost dies without a last flush, and is started again
      "fail",      \* a call of the gost API, or an Apply of the pool, fails
      "findFail",  \* Reconcile's second listing fails after its update succeeded
      "prune",     \* the daily deletion of old points
      "overlap" }  \* a Reconcile and an admin request may overlap

Directions == {"in", "out", "total"}
Quota == [period : {"daily", "monthly", "total"}, dir : Directions, limit : Nat]

\* kind: what carries the node; quotas: the parameters it may be saved with; flows: the
\* directions bytes are carried in; and bounds: the bytes carried, the number of events, the
\* last instant.
QuotaScenario == [kind : {"gost", "reality"}, env : SUBSET QuotaEvents, quotas : SUBSET Quota,
             flows : SUBSET {"in", "out"}, bytes : Nat, events : Nat, until : 0..MaxNow]

ASSUME QuotaScenariosAssumption == \A s \in QuotaScenarios : s \in QuotaScenario /\ s.quotas # {}
ASSUME TimesAssumption ==
    /\ {HourLen, DayLen} \subseteq Nat \ {0} /\ {MonthLen, MaxNow, Retention} \subseteq Nat
    /\ DayLen % HourLen = 0 /\ MonthLen % DayLen = 0 /\ MonthLen > DayLen
    /\ Retention >= MonthLen

VARIABLES
    qsc,         \* the scenario, never changed
    events,     \* admin requests and faults so far
    now,        \* the clock
    row,        \* the node in the database: its quota and QuotaSince
    points,     \* the hourly traffic points, by the hour's start
    total,      \* TotalIn and TotalOut
    pend,       \* counted by the engine, not yet sampled
    up,         \* gost runs
    q,          \* the quota in gost, or Absent
    file,       \* quota.json: the window and the count last flushed, or Absent
    conf,       \* gost.yml: the quota as of the last SyncConfigFile
    run,        \* the sing-box process of a reality node runs
    paused,     \* QuotaBlocked of a reality node, and when the sampler decided it
    rec,        \* the Reconcile under way
    adm,        \* the request handler under way
    carried,    \* ghost: bytes by the hour they were carried in
    late,       \* ghost: what was unsampled when an hour began
    mark        \* ghost: bytes charged so far when the last reset succeeded, or Absent

quotaVars == <<qsc, events, now, row, points, total, pend, up, q, file, conf, run, paused, rec, adm,
          carried, late, mark>>

records == <<points, total>>
gost == <<up, q, file>>
truth == <<carried, late, mark>>

-----------------------------------------------------------------------------
(* Time, points and windows.                                               *)

None == [in |-> 0, out |-> 0]
Plus(a, b) == [in |-> a.in + b.in, out |-> a.out + b.out]
Charge(dir, p) ==
    CASE dir = "in" -> p.in [] dir = "out" -> p.out [] dir = "total" -> p.in + p.out

Floor(t, len) == t - (t % len)
LocalHourStart(t) == Floor(t, HourLen)
Hours == {h \in 0..MaxNow : h % HourLen = 0}

AddTraffic(p) == points' = [points EXCEPT ![LocalHourStart(now)] = Plus(@, p)]

\* The bytes in direction dir of the points from `from` to now, `from` aligned to its hour.
RangeTraffic(table, dir, from) ==
    LET since[h \in Int] == IF h < LocalHourStart(from) THEN 0
                            ELSE Charge(dir, table[h]) + since[h - HourLen]
    IN since[LocalHourStart(now)]

\* Mutant: the window is the day or month up to now, not the calendar's.
QuotaWindowRolling(period, t) ==
    LET len == IF period = "daily" THEN DayLen ELSE MonthLen
    IN IF period = "total" THEN [from |-> 0, to |-> 0] ELSE [from |-> t - len, to |-> t]

\* A window is [from, to); a total quota has the empty one.
QuotaWindow(period, t) ==
    CASE period = "daily"   -> [from |-> Floor(t, DayLen), to |-> Floor(t, DayLen) + DayLen]
      [] period = "monthly" -> [from |-> Floor(t, MonthLen), to |-> Floor(t, MonthLen) + MonthLen]
      [] period = "total"   -> [from |-> 0, to |-> 0]

Windows == [from : Nat, to : Nat]

-----------------------------------------------------------------------------
(* A quota in gost.                                                        *)

\* What BuildConfig and Reconcile ask for.
WantQuota(c) == [quota |-> c, win |-> QuotaWindow(c.period, now)]

\* CreateQuota or UpdateQuota: the count survives unless the window changes.
Upserted(want) ==
    [quota |-> want.quota, win |-> want.win,
     used |-> IF q # Absent /\ q.win = want.win THEN q.used ELSE 0]

Expired(g) == g.win.to # 0 /\ now >= g.win.to

\* A node over its quota stays closed until the panel moves the window (DEVELOPMENT.md).
Exceeded(g) == g.used >= g.quota.limit

Open ==
    IF qsc.kind = "gost" THEN up /\ ~(q # Absent /\ Exceeded(q))
    ELSE run

RecIdle == [pc |-> "idle", row |-> Absent, cur |-> Absent, used |-> 0]
AdmIdle == [pc |-> "idle", old |-> Absent]

QuotaInit ==
    /\ qsc \in QuotaScenarios
    /\ events = 0 /\ now = 0
    /\ row \in [quota : qsc.quotas, since : {0}]
    /\ points = [h \in Hours |-> None]
    /\ total = None
    /\ pend = None
    /\ up = TRUE
    /\ conf = IF qsc.kind = "gost" THEN WantQuota(row.quota) ELSE Absent
    /\ q = IF qsc.kind = "gost"
           THEN [quota |-> row.quota, win |-> QuotaWindow(row.quota.period, now), used |-> 0]
           ELSE Absent
    /\ file = Absent
    /\ run = (qsc.kind = "reality")
    /\ paused = Absent
    /\ rec = RecIdle
    /\ adm = AdmIdle
    /\ carried = [h \in Hours |-> None]
    /\ late = [h \in Hours |-> None]
    /\ mark = Absent

Carried(dir) == RangeTraffic(carried, dir, 0)

\* An admin request or a fault may happen; Spend counts it.
May(e) == e \in qsc.env /\ events < qsc.events
Spend == events' = events + 1

-----------------------------------------------------------------------------
(* The clock, the traffic, and gost.                                       *)

Tick ==
    /\ now < qsc.until
    /\ now' = now + 1
    /\ late' = IF now + 1 \in Hours THEN [late EXCEPT ![now + 1] = pend] ELSE late
    /\ UNCHANGED <<qsc, events, row, records, pend, gost, conf, run, paused, rec, adm, carried, mark>>

\* A byte is carried in direction d.  gost may count or ignore what it carries after its
\* window has expired.
Carry(d) ==
    /\ Open /\ Carried("total") < qsc.bytes
    /\ pend' = [pend EXCEPT ![d] = @ + 1]
    /\ carried' = [carried EXCEPT ![LocalHourStart(now)][d] = @ + 1]
    /\ IF q # Absent /\ q.quota.dir \in {d, "total"}
       THEN \E counts \in {1} \cup (IF Expired(q) THEN {0} ELSE {}) :
                q' = [q EXCEPT !.used = @ + counts]
       ELSE q' = q
    /\ UNCHANGED <<qsc, events, now, row, records, up, file, conf, run, paused, rec, adm, late, mark>>

\* Every 5 s gost flushes its counts.
Flush ==
    /\ up /\ q # Absent
    /\ file' = [win |-> q.win, used |-> q.used]
    /\ UNCHANGED <<qsc, events, now, row, records, pend, up, q, conf, run, paused, rec, adm, truth>>

GostCrash ==
    /\ qsc.kind = "gost" /\ up /\ May("crash") /\ Spend
    /\ up' = FALSE /\ q' = Absent /\ pend' = None
    /\ UNCHANGED <<qsc, now, row, records, file, conf, run, paused, rec, adm, truth>>

\* gost reads gost.yml, whose window is that of the last SyncConfigFile, and quota.json.
GostStart ==
    /\ ~up
    /\ up' = TRUE
    /\ q' = [quota |-> conf.quota, win |-> conf.win,
             used |-> IF file # Absent /\ file.win = conf.win THEN file.used ELSE 0]
    /\ UNCHANGED <<qsc, events, now, row, records, pend, file, conf, run, paused, rec, adm, truth>>

-----------------------------------------------------------------------------
(* The sampler.                                                            *)

Record ==
    /\ AddTraffic(pend)
    /\ total' = Plus(total, pend)
    /\ pend' = None

SampleGost ==
    /\ qsc.kind = "gost" /\ up /\ pend # None
    /\ Record
    /\ UNCHANGED <<qsc, events, now, row, gost, conf, run, paused, rec, adm, truth>>

\* sampleReality's own reckoning: points of the present day or month, the totals
\* otherwise.  Any direction but "in" charges both.
RealityDir(dir) == IF dir = "in" THEN "in" ELSE "total"

RealityUsed ==
    LET dir == RealityDir(row.quota.dir)
    IN IF row.quota.period = "total" THEN Charge(dir, total')
       ELSE RangeTraffic(points', dir, QuotaWindow(row.quota.period, now).from)

\* One pass over a reality node.  Pausing and reviving the process may fail; the pass
\* notes its verdict all the same.
SampleReality ==
    /\ qsc.kind = "reality"
    /\ Record
    /\ LET used == RealityUsed
           blocked == used >= row.quota.limit
       IN /\ paused' = [by |-> row.quota, at |-> now, blocked |-> blocked, used |-> used]
          /\ \/ run' = ~blocked /\ UNCHANGED events
             \/ run # ~blocked /\ May("fail") /\ Spend /\ UNCHANGED run
    /\ UNCHANGED <<qsc, now, row, gost, conf, rec, adm, truth>>

\* prune, once a day.
Prune ==
    /\ May("prune") /\ Spend
    /\ points' = [h \in Hours |-> IF h < LocalHourStart(now - Retention) THEN None ELSE points[h]]
    /\ UNCHANGED <<qsc, now, row, total, pend, gost, conf, run, paused, rec, adm, truth>>

-----------------------------------------------------------------------------
(* Reconcile.                                                              *)

\* Mutant: a window that has passed is not noticed.
RecAsksParameters(r, cur) == cur = Absent \/ cur.quota # r.quota

\* What a Reconcile that works on node r, for which gost listed quota cur, wants; whether
\* gost has something else.
RecWant(r) == WantQuota(r.quota)
RecAsks(r, cur) == cur = Absent \/ cur.quota # RecWant(r).quota \/ cur.win # RecWant(r).win

\* Quotas() and Nodes(): the list gost answered, and the node as the cache has it.
RecList ==
    /\ qsc.kind = "gost" /\ rec.pc = "idle" /\ up
    /\ adm.pc = "idle" \/ "overlap" \in qsc.env
    /\ rec' = [rec EXCEPT !.pc = IF RecAsks(row, q) THEN "update" ELSE "sum", !.row = row, !.cur = q]
    /\ UNCHANGED <<qsc, events, now, row, records, pend, gost, conf, run, paused, adm, truth>>

RecUpdate ==
    /\ rec.pc = "update" /\ up
    /\ q' = Upserted(RecWant(rec.row))
    /\ rec' = [rec EXCEPT !.pc = "find"]
    /\ UNCHANGED <<qsc, events, now, row, records, pend, up, file, conf, run, paused, adm, truth>>

\* findQuota after the update; when it fails Reconcile goes on with the quota it listed.
RecFind ==
    /\ rec.pc = "find"
    /\ \/ /\ up
          /\ rec' = [rec EXCEPT !.pc = "sum", !.cur = q]
          /\ UNCHANGED events
       \/ /\ May("findFail") /\ Spend
          /\ rec' = [rec EXCEPT !.pc = "sum"]
    /\ UNCHANGED <<qsc, now, row, records, pend, gost, conf, run, paused, adm, truth>>

\* Mutant: the window's start is forgotten.
WindowUsedSince == RangeTraffic(points, rec.row.quota.dir, rec.row.since)

\* WindowUsed: the panel's points since the later of the window's start and QuotaSince.
WindowUsed ==
    LET from == IF rec.row.since > rec.cur.win.from THEN rec.row.since ELSE rec.cur.win.from
    IN RangeTraffic(points, rec.row.quota.dir, from)

\* Mutant: the counts are compared the wrong way round.
RecSumSwapped ==
    /\ rec.pc = "sum"
    /\ rec' = IF rec.cur = Absent \/ rec.cur.used <= WindowUsed THEN RecIdle
              ELSE [rec EXCEPT !.pc = "reset", !.used = WindowUsed]
    /\ UNCHANGED <<qsc, events, now, row, records, pend, gost, conf, run, paused, adm, truth>>

\* restoreQuotaUsage up to its ResetQuota.
RecSum ==
    /\ rec.pc = "sum"
    /\ rec' = IF rec.cur = Absent \/ WindowUsed <= rec.cur.used THEN RecIdle
              ELSE [rec EXCEPT !.pc = "reset", !.used = WindowUsed]
    /\ UNCHANGED <<qsc, events, now, row, records, pend, gost, conf, run, paused, adm, truth>>

RecReset ==
    /\ rec.pc = "reset" /\ up /\ q # Absent
    /\ q' = [q EXCEPT !.used = rec.used]
    /\ rec' = RecIdle
    /\ UNCHANGED <<qsc, events, now, row, records, pend, up, file, conf, run, paused, adm, truth>>

\* A call failed, or gost is gone: this node is left until the next minute.
RecFail ==
    /\ rec.pc \in {"update", "find", "reset"}
    /\ \/ ~up /\ UNCHANGED events
       \/ rec.pc # "find" /\ May("fail") /\ Spend
    /\ rec' = RecIdle
    /\ UNCHANGED <<qsc, now, row, records, pend, gost, conf, run, paused, adm, truth>>

-----------------------------------------------------------------------------
(* The admin.                                                              *)

MayRequest == adm.pc = "idle" /\ (rec.pc = "idle" \/ "overlap" \in qsc.env)

\* handleUpdateNode with other quota parameters: QuotaSince restarts with them.
EditSave(c) ==
    /\ MayRequest /\ c # row.quota /\ May("edit") /\ Spend
    /\ adm' = [pc |-> "apply", old |-> row]
    /\ row' = [quota |-> c, since |-> now]
    /\ UNCHANGED <<qsc, now, records, pend, gost, conf, run, paused, rec, truth>>

\* ApplyNode: the quota, the rest of the node (NodeSync), gost.yml.
EditApply ==
    /\ adm.pc \in {"apply", "undo"}
    /\ IF qsc.kind = "gost"
       THEN /\ up
            /\ q' = Upserted(WantQuota(row.quota))
            /\ conf' = WantQuota(row.quota)
            /\ run' = run
       ELSE run' = TRUE /\ UNCHANGED <<q, conf>>
    /\ adm' = AdmIdle
    /\ UNCHANGED <<qsc, events, now, row, records, pend, up, file, paused, rec, truth>>

\* ApplyNode fails: the old row is put back and applied; that may fail too.
EditFail ==
    /\ adm.pc \in {"apply", "undo"}
    /\ \/ qsc.kind = "gost" /\ ~up /\ UNCHANGED events
       \/ May("fail") /\ Spend
    /\ IF adm.pc = "apply" THEN row' = adm.old /\ adm' = [adm EXCEPT !.pc = "undo"]
       ELSE row' = row /\ adm' = AdmIdle
    /\ UNCHANGED <<qsc, now, records, pend, gost, conf, run, paused, rec, truth>>

\* ResetNodeTraffic.  gost answers an error when it has no such quota, as for any
\* reality node, and the reset ends there.
ResetZero ==
    /\ MayRequest /\ May("reset") /\ Spend
    /\ up /\ q # Absent
    /\ q' = [q EXCEPT !.used = 0]
    /\ adm' = [adm EXCEPT !.pc = "totals"]
    /\ mark' = Carried(q.quota.dir)
    /\ UNCHANGED <<qsc, now, row, records, pend, up, file, conf, run, paused, rec, carried, late>>

ResetTotals ==
    /\ adm.pc = "totals"
    /\ total' = None
    /\ adm' = AdmIdle
    /\ UNCHANGED <<qsc, events, now, row, points, pend, gost, conf, run, paused, rec, truth>>

-----------------------------------------------------------------------------
Sample == SampleGost \/ SampleReality
Reconcile == RecList \/ RecUpdate \/ RecFind \/ RecSum \/ RecReset \/ RecFail
Admin == (\E c \in qsc.quotas : EditSave(c)) \/ EditApply \/ EditFail \/ ResetZero \/ ResetTotals
Gost == Flush \/ GostCrash \/ GostStart

QuotaNext == Tick \/ (\E d \in qsc.flows : Carry(d)) \/ Gost \/ Sample \/ Prune \/ Reconcile \/ Admin

QuotaSpec == QuotaInit /\ [][QuotaNext]_quotaVars

\* The sampler's and Reconcile's tickers fire again and again, gost's supervisor starts it
\* again, a handler that has begun goes on, time passes.  Nothing else is sure to happen.
QuotaFairSpec ==
    /\ QuotaSpec
    /\ WF_quotaVars(Tick) /\ WF_quotaVars(SampleGost) /\ WF_quotaVars(SampleReality) /\ WF_quotaVars(GostStart)
    /\ WF_quotaVars(RecList \/ RecUpdate \/ RecFind \/ RecSum \/ RecReset \/ (RecFail /\ ~up))
    /\ WF_quotaVars(EditApply \/ EditFail) /\ WF_quotaVars(ResetTotals)

-----------------------------------------------------------------------------
Points == [Hours -> [in : Nat, out : Nat]]
GostQuota == [quota : Quota, win : Windows, used : Nat]

QuotaTypeOK ==
    /\ qsc \in QuotaScenarios /\ events \in Nat /\ now \in 0..MaxNow
    /\ row \in [quota : Quota, since : 0..MaxNow]
    /\ points \in Points /\ total \in [in : Nat, out : Nat] /\ pend \in [in : Nat, out : Nat]
    /\ up \in BOOLEAN /\ run \in BOOLEAN
    /\ q = Absent \/ q \in GostQuota
    /\ file = Absent \/ file \in [win : Windows, used : Nat]
    /\ conf = Absent \/ conf \in [quota : Quota, win : Windows]
    /\ paused = Absent
       \/ paused \in [by : Quota, at : 0..MaxNow, blocked : BOOLEAN, used : Nat]
    /\ rec.pc \in {"idle", "update", "find", "sum", "reset"}
    /\ adm.pc \in {"idle", "apply", "undo", "totals"}
    /\ carried \in Points /\ late \in Points /\ mark \in Nat \cup {Absent}

\* What may be charged in direction dir since `from`: what was carried since its hour
\* began, and what was carried before and had not been sampled then.
Chargeable(dir, from) ==
    LET h0 == LocalHourStart(from)
    IN Charge(dir, late[h0]) + RangeTraffic(carried, dir, from)

\* gost keeps its count when an edit changes the direction only.
DirectionKept == \A a, b \in qsc.quotas : a.dir = b.dir

\* gost's count, and the sum that pauses a reality node, never exceed what was carried in
\* the window they stand for: crashes, midnights and restored counts charge nothing twice
\* (Reconcile, restoreQuotaUsage, sampleReality).  For gost it takes a findQuota that
\* answers, no edit between WindowUsed and ResetQuota, and none of the direction.
NoOvercharge ==
    /\ q # Absent /\ qsc.env \cap {"overlap", "findFail"} = {} /\ DirectionKept =>
           q.used <= Chargeable(q.quota.dir, q.win.from)
    /\ paused # Absent =>
           paused.used <= Chargeable(RealityDir(paused.by.dir),
                                     QuotaWindow(paused.by.period, paused.at).from)

\* Violated, see the README: a reality node is charged in the direction of its quota.
ChargedAsSet ==
    paused # Absent =>
        paused.used <= Chargeable(paused.by.dir, QuotaWindow(paused.by.period, paused.at).from)

PresentFrom == QuotaWindow(row.quota.period, now).from

\* Eventually, a node that has not used up the quota of the present window carries
\* traffic: a pause ends with its window (Reconcile, sampleReality).
Reopens ==
    qsc.env \cap {"overlap", "findFail"} = {} =>
        <>[](Chargeable(row.quota.dir, PresentFrom) < row.quota.limit => Open)

\* What the panel has recorded of the present window since the quota was last changed.
Recorded ==
    IF qsc.kind = "reality" /\ row.quota.period = "total" THEN Charge(row.quota.dir, total)
    ELSE RangeTraffic(points, row.quota.dir,
                      IF qsc.kind = "gost" /\ row.since > PresentFrom THEN row.since ELSE PresentFrom)

\* Eventually, a node that has used up its quota carries nothing: no crash of gost, change
\* of window, edit or stale Reconcile makes it lose what was recorded (restoreQuotaUsage).
Closes == <>[](Recorded >= row.quota.limit => ~Open)

\* Violated, see the README: what was carried before a reset is not charged after it.
ResetKept == mark # Absent => q = Absent \/ q.used <= Carried(q.quota.dir) - mark
=============================================================================

-------------------------- MODULE TrafficAccounting --------------------------
(***************************************************************************)
(* Traffic accounting of the panel.  The sampler (internal/controller/     *)
(* sampler.go) turns the cumulative counters of gost and sing-box into     *)
(* increments, adds them to the hourly buckets and to the node's totals,   *)
(* and persists the engine counter it last saw.  The admin's handlers      *)
(* (edit, delete, reset) work on the same rows and on the same objects.    *)
(*                                                                         *)
(* Controller.Nodes() hands out pointers: the sampler and the handlers     *)
(* share objects until LoadNodes replaces the cache with fresh copies of   *)
(* the database rows; a holder of the old pointer then works on a stale    *)
(* object.  Objects are therefore explicit: obj[n][r] is the object behind *)
(* reference r, cached[n] the reference the cache holds.                   *)
(*                                                                         *)
(* In and Out are treated alike by the code; one direction is modelled.    *)
(***************************************************************************)
EXTENDS Integers

CONSTANTS
    Gost,       \* nodes carried by gost (modes link and gost)
    Reality,    \* nodes carried by a sing-box process of their own
    Refs,       \* object identities available to one node
    Nil,        \* the nil pointer, and "no node"
    Scenarios   \* what a behaviour starts from and meets, see Scenario

EnvEvents ==
    { "exit",       \* an engine process (or a gost service) dies and is restarted
      "restart",    \* the panel restarts and its engines with it
      "survive",    \* the panel restarts, gost keeps running
      "statsFail",  \* the clash API of a live sing-box does not answer the sampler
      "resetFail",  \* the clash API of a live sing-box does not answer a reset
      "edit",       \* the admin saves a node
      "delete",     \* the admin deletes a node
      "reset",      \* the admin resets a node's traffic
      "storeFail",  \* a call of the store fails
      "overlap" }   \* handlers may run while a sampling pass or another handler does

Nodes == Gost \cup Reality

\* A behaviour has one scenario throughout: env, what may happen in it; nodes, the
\* nodes it starts with; and bounds: the bytes carried for a node, the incarnations
\* of its engine, the edits of its configuration.
Scenario == [env : SUBSET EnvEvents, nodes : SUBSET Nodes, bytes : Nat, pids : Nat, revs : Nat]

ASSUME ScenariosAssumption == Scenarios \subseteq Scenario
ASSUME NodesAssumption == Gost \cap Reality = {} /\ Nil \notin Nodes
ASSUME RefsAssumption == Refs # {} /\ Nil \notin Refs

NeedsBaseline == -1    \* CounterPid of a node whose baseline is still to be taken

Row == [total : Nat, ctr : Nat, pid : Nat \cup {NeedsBaseline}, rev : Nat]
NewRow == [total |-> 0, ctr |-> 0, pid |-> 0, rev |-> 0]

Engine == [pid : Nat, ctr : Nat]
Stopped == [pid |-> 0, ctr |-> 0]

VARIABLES
    sc,         \* the scenario, never changed
    engine,     \* the process carrying n: its pid (0: none) and byte counter
    pids,       \* incarnations of n's engine so far
    stored,     \* ids with a row in the nodes bucket
    row,        \* the persisted node
    bucket,     \* sum of n's hourly traffic points
    obj,        \* the in-memory objects of n
    cached,     \* the object of n in the controller's cache
    torn,       \* ghost: nodes the store refused a call for since row and cache last met
    seen,       \* keys of lastCounters.m
    last,       \* values of lastCounters.m
    smp,        \* the sampling pass under way, holder of lastCounters' lock
    adm,        \* the request handler under way
    carried,    \* ghost: bytes carried for n
    mark,       \* ghost: carried[n] when the last completed reset zeroed n
    counted,    \* ghost: sum of the increments ever recorded for n
    acked       \* ghost: revision the admin was last told is in force, -1: deleted

vars == <<sc, engine, pids, stored, row, bucket, obj, cached, torn, seen, last, smp,
          adm, carried, mark, counted, acked>>

engines  == <<engine, pids, carried>>
database == <<stored, row, bucket>>
objects  == <<obj, cached, torn>>
counters == <<seen, last>>

SmpPcs == {"idle", "gostNodes", "gostLoop", "realityNodes", "realityStats", "realityLoop"}
AdmPcs == {"idle", "save", "load", "apply", "undoSave", "undoLoad", "undoApply",
           "lock", "baseline", "saveReset", "drop", "dropLoad"}

Pass == [pc : SmpPcs, held : [Nodes -> Refs \cup {Nil}], todo : SUBSET Nodes,
         read : [Nodes -> Engine], node : Nodes \cup {Nil}, pend : Nat]
Request == [pc : AdmPcs, node : Nodes \cup {Nil}, ref : Refs \cup {Nil}, new : Row,
            stat : Engine, mark : Nat]

SmpIdle == [pc |-> "idle", held |-> [n \in Nodes |-> Nil], todo |-> {},
            read |-> [n \in Nodes |-> Stopped], node |-> Nil, pend |-> 0]
AdmIdle == [pc |-> "idle", node |-> Nil, ref |-> Nil, new |-> NewRow,
            stat |-> Stopped, mark |-> 0]

Init ==
    /\ sc \in Scenarios
    /\ engine = [n \in Nodes |-> Stopped]
    /\ pids = [n \in Nodes |-> 0]
    /\ stored = sc.nodes
    /\ row = [n \in Nodes |-> NewRow]
    /\ bucket = [n \in Nodes |-> 0]
    /\ obj = [n \in Nodes |-> [r \in Refs |-> NewRow]]
    /\ cached \in [Nodes -> Refs \cup {Nil}]
    /\ \A n \in Nodes : cached[n] \in IF n \in stored THEN Refs ELSE {Nil}
    /\ torn = {}
    /\ seen = {}
    /\ last = [n \in Nodes |-> 0]
    /\ smp = SmpIdle
    /\ adm = AdmIdle
    /\ carried = [n \in Nodes |-> 0]
    /\ mark = [n \in Nodes |-> 0]
    /\ counted = [n \in Nodes |-> 0]
    /\ acked = [n \in Nodes |-> 0]

-----------------------------------------------------------------------------
(* The engines.                                                            *)

\* The supervisors keep an engine for every node the panel knows, until RemoveNode.
Wanted(n) == (n \in stored \/ cached[n] # Nil) /\ ~(adm.pc \in {"drop", "dropLoad"} /\ adm.node = n)

EngineStart(n) ==
    /\ Wanted(n) /\ engine[n].pid = 0 /\ pids[n] < sc.pids
    /\ pids' = [pids EXCEPT ![n] = @ + 1]
    /\ engine' = [engine EXCEPT ![n] = [pid |-> pids[n] + 1, ctr |-> 0]]
    /\ UNCHANGED <<sc, database, objects, counters, smp, adm, carried, mark, counted, acked>>

Carry(n) ==
    /\ engine[n].pid > 0 /\ carried[n] < sc.bytes
    /\ engine' = [engine EXCEPT ![n].ctr = @ + 1]
    /\ carried' = [carried EXCEPT ![n] = @ + 1]
    /\ UNCHANGED <<sc, pids, database, objects, counters, smp, adm, mark, counted, acked>>

EngineExit(n) ==
    /\ "exit" \in sc.env /\ engine[n].pid > 0
    /\ engine' = [engine EXCEPT ![n] = Stopped]
    /\ UNCHANGED <<sc, pids, database, objects, counters, smp, adm, carried, mark, counted, acked>>

-----------------------------------------------------------------------------
(* The cache.                                                              *)

InUse(n) == {smp.held[n]} \cup (IF adm.node = n THEN {adm.ref} ELSE {})

\* LoadNodes: every cached object is replaced by a fresh copy of its row; an
\* object still held elsewhere lives on, the others are garbage.
LoadNodes ==
    \E fn \in [Nodes -> Refs \cup {Nil}] :
        /\ \A n \in Nodes : fn[n] \in IF n \in stored THEN Refs \ InUse(n) ELSE {Nil}
        /\ cached' = fn
        /\ obj' = [n \in Nodes |-> [r \in Refs |->
                       IF r = fn[n] THEN row[n]
                       ELSE IF r \in InUse(n) THEN obj[n][r] ELSE NewRow]]

SaveNode(n, r) ==
    /\ row' = [row EXCEPT ![n] = r]
    /\ stored' = stored \cup {n}

\* The object has been changed and is then saved; an error of the store is logged,
\* ignored or answered, and the object stays ahead of the row.
Persist(n, r) ==
    \/ SaveNode(n, r) /\ torn' = torn \ {n}
    \/ /\ "storeFail" \in sc.env
       /\ counted[n] <= sc.bytes    \* bound: repeated increments
       /\ UNCHANGED <<stored, row>> /\ torn' = torn \cup {n}

MayOverlap(pc) == "overlap" \in sc.env \/ pc = "idle"

\* Another node's handler, or a subscription, has the cache read again.
Reload ==
    /\ MayOverlap(smp.pc) /\ MayOverlap(adm.pc)
    /\ LoadNodes
    /\ torn' = {}
    /\ UNCHANGED <<sc, engines, database, counters, smp, adm, mark, counted, acked>>

-----------------------------------------------------------------------------
(* One sampling pass: sampleOnce, then the deferred sampleReality.         *)

\* Services() answers, or the API is unreachable and only sampleReality runs.
SampleServices ==
    /\ smp.pc = "idle" /\ MayOverlap(adm.pc)
    /\ smp' = [smp EXCEPT !.pc = "gostNodes", !.read = engine]
    /\ UNCHANGED <<sc, engines, database, objects, counters, adm, mark, counted, acked>>

SampleUnreachable ==
    /\ smp.pc = "idle" /\ MayOverlap(adm.pc)
    /\ smp' = [smp EXCEPT !.pc = "realityNodes"]
    /\ UNCHANGED <<sc, engines, database, objects, counters, adm, mark, counted, acked>>

\* nodes := c.Nodes(), once before the gost loop and once in sampleReality.
SampleNodes ==
    /\ smp.pc \in {"gostNodes", "realityNodes"}
    /\ LET mine == IF smp.pc = "gostNodes" THEN Gost ELSE Reality
           listed == {n \in mine : cached[n] # Nil} IN
       smp' = [smp EXCEPT !.pc = IF smp.pc = "gostNodes" THEN "gostLoop" ELSE "realityStats",
                          !.held = [n \in Nodes |-> IF n \in listed THEN cached[n] ELSE Nil],
                          !.todo = listed]
    /\ UNCHANGED <<sc, engines, database, objects, counters, adm, mark, counted, acked>>

\* AnyStats: a live process whose API does not answer reports its pid and no bytes.
Stats(n, failing) ==
    {engine[n]} \cup (IF failing \in sc.env THEN {[engine[n] EXCEPT !.ctr = 0]} ELSE {})

SampleStats ==
    /\ smp.pc = "realityStats"
    /\ \E rd \in [Nodes -> UNION {Stats(n, "statsFail") : n \in Nodes}] :
          /\ \A n \in Nodes : rd[n] \in Stats(n, "statsFail")
          /\ smp' = [smp EXCEPT !.pc = "realityLoop", !.read = rd]
    /\ UNCHANGED <<sc, engines, database, objects, counters, adm, mark, counted, acked>>

\* Mutant: the difference of two unsigned counters, without the comparison.
DeltaUnsigned(prev, cur) == cur - prev

Delta(prev, cur) == IF cur >= prev THEN cur - prev ELSE 0

\* The object the pass holds for n, and the counter value it counts from.
Held(n) == obj[n][smp.held[n]]

\* Mutants: count from the persisted baseline only; from 0, or from the value
\* just read, when the node has not been sampled since the start.
PrevPersisted(n) == Held(n).ctr
PrevZero(n) == IF n \in seen THEN last[n] ELSE 0
PrevFirstSight(n) == IF n \in seen THEN last[n] ELSE smp.read[n].ctr

Prev(n) ==
    IF n \in Reality /\ smp.read[n].pid > 0 /\ Held(n).pid # smp.read[n].pid THEN 0
    ELSE IF n \in seen THEN last[n]
    ELSE Held(n).ctr

InLoop(n) == smp.pc \in {"gostLoop", "realityLoop"} /\ smp.node = Nil /\ n \in smp.todo

\* lastCounters and AddTraffic, whose error is only logged; an increment, or a first
\* sight, goes on to Save.
Account(n) ==
    /\ InLoop(n)
    /\ n \in Reality => Held(n).pid # NeedsBaseline
    /\ LET cur == smp.read[n].ctr
           inc == Delta(Prev(n), cur) IN
       /\ seen' = seen \cup {n}
       /\ last' = [last EXCEPT ![n] = cur]
       /\ \/ bucket' = [bucket EXCEPT ![n] = @ + inc]
          \/ "storeFail" \in sc.env /\ UNCHANGED bucket
       /\ counted' = [counted EXCEPT ![n] = @ + inc]
       /\ IF inc > 0 \/ n \notin seen
          THEN smp' = [smp EXCEPT !.node = n, !.pend = inc]
          ELSE smp' = [smp EXCEPT !.todo = @ \ {n}]
    /\ UNCHANGED <<sc, engines, stored, row, objects, adm, mark, acked>>

\* Mutant: the whole counter is added to the total, not the increment.
SaveCounter(n) ==
    /\ smp.node = n
    /\ LET new == [Held(n) EXCEPT !.total = @ + smp.read[n].ctr, !.ctr = smp.read[n].ctr] IN
       /\ obj' = [obj EXCEPT ![n][smp.held[n]] = new]
       /\ Persist(n, new)
    /\ smp' = [smp EXCEPT !.node = Nil, !.pend = 0, !.todo = @ \ {n}]
    /\ UNCHANGED <<sc, engines, bucket, cached, counters, adm, mark, counted, acked>>

\* Totals and baseline move on the shared object, then the whole object is saved.
Save(n) ==
    /\ smp.node = n
    /\ LET new == [Held(n) EXCEPT !.total = @ + smp.pend,
                                  !.ctr = smp.read[n].ctr,
                                  !.pid = IF n \in Reality THEN smp.read[n].pid ELSE @] IN
       /\ obj' = [obj EXCEPT ![n][smp.held[n]] = new]
       /\ Persist(n, new)
    /\ smp' = [smp EXCEPT !.node = Nil, !.pend = 0, !.todo = @ \ {n}]
    /\ UNCHANGED <<sc, engines, bucket, cached, counters, adm, mark, counted, acked>>

\* CounterPid == -1: the engine was unreachable at the reset; take the baseline now.
Rebaseline(n) ==
    /\ InLoop(n) /\ n \in Reality /\ Held(n).pid = NeedsBaseline
    /\ LET new == [Held(n) EXCEPT !.ctr = smp.read[n].ctr, !.pid = smp.read[n].pid] IN
       /\ obj' = [obj EXCEPT ![n][smp.held[n]] = new]
       /\ Persist(n, new)
    /\ seen' = seen \cup {n}
    /\ last' = [last EXCEPT ![n] = smp.read[n].ctr]
    /\ smp' = [smp EXCEPT !.todo = @ \ {n}]
    /\ UNCHANGED <<sc, engines, bucket, cached, adm, mark, counted, acked>>

\* The gost loop is over: the deferred sampleReality runs; then the lock is released.
SampleLoopDone ==
    /\ smp.pc \in {"gostLoop", "realityLoop"} /\ smp.todo = {}
    /\ smp' = IF smp.pc = "gostLoop" THEN [SmpIdle EXCEPT !.pc = "realityNodes"] ELSE SmpIdle
    /\ UNCHANGED <<sc, engines, database, objects, counters, adm, mark, counted, acked>>

Sampler ==
    \/ SampleServices \/ SampleUnreachable \/ SampleNodes \/ SampleStats \/ SampleLoopDone
    \/ \E n \in Nodes : Account(n) \/ Save(n) \/ Rebaseline(n)

-----------------------------------------------------------------------------
(* handleUpdateNode.                                                       *)

Begin(n, event) ==
    /\ event \in sc.env /\ adm.pc = "idle" /\ MayOverlap(smp.pc)
    /\ cached[n] # Nil

\* Mutant: the built node replaces the old one with fresh totals.
UpdateFresh(n) ==
    /\ Begin(n, "edit")
    /\ LET old == obj[n][cached[n]] IN
       /\ old.rev < sc.revs
       /\ adm' = [adm EXCEPT !.pc = "save", !.node = n, !.ref = cached[n],
                             !.new = [NewRow EXCEPT !.rev = old.rev + 1]]
    /\ UNCHANGED <<sc, engines, database, objects, counters, smp, mark, counted, acked>>

\* buildNode makes a new object; of the accounting state only the totals are copied.
UpdateBuild(n) ==
    /\ Begin(n, "edit")
    /\ LET old == obj[n][cached[n]] IN
       /\ old.rev < sc.revs
       /\ adm' = [adm EXCEPT !.pc = "save", !.node = n, !.ref = cached[n],
                             !.new = [NewRow EXCEPT !.total = old.total, !.rev = old.rev + 1]]
    /\ UNCHANGED <<sc, engines, database, objects, counters, smp, mark, counted, acked>>

UpdateSave ==
    /\ adm.pc = "save"
    /\ SaveNode(adm.node, adm.new)
    /\ adm' = [adm EXCEPT !.pc = "load"]
    /\ UNCHANGED <<sc, engines, bucket, objects, counters, smp, mark, counted, acked>>

\* Mutant: the cache is not reloaded after the row was saved.
UpdateNoLoad ==
    /\ adm.pc \in {"load", "undoLoad"}
    /\ adm' = [adm EXCEPT !.pc = IF @ = "load" THEN "apply" ELSE "undoApply"]
    /\ UNCHANGED <<sc, engines, database, objects, counters, smp, mark, counted, acked>>

UpdateLoad ==
    /\ adm.pc \in {"load", "undoLoad"}
    /\ LoadNodes
    /\ torn' = {}
    /\ adm' = [adm EXCEPT !.pc = IF @ = "load" THEN "apply" ELSE "undoApply"]
    /\ UNCHANGED <<sc, engines, database, counters, smp, mark, counted, acked>>

\* LoadNodes fails, and the handler goes on with the cache as it was.
UpdateStale ==
    /\ "storeFail" \in sc.env /\ adm.pc \in {"load", "undoLoad"}
    /\ torn' = torn \cup {adm.node}
    /\ adm' = [adm EXCEPT !.pc = IF @ = "load" THEN "apply" ELSE "undoApply"]
    /\ UNCHANGED <<sc, engines, database, obj, cached, counters, smp, mark, counted, acked>>

\* SaveNode or DeleteNode fails: the handler answers an error and leaves the cache alone.
StoreRefuses ==
    /\ "storeFail" \in sc.env /\ adm.pc \in {"save", "undoSave", "drop"}
    /\ adm' = AdmIdle
    /\ UNCHANGED <<sc, engines, database, objects, counters, smp, mark, counted, acked>>

\* ApplyNode replaces the running service or process, or leaves it as it is (an
\* unchanged sing-box configuration; an error before the services are reached).
ApplyNode(n) ==
    \/ UNCHANGED engine
    \/ engine' = [engine EXCEPT ![n] = Stopped]

UpdateApplied ==
    /\ adm.pc = "apply"
    /\ ApplyNode(adm.node)
    /\ acked' = [acked EXCEPT ![adm.node] = adm.new.rev]
    /\ adm' = AdmIdle
    /\ UNCHANGED <<sc, pids, carried, database, objects, counters, smp, mark, counted>>

UpdateFailed ==
    /\ adm.pc = "apply"
    /\ ApplyNode(adm.node)
    /\ adm' = [adm EXCEPT !.pc = "undoSave"]
    /\ UNCHANGED <<sc, pids, carried, database, objects, counters, smp, mark, counted, acked>>

UndoSave ==
    /\ adm.pc = "undoSave"
    /\ SaveNode(adm.node, obj[adm.node][adm.ref])
    /\ adm' = [adm EXCEPT !.pc = "undoLoad"]
    /\ UNCHANGED <<sc, engines, bucket, objects, counters, smp, mark, counted, acked>>

UndoApply ==
    /\ adm.pc = "undoApply"
    /\ ApplyNode(adm.node)
    /\ adm' = AdmIdle
    /\ UNCHANGED <<sc, pids, carried, database, objects, counters, smp, mark, counted, acked>>

Update ==
    \/ \E n \in Nodes : UpdateBuild(n)
    \/ UpdateSave \/ UpdateLoad \/ UpdateStale \/ UpdateApplied \/ UpdateFailed
    \/ UndoSave \/ UndoApply \/ StoreRefuses

-----------------------------------------------------------------------------
(* handleDeleteNode.                                                       *)

\* RemoveNode; its errors are ignored, so a gost service may live on.
DeleteRemove(n) ==
    /\ Begin(n, "delete")
    /\ \/ engine' = [engine EXCEPT ![n] = Stopped]
       \/ n \in Gost /\ UNCHANGED engine
    /\ adm' = [adm EXCEPT !.pc = "drop", !.node = n]
    /\ UNCHANGED <<sc, pids, carried, database, objects, counters, smp, mark, counted, acked>>

\* Store.DeleteNode: the row and the hourly points, in one transaction.
DeleteRow ==
    /\ adm.pc = "drop"
    /\ stored' = stored \ {adm.node}
    /\ row' = [row EXCEPT ![adm.node] = NewRow]
    /\ bucket' = [bucket EXCEPT ![adm.node] = 0]
    /\ adm' = [adm EXCEPT !.pc = "dropLoad"]
    /\ UNCHANGED <<sc, engines, objects, counters, smp, mark, counted, acked>>

DeleteLoad ==
    /\ adm.pc = "dropLoad"
    /\ LoadNodes
    /\ torn' = {}
    /\ acked' = [acked EXCEPT ![adm.node] = -1]
    /\ adm' = AdmIdle
    /\ UNCHANGED <<sc, engines, database, counters, smp, mark, counted>>

DeleteStale ==
    /\ "storeFail" \in sc.env /\ adm.pc = "dropLoad"
    /\ torn' = torn \cup {adm.node}
    /\ acked' = [acked EXCEPT ![adm.node] = -1]
    /\ adm' = AdmIdle
    /\ UNCHANGED <<sc, engines, database, obj, cached, counters, smp, mark, counted>>

Delete == (\E n \in Nodes : DeleteRemove(n)) \/ DeleteRow \/ DeleteLoad \/ DeleteStale

-----------------------------------------------------------------------------
(* ResetNodeTraffic.                                                       *)

\* The gost quota is reset (an error returns here), then the totals are zeroed.
ResetZero(n) ==
    /\ Begin(n, "reset")
    /\ obj' = [obj EXCEPT ![n][cached[n]].total = 0]
    /\ adm' = [adm EXCEPT !.pc = "lock", !.node = n, !.ref = cached[n], !.mark = carried[n]]
    /\ UNCHANGED <<sc, engines, database, cached, torn, counters, smp, mark, counted, acked>>

\* lastCounters.Lock() waits for a sampling pass to end.
ResetForget ==
    /\ adm.pc = "lock" /\ smp.pc = "idle"
    /\ seen' = seen \ {adm.node}
    /\ last' = [last EXCEPT ![adm.node] = 0]
    /\ adm' = [adm EXCEPT !.pc = IF adm.node \in Reality THEN "baseline" ELSE "saveReset"]
    /\ UNCHANGED <<sc, engines, database, objects, smp, mark, counted, acked>>

ResetStats ==
    /\ adm.pc = "baseline"
    /\ \E st \in Stats(adm.node, "resetFail") : adm' = [adm EXCEPT !.pc = "saveReset", !.stat = st]
    /\ UNCHANGED <<sc, engines, database, objects, counters, smp, mark, counted, acked>>

\* Mutant: the baseline is zeroed although the process keeps counting.
ResetBaselineZero ==
    [obj[adm.node][adm.ref] EXCEPT !.ctr = 0, !.pid = adm.stat.pid]

\* The new baseline: the counter just read, or, for a gost node and for a
\* reality node without a process, 0 and the sentinel.
ResetBaseline ==
    IF adm.node \in Reality /\ adm.stat.pid > 0
    THEN [obj[adm.node][adm.ref] EXCEPT !.ctr = adm.stat.ctr, !.pid = adm.stat.pid]
    ELSE [obj[adm.node][adm.ref] EXCEPT !.ctr = 0, !.pid = NeedsBaseline]

ResetSave ==
    /\ adm.pc = "saveReset"
    /\ obj' = [obj EXCEPT ![adm.node][adm.ref] = ResetBaseline]
    /\ Persist(adm.node, ResetBaseline)
    /\ mark' = [mark EXCEPT ![adm.node] = IF adm.node \in torn' THEN @ ELSE adm.mark]
    /\ adm' = AdmIdle
    /\ UNCHANGED <<sc, engines, bucket, cached, counters, smp, counted, acked>>

Reset == (\E n \in Nodes : ResetZero(n)) \/ ResetForget \/ ResetStats \/ ResetSave

-----------------------------------------------------------------------------
(* A panel restart loses every in-memory object and lastCounters; handlers *)
(* and a sampling pass under way stop where they are.  sing-box processes  *)
(* never outlive it (StopAll, or reapOrphan before the next start).        *)
PanelRestart ==
    /\ \A n \in Nodes : counted[n] <= sc.bytes    \* bound: repeated increments
    /\ \E event \in sc.env \cap {"restart", "survive"} :
          engine' = [n \in Nodes |-> IF event = "survive" /\ n \in Gost THEN engine[n] ELSE Stopped]
    /\ \E fn \in [Nodes -> Refs \cup {Nil}] :
          /\ \A n \in Nodes : fn[n] \in IF n \in stored THEN Refs ELSE {Nil}
          /\ cached' = fn
          /\ obj' = [n \in Nodes |-> [r \in Refs |-> IF r = fn[n] THEN row[n] ELSE NewRow]]
    /\ torn' = {}
    /\ seen' = {}
    /\ last' = [n \in Nodes |-> 0]
    /\ smp' = SmpIdle
    /\ adm' = AdmIdle
    /\ UNCHANGED <<sc, pids, carried, database, mark, counted, acked>>

Next ==
    \/ \E n \in Nodes : EngineStart(n) \/ Carry(n) \/ EngineExit(n)
    \/ Reload \/ Sampler \/ Update \/ Delete \/ Reset \/ PanelRestart

Spec == Init /\ [][Next]_vars

\* The ticker never stops and gost answers again and again; supervisors restart.
Fairness ==
    /\ SF_vars(SampleServices)
    /\ WF_vars(SampleNodes) /\ WF_vars(SampleStats) /\ WF_vars(SampleLoopDone)
    /\ WF_vars(\E n \in Nodes : Account(n) \/ Save(n) \/ Rebaseline(n))

FairSpec == Spec /\ Fairness

-----------------------------------------------------------------------------
(* Properties.                                                             *)

TypeOK ==
    /\ sc \in Scenarios
    /\ engine \in [Nodes -> Engine]
    /\ pids \in [Nodes -> Nat]
    /\ stored \subseteq Nodes
    /\ row \in [Nodes -> Row]
    /\ bucket \in [Nodes -> Nat]
    /\ obj \in [Nodes -> [Refs -> Row]]
    /\ cached \in [Nodes -> Refs \cup {Nil}]
    /\ torn \subseteq Nodes
    /\ seen \subseteq Nodes
    /\ last \in [Nodes -> Nat]
    /\ smp \in Pass
    /\ adm \in Request
    /\ carried \in [Nodes -> Nat]
    /\ mark \in [Nodes -> Nat]
    /\ counted \in [Nodes -> Nat]
    /\ acked \in [Nodes -> Nat \cup {-1}]

\* No handler holds n and no sampling pass is under way.
Settled(n) == smp.pc = "idle" /\ adm.node # n

\* Neither the displayed nor the persisted total of n exceeds what was carried
\* for it since its last reset.
TotalsWithin(n) == Settled(n) =>
    /\ n \in stored => row[n].total <= carried[n] - mark[n]
    /\ cached[n] # Nil => obj[n][cached[n]].total <= carried[n] - mark[n]

\* The hourly points of a node never add up to more than its engines carried: an
\* increment is recorded at most once ("counts increments only", sampler.go).
CountedOnce == \A n \in Nodes : bucket[n] <= carried[n]

\* The totals start again at zero with a reset: traffic from before it does not
\* come back (ResetNodeTraffic).
ResetKept == \A n \in Nodes : TotalsWithin(n)

\* What holds of CountedOnce and ResetKept for gost: services that exit, restarts of
\* panel and gost, edits and deletions that overlap a pass in any way, and calls the
\* store refuses never make the sampler record an increment twice.  (It may when a node
\* is reset, or when the panel stops between AddTraffic and SaveNode and gost goes on.)
GostCountedOnce ==
    sc.env \cap {"reset", "survive"} = {} =>
        \A n \in Gost : bucket[n] <= carried[n] /\ TotalsWithin(n)

\* A gost that outlives the panel: the totals go on from the persisted baseline,
\* whatever the panel was doing when it stopped and whichever save failed before
\* (sampleOnce, first sight).
SurvivorCountedOnce ==
    sc.env \cap {"reset", "edit"} = {} => \A n \in Gost : TotalsWithin(n)

\* What holds of both for sing-box: processes that exit, panel restarts, deletions
\* and resets, as long as the API answers, the store takes what it is given, no edit
\* drops the baseline, and no handler overlaps a pass (sampleReality, ResetNodeTraffic).
RealityCountedOnce ==
    sc.env \cap {"edit", "statsFail", "resetFail", "storeFail", "overlap"} = {} =>
        \A n \in Reality : bucket[n] <= carried[n] /\ TotalsWithin(n)

Serial == "overlap" \notin sc.env

\* Between operations the cache and the database agree on every node, save those the
\* store refused a call for; whatever was refused, the next save of the node or the
\* next LoadNodes mends it (sampleOnce, ResetNodeTraffic, handleUpdateNode,
\* handleDeleteNode: each goes on after an error of the store).
CacheMatchesStore ==
    Serial => \A n \in Nodes : Settled(n) /\ n \notin torn =>
        IF n \in stored THEN cached[n] # Nil /\ obj[n][cached[n]] = row[n]
                        ELSE cached[n] = Nil

\* What the admin was last told stays true: the row is no older than the edit, and what
\* was deleted does not come back, nor its hourly points.  A pass under way may break
\* it: it saves the object it took before (handleUpdateNode, handleDeleteNode).
WritesKept ==
    \A n \in Nodes :
        /\ n \in stored => row[n].rev >= acked[n]
        /\ acked[n] = -1 => n \notin stored /\ bucket[n] = 0

\* Only a reset or a deletion lowers the persisted total of a node, at once or, after
\* the store refused it, with a later save.
TotalOnlyGrows ==
    [][\A n \in Nodes : Serial /\ row'[n].total < row[n].total =>
           \/ adm.node = n /\ adm.pc \in {"saveReset", "drop"}
           \/ n \in torn]_vars

\* When the engines stay up, every byte they carry ends up in the hourly points
\* and in the node's persisted total, however often the gost API fails.
AllCounted == \A n \in Nodes : <>[](bucket[n] = carried[n] /\ row[n].total = carried[n])
=============================================================================

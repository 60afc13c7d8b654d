----------------------- MODULE TrafficAccountingProofs -----------------------
(* Theorems about TrafficAccounting, for every number of nodes and bytes.  *)
EXTENDS TrafficAccounting, TLAPS

\* Whoever works on an object holds a reference to one (internal/controller/
\* sampler.go, internal/server/handlers_nodes.go).
RefsOK ==
    /\ smp.pc = "idle" => smp.todo = {}
    /\ smp.pc \in {"gostNodes", "realityNodes"} => smp.todo = {}
    /\ smp.pc = "gostLoop" => smp.todo \subseteq Gost
    /\ smp.pc \in {"realityStats", "realityLoop"} => smp.todo \subseteq Reality
    /\ \A n \in smp.todo : smp.held[n] \in Refs
    /\ smp.node # Nil => smp.node \in smp.todo /\ smp.pc \in {"gostLoop", "realityLoop"}
    /\ adm.pc # "idle" => adm.node \in Nodes
    /\ adm.pc \notin {"idle", "drop", "dropLoad"} => adm.ref \in Refs

TypeInv == TypeOK /\ RefsOK

-----------------------------------------------------------------------------
(* The inductive invariant for nodes carried by gost.                      *)

\* Bytes carried by the engine incarnations before the present one.
Earlier(n) == carried[n] - engine[n].ctr

\* Where the recorded increments of the present incarnation can have got to.
Position(n) == IF n \in seen THEN last[n] ELSE 0

CountedInv(n) ==
    /\ engine[n].ctr <= carried[n]
    /\ counted[n] <= carried[n]
    /\ counted[n] <= Earlier(n) + Position(n)

\* A counter value read from gost and not yet accounted for.
InFlight(n) ==
    \/ smp.pc = "gostNodes"
    \/ smp.pc = "gostLoop" /\ n \in smp.todo /\ smp.node # n

ReadInv(n) ==
    InFlight(n) =>
        /\ counted[n] <= Earlier(n) + smp.read[n].ctr
        /\ \/ smp.read[n].ctr <= engine[n].ctr
           \/ /\ counted[n] <= Earlier(n)
              /\ counted[n] + smp.read[n].ctr - Position(n) <= Earlier(n)

TotalInv(n) ==
    /\ bucket[n] <= counted[n]
    /\ row[n].total <= counted[n]
    /\ \A r \in Refs : obj[n][r].total <= counted[n]
    /\ adm.node = n /\ adm.pc \notin {"drop", "dropLoad"} => adm.new.total <= counted[n]
    /\ smp.node = n => obj[n][smp.held[n]].total + smp.pend <= counted[n]
    /\ mark[n] = 0

GostInv == \A n \in Gost : CountedInv(n) /\ ReadInv(n) /\ TotalInv(n)

NoResetInv == adm.pc \notin {"lock", "baseline", "saveReset"}

-----------------------------------------------------------------------------
(* What holds when handlers and sampling passes take turns (Serial).       *)

CacheOK(n) ==
    IF n \in stored THEN cached[n] \in Refs /\ obj[n][cached[n]] = row[n] ELSE cached[n] = Nil

\* Where a handler has changed one of row and object of its node but not yet the other.
Apart == {"load", "undoLoad", "lock", "baseline", "saveReset", "dropLoad"}

Caching ==
    /\ smp.pc = "idle" \/ adm.pc = "idle"
    /\ \A n \in Nodes : CacheOK(n) \/ n \in torn \/ (adm.node = n /\ adm.pc \in Apart)
    /\ \A n \in smp.todo : smp.held[n] = cached[n]

\* An update saves a newer version of what the cache holds, and can go back to it.
UpdateOK(n, r) ==
    /\ adm.pc \in {"save", "load", "apply", "undoSave"} => adm.new.total = obj[n][r].total
    /\ adm.pc = "save" => r = cached[n]
    /\ adm.pc \in {"load", "apply", "undoSave"} => row[n] = adm.new

\* A reset works on the object in the cache.
ResetOK(n, r) ==
    adm.pc \in {"lock", "baseline", "saveReset"} => r = cached[n] /\ (n \in stored \/ n \in torn)

HandlerOK == UpdateOK(adm.node, adm.ref) /\ ResetOK(adm.node, adm.ref)

SerialInv == Caching /\ HandlerOK

\* Only what the store refuses sets row and object apart.
NoneTorn == "storeFail" \in sc.env \/ torn = {}

-----------------------------------------------------------------------------
(* Nodes carried by gost when it outlives the panel.                       *)

\* The counter from which an object goes on that has been saved as o.
From(n, o) == IF n \in seen THEN last[n] ELSE o.ctr

\* Every copy of the totals of n, and what it is to be counted on from.
CopyOK(n, o) ==
    /\ o.total <= carried[n]
    /\ o.total <= Earlier(n) + o.ctr
    /\ n \in seen => o.total <= Earlier(n) + last[n]
    /\ InFlight(n) =>
          /\ o.total <= Earlier(n) + smp.read[n].ctr
          /\ \/ smp.read[n].ctr <= engine[n].ctr
             \/ o.total <= Earlier(n) /\ o.total + smp.read[n].ctr - From(n, o) <= Earlier(n)

\* The increment that has been recorded and is about to be added to the total.
PendingOK(n) == smp.node = n =>
    /\ n \in seen /\ last[n] = smp.read[n].ctr
    /\ obj[n][smp.held[n]].total + smp.pend <= carried[n]
    /\ obj[n][smp.held[n]].total + smp.pend <= Earlier(n) + smp.read[n].ctr

SurvivorOK(n) ==
    /\ engine[n].ctr <= carried[n] /\ mark[n] = 0
    /\ InFlight(n) => smp.read[n].ctr <= engine[n].ctr \/ smp.read[n].ctr <= Earlier(n)
    /\ CopyOK(n, row[n]) /\ \A r \in Refs : CopyOK(n, obj[n][r])
    /\ PendingOK(n)

SurvivorInv ==
    /\ adm.pc \in {"idle", "drop", "dropLoad"}
    /\ \A n \in Gost : SurvivorOK(n)

-----------------------------------------------------------------------------
(* Nodes carried by sing-box.                                              *)

\* What may have been counted for n when counting goes on from counter c of process p.
Base(n, p, c) == IF p > 0 /\ p = engine[n].pid THEN Earlier(n) + c ELSE Earlier(n)

\* Process p was there, and has got as far as c.
Known(n, p, c) == p <= pids[n] /\ (p > 0 /\ p = engine[n].pid => c <= engine[n].ctr)

\* The counter the next increment is counted from.
PrevOf(n) ==
    IF smp.read[n].pid > 0 /\ row[n].pid # smp.read[n].pid THEN 0
    ELSE IF n \in seen THEN last[n] ELSE row[n].ctr

\* The node between two passes, and before its turn in a pass.
RestingOK(n) == smp.node # n =>
    /\ bucket[n] <= Base(n, row[n].pid, row[n].ctr)
    /\ n \in stored => row[n].total + mark[n] <= Base(n, row[n].pid, row[n].ctr)
    /\ n \in seen /\ row[n].pid > 0 /\ row[n].pid = engine[n].pid => last[n] = row[n].ctr

ToCount(n) == smp.pc = "realityLoop" /\ n \in smp.todo /\ smp.node # n

CountingOK(n) == ToCount(n) =>
    LET p == smp.read[n].pid
        c == smp.read[n].ctr
        inc == Delta(PrevOf(n), c) IN
    /\ Known(n, p, c) /\ (p = 0 => c = 0)
    /\ row[n].pid > 0 /\ row[n].pid = engine[n].pid => p = row[n].pid
    /\ p > 0 /\ p = row[n].pid => row[n].ctr <= c /\ (n \in seen => last[n] = row[n].ctr)
    /\ bucket[n] + inc <= Base(n, p, c)
    /\ row[n].total + mark[n] + inc <= Base(n, p, c)

SavingOK(n) == smp.node = n =>
    LET p == smp.read[n].pid
        c == smp.read[n].ctr IN
    /\ Known(n, p, c) /\ last[n] = c
    /\ bucket[n] <= Base(n, p, c)
    /\ row[n].total + mark[n] + smp.pend <= Base(n, p, c)

\* The reset: what was carried when it began is what it will leave behind.
ResettingOK(n) == adm.node = n =>
    /\ adm.pc \in {"lock", "baseline", "saveReset"} =>
          adm.mark <= carried[n] /\ obj[n][adm.ref].total = 0
    /\ adm.pc \in {"baseline", "saveReset"} => n \notin seen
    /\ adm.pc = "saveReset" =>
          /\ Known(n, adm.stat.pid, adm.stat.ctr)
          /\ bucket[n] <= Base(n, adm.stat.pid, adm.stat.ctr)
          /\ adm.mark <= Base(n, adm.stat.pid, adm.stat.ctr)

RealityOK(n) ==
    /\ engine[n].pid <= pids[n] /\ engine[n].ctr <= carried[n]
    /\ engine[n].pid = 0 => engine[n].ctr = 0
    /\ Known(n, row[n].pid, row[n].ctr)
    /\ RestingOK(n) /\ CountingOK(n) /\ SavingOK(n) /\ ResettingOK(n)

RealityInv ==
    /\ adm.pc \in {"idle", "lock", "baseline", "saveReset", "drop", "dropLoad"}
    /\ \A n \in Reality : RealityOK(n)

\* The scenarios SurvivorCountedOnce and RealityCountedOnce are about.
Survives == sc.env \cap {"reset", "edit"} = {}
Answered == sc.env \cap {"edit", "statsFail", "resetFail", "storeFail", "overlap"} = {}

-----------------------------------------------------------------------------
(* Types.                                                                  *)

LEMMA IdleTypes ==
    /\ SmpIdle \in Pass
    /\ AdmIdle \in Request
    /\ NewRow \in Row
    /\ Stopped \in Engine
  BY DEF SmpIdle, AdmIdle, Pass, Request, NewRow, Stopped, Row, Engine, SmpPcs, AdmPcs,
     NeedsBaseline

LEMMA InitTypes == Init => TypeInv
<1> SUFFICES ASSUME Init PROVE TypeInv
  OBVIOUS
<1>1. TypeOK
  <2>1. sc \in Scenarios /\ sc.nodes \subseteq Nodes
    BY ScenariosAssumption DEF Init, Scenario
  <2> QED BY <2>1, IdleTypes DEF Init, TypeOK
<1>2. RefsOK
  BY DEF Init, RefsOK, SmpIdle, AdmIdle
<1> QED BY <1>1, <1>2 DEF TypeInv

LEMMA DeltaType == ASSUME NEW a \in Nat, NEW b \in Nat PROVE Delta(a, b) \in Nat
  BY DEF Delta

\* LoadNodes keeps every object that is referred to and installs copies of rows.
LEMMA LoadNodesTypes ==
    ASSUME TypeOK, LoadNodes
    PROVE  /\ obj' \in [Nodes -> [Refs -> Row]]
           /\ cached' \in [Nodes -> Refs \cup {Nil}]
  BY IdleTypes DEF TypeOK, LoadNodes

\* What the store has afterwards: the new row, or what it had.
LEMMA Persisted ==
    ASSUME NEW n \in Nodes, NEW new \in Row, Persist(n, new)
    PROVE  /\ \/ row' = [row EXCEPT ![n] = new] /\ stored' = stored \cup {n} /\ n \notin torn'
              \/ row' = row /\ stored' = stored /\ n \in torn' /\ "storeFail" \in sc.env
           /\ \A m \in Nodes \ {n} : m \in torn' <=> m \in torn
           /\ torn \subseteq Nodes => torn' \subseteq Nodes
  BY DEF Persist, SaveNode

LEMMA PersistTypes ==
    ASSUME row \in [Nodes -> Row], stored \subseteq Nodes, torn \subseteq Nodes,
           NEW n \in Nodes, NEW new \in Row, Persist(n, new)
    PROVE  row' \in [Nodes -> Row] /\ stored' \subseteq Nodes /\ torn' \subseteq Nodes
  BY DEF Persist, SaveNode

LEMMA ReloadTypes == ASSUME TypeInv, Reload PROVE TypeInv'
  BY LoadNodesTypes DEF Reload, TypeInv, TypeOK, RefsOK, engines, database, counters

LEMMA EngineTypes ==
    ASSUME TypeInv, NEW n \in Nodes, EngineStart(n) \/ Carry(n) \/ EngineExit(n)
    PROVE  TypeInv'
<1> USE DEF TypeInv, TypeOK, RefsOK, database, objects, counters, Engine
<1>1. CASE EngineStart(n)
  BY <1>1 DEF EngineStart
<1>2. CASE Carry(n)
  <2>1. engine' \in [Nodes -> Engine] /\ carried' \in [Nodes -> Nat]
    BY <1>2 DEF Carry
  <2> QED BY <1>2, <2>1 DEF Carry
<1>3. CASE EngineExit(n)
  BY <1>3 DEF EngineExit, Stopped
<1> QED BY <1>1, <1>2, <1>3

\* What RefsOK needs of the steps of a pass that only move it along.
LEMMA SamplerTypes == ASSUME TypeInv, Sampler PROVE TypeInv'
<1> USE DEF TypeInv, TypeOK, RefsOK, engines, database, objects, counters
<1>1. CASE SampleServices
  BY <1>1 DEF SampleServices, Pass, SmpPcs
<1>2. CASE SampleUnreachable
  BY <1>2 DEF SampleUnreachable, Pass, SmpPcs
<1>3. CASE SampleNodes
  <2> DEFINE mine == IF smp.pc = "gostNodes" THEN Gost ELSE Reality
             listed == {n \in mine : cached[n] # Nil}
             heldNow == [n \in Nodes |-> IF n \in listed THEN cached[n] ELSE Nil]
             pcNow == IF smp.pc = "gostNodes" THEN "gostLoop" ELSE "realityStats"
  <2>1. smp' = [smp EXCEPT !.pc = pcNow, !.held = heldNow, !.todo = listed]
    BY <1>3 DEF SampleNodes
  <2>2. listed \subseteq Nodes /\ heldNow \in [Nodes -> Refs \cup {Nil}] /\ pcNow \in SmpPcs
    BY DEF Nodes, SmpPcs
  <2>3. smp' \in Pass
    BY <2>1, <2>2 DEF Pass
  <2>4. RefsOK'
    BY <2>1, <2>2, <1>3, NodesAssumption DEF SampleNodes, Pass, Nodes
  <2> QED BY <2>3, <2>4, <1>3 DEF SampleNodes
<1>4. CASE SampleStats
  <2>1. \A n \in Nodes : Stats(n, "statsFail") \subseteq Engine
    BY DEF Stats, Engine
  <2>2. PICK rd \in [Nodes -> UNION {Stats(n, "statsFail") : n \in Nodes}] :
            smp' = [smp EXCEPT !.pc = "realityLoop", !.read = rd]
    BY <1>4 DEF SampleStats
  <2>3. rd \in [Nodes -> Engine]
    BY <2>1
  <2>4. smp' \in Pass
    BY <2>2, <2>3 DEF Pass, SmpPcs
  <2> QED BY <2>2, <2>4, <1>4 DEF SampleStats, Pass
<1>5. CASE SampleLoopDone
  <2>1. smp' \in Pass
    BY <1>5, IdleTypes DEF SampleLoopDone, Pass, SmpPcs
  <2>2. smp'.node = Nil /\ smp'.todo = {} /\ smp'.pc \in {"idle", "realityNodes"}
    BY <1>5 DEF SampleLoopDone, SmpIdle
  <2> QED BY <2>1, <2>2, <1>5 DEF SampleLoopDone
<1>6. ASSUME NEW n \in Nodes, Account(n) PROVE TypeInv'
  <2> DEFINE inc == Delta(Prev(n), smp.read[n].ctr)
  <2>1. smp.held[n] \in Refs /\ Held(n) \in Row /\ smp.read[n] \in Engine
    BY <1>6 DEF Account, InLoop, Held, Pass
  <2>2. Prev(n) \in Nat
    BY <2>1 DEF Prev, Row
  <2>3. inc \in Nat
    BY <2>1, <2>2, DeltaType DEF Engine
  <2>4. /\ smp' \in {[smp EXCEPT !.node = n, !.pend = inc], [smp EXCEPT !.todo = @ \ {n}]}
        /\ last' = [last EXCEPT ![n] = smp.read[n].ctr]
        /\ bucket' \in {bucket, [bucket EXCEPT ![n] = @ + inc]}
        /\ counted' = [counted EXCEPT ![n] = @ + inc]
        /\ seen' = seen \cup {n}
    BY <1>6 DEF Account
  <2> HIDE DEF inc
  <2>5. smp' \in Pass /\ RefsOK'
    <3>1. CASE smp' = [smp EXCEPT !.node = n, !.pend = inc]
      BY <3>1, <2>3, <1>6 DEF Account, InLoop, Pass
    <3>2. CASE smp' = [smp EXCEPT !.todo = @ \ {n}]
      BY <3>2, <1>6 DEF Account, InLoop, Pass
    <3> QED BY <2>4, <3>1, <3>2
  <2>6. bucket' \in [Nodes -> Nat] /\ counted' \in [Nodes -> Nat]
    <3>1. bucket' = bucket \/ bucket' = [bucket EXCEPT ![n] = @ + inc]
      BY <2>4
    <3>2. \A k \in Nodes : bucket[k] \in Nat /\ bucket[k] + inc \in Nat /\ counted[k] + inc \in Nat
      BY <2>3
    <3> QED BY <2>4, <3>1, <3>2
  <2> QED BY <2>1, <2>4, <2>5, <2>6, <1>6 DEF Account, Engine
<1>7. ASSUME NEW n \in Nodes, Save(n) PROVE TypeInv'
  <2> DEFINE new == [Held(n) EXCEPT !.total = @ + smp.pend, !.ctr = smp.read[n].ctr,
                                    !.pid = IF n \in Reality THEN smp.read[n].pid ELSE @]
  <2>1. smp.held[n] \in Refs /\ Held(n) \in Row /\ smp.read[n] \in Engine /\ smp.pend \in Nat
    BY <1>7, NodesAssumption DEF Save, Held, Pass
  <2>2. new \in Row
    <3>1. /\ Held(n).total + smp.pend \in Nat
          /\ smp.read[n].ctr \in Nat
          /\ (IF n \in Reality THEN smp.read[n].pid ELSE Held(n).pid) \in Nat \cup {NeedsBaseline}
      BY <2>1 DEF Row, Engine
    <3> QED BY <3>1, <2>1 DEF Row
  <2>3. /\ obj' = [obj EXCEPT ![n][smp.held[n]] = new]
        /\ Persist(n, new)
        /\ smp' = [smp EXCEPT !.node = Nil, !.pend = 0, !.todo = @ \ {n}]
    BY <1>7 DEF Save
  <2> HIDE DEF new
  <2>4. smp' \in Pass
    BY <2>3 DEF Pass
  <2>5. RefsOK'
    BY <2>3, <1>7 DEF Save, Pass
  <2>6. row' \in [Nodes -> Row] /\ stored' \subseteq Nodes /\ torn' \subseteq Nodes
    BY <2>2, <2>3, PersistTypes
  <2>7. obj' \in [Nodes -> [Refs -> Row]]
    BY <2>1, <2>2, <2>3
  <2>8. UNCHANGED <<sc, engine, pids, carried, bucket, cached, seen, last, adm, mark, counted, acked>>
    BY <1>7 DEF Save
  <2> QED BY <2>4, <2>5, <2>6, <2>7, <2>8
<1>8. ASSUME NEW n \in Nodes, Rebaseline(n) PROVE TypeInv'
  <2> DEFINE new == [Held(n) EXCEPT !.ctr = smp.read[n].ctr, !.pid = smp.read[n].pid]
  <2>1. smp.held[n] \in Refs /\ Held(n) \in Row /\ smp.read[n] \in Engine
    BY <1>8 DEF Rebaseline, InLoop, Held, Pass
  <2>2. new \in Row
    BY <2>1 DEF Row, Engine
  <2>3. /\ obj' = [obj EXCEPT ![n][smp.held[n]] = new]
        /\ Persist(n, new)
        /\ smp' = [smp EXCEPT !.todo = @ \ {n}]
        /\ last' = [last EXCEPT ![n] = smp.read[n].ctr]
    BY <1>8 DEF Rebaseline
  <2> HIDE DEF new
  <2>4. smp' \in Pass
    BY <2>3 DEF Pass
  <2>5. RefsOK'
    BY <2>3, <1>8 DEF Rebaseline, InLoop, Pass
  <2>6. row' \in [Nodes -> Row] /\ stored' \subseteq Nodes /\ torn' \subseteq Nodes
    BY <2>2, <2>3, PersistTypes
  <2>7. obj' \in [Nodes -> [Refs -> Row]] /\ last' \in [Nodes -> Nat]
    BY <2>1, <2>2, <2>3 DEF Engine
  <2>8. /\ UNCHANGED <<sc, engine, pids, carried, bucket, cached, adm, mark, counted, acked>>
        /\ seen' = seen \cup {n}
    BY <1>8 DEF Rebaseline
  <2> QED BY <2>4, <2>5, <2>6, <2>7, <2>8
<1> QED BY <1>1, <1>2, <1>3, <1>4, <1>5, <1>6, <1>7, <1>8 DEF Sampler

LEMMA UpdateTypes == ASSUME TypeInv, Update PROVE TypeInv'
<1> USE DEF TypeInv, TypeOK, RefsOK, engines, database, objects, counters
<1>0. AdmIdle.pc = "idle" /\ AdmIdle.node = Nil
  BY DEF AdmIdle
<1>1. ASSUME NEW n \in Nodes, UpdateBuild(n) PROVE TypeInv'
  <2>1. cached[n] \in Refs /\ obj[n][cached[n]] \in Row
    BY <1>1 DEF UpdateBuild, Begin
  <2>2. [NewRow EXCEPT !.total = obj[n][cached[n]].total, !.rev = obj[n][cached[n]].rev + 1] \in Row
    <3>1. obj[n][cached[n]].total \in Nat /\ obj[n][cached[n]].rev + 1 \in Nat
      BY <2>1 DEF Row
    <3> QED BY <3>1 DEF Row, NewRow
  <2>3. adm' \in Request
    BY <1>1, <2>1, <2>2 DEF UpdateBuild, Request, AdmPcs
  <2> QED BY <1>1, <2>1, <2>3 DEF UpdateBuild, Request
<1>2. CASE UpdateSave
  BY <1>2 DEF UpdateSave, SaveNode, Request, AdmPcs
<1>3. CASE UpdateLoad
  BY <1>3, LoadNodesTypes DEF UpdateLoad, Request, AdmPcs
<1>4. CASE UpdateApplied
  <2>1. engine' \in [Nodes -> Engine]
    BY <1>4, IdleTypes DEF UpdateApplied, ApplyNode
  <2> QED BY <1>4, <1>0, <2>1, IdleTypes DEF UpdateApplied, Request, Row
<1>5. CASE UpdateFailed
  <2>1. engine' \in [Nodes -> Engine]
    BY <1>5, IdleTypes DEF UpdateFailed, ApplyNode
  <2> QED BY <1>5, <2>1 DEF UpdateFailed, Request, AdmPcs
<1>6. CASE UndoSave
  BY ZenonT(40), <1>6 DEF UndoSave, SaveNode, Request, AdmPcs
<1>7. CASE UndoApply
  <2>1. engine' \in [Nodes -> Engine]
    BY <1>7, IdleTypes DEF UndoApply, ApplyNode
  <2> QED BY <1>7, <1>0, <2>1, IdleTypes DEF UndoApply
<1>8. CASE UpdateStale
  BY <1>8 DEF UpdateStale, Request, AdmPcs
<1>9. CASE StoreRefuses
  BY <1>9, <1>0, IdleTypes DEF StoreRefuses
<1> QED BY <1>1, <1>2, <1>3, <1>4, <1>5, <1>6, <1>7, <1>8, <1>9 DEF Update

LEMMA DeleteTypes == ASSUME TypeInv, Delete PROVE TypeInv'
<1> USE DEF TypeInv, TypeOK, RefsOK, engines, database, objects, counters
<1>0. AdmIdle.pc = "idle" /\ AdmIdle.node = Nil
  BY DEF AdmIdle
<1>1. ASSUME NEW n \in Nodes, DeleteRemove(n) PROVE TypeInv'
  <2>1. engine' \in [Nodes -> Engine]
    BY <1>1, IdleTypes DEF DeleteRemove
  <2> QED BY <1>1, <2>1 DEF DeleteRemove, Request, AdmPcs
<1>2. CASE DeleteRow
  BY <1>2, IdleTypes DEF DeleteRow, Request, AdmPcs
<1>3. CASE DeleteLoad
  BY <1>3, <1>0, IdleTypes, LoadNodesTypes DEF DeleteLoad
<1>4. CASE DeleteStale
  BY <1>4, <1>0, IdleTypes DEF DeleteStale
<1> QED BY <1>1, <1>2, <1>3, <1>4 DEF Delete

LEMMA ResetTypes == ASSUME TypeInv, Reset PROVE TypeInv'
<1> USE DEF TypeInv, TypeOK, RefsOK, engines, database, objects, counters
<1>0. AdmIdle.pc = "idle" /\ AdmIdle.node = Nil
  BY DEF AdmIdle
<1>1. ASSUME NEW n \in Nodes, ResetZero(n) PROVE TypeInv'
  <2>1. cached[n] \in Refs /\ obj[n][cached[n]] \in Row
    BY <1>1 DEF ResetZero, Begin
  <2>2. obj' \in [Nodes -> [Refs -> Row]]
    BY <1>1, <2>1 DEF ResetZero, Row
  <2> QED BY <1>1, <2>1, <2>2 DEF ResetZero, Request, AdmPcs
<1>2. CASE ResetForget
  BY <1>2 DEF ResetForget, Request, AdmPcs
<1>3. CASE ResetStats
  <2>0. adm.node \in Nodes
    BY <1>3 DEF ResetStats
  <2>1. \A n \in Nodes : Stats(n, "resetFail") \subseteq Engine
    BY DEF Stats, Engine
  <2> QED BY <1>3, <2>0, <2>1 DEF ResetStats, Request, AdmPcs
<1>4. CASE ResetSave
  <2>1. adm.node \in Nodes /\ adm.ref \in Refs /\ obj[adm.node][adm.ref] \in Row
    BY <1>4 DEF ResetSave
  <2>2. ResetBaseline \in Row
    BY <2>1 DEF ResetBaseline, Row, Request, Engine, NeedsBaseline
  <2>3. row' \in [Nodes -> Row] /\ stored' \subseteq Nodes /\ torn' \subseteq Nodes
    BY <1>4, <2>1, <2>2, PersistTypes DEF ResetSave
  <2>4. mark' \in [Nodes -> Nat]
    BY <1>4, <2>1 DEF ResetSave, Request
  <2> QED BY <1>4, <1>0, <2>1, <2>2, <2>3, <2>4, IdleTypes DEF ResetSave
<1> QED BY <1>1, <1>2, <1>3, <1>4 DEF Reset

LEMMA RestartTypes == ASSUME TypeInv, PanelRestart PROVE TypeInv'
<1> USE DEF TypeInv, TypeOK, RefsOK, database
<1>1. engine' \in [Nodes -> Engine]
  BY IdleTypes DEF PanelRestart
<1>2. obj' \in [Nodes -> [Refs -> Row]] /\ cached' \in [Nodes -> Refs \cup {Nil}]
  BY IdleTypes DEF PanelRestart
<1>3. SmpIdle.pc = "idle" /\ SmpIdle.todo = {} /\ SmpIdle.node = Nil /\ AdmIdle.pc = "idle"
  BY DEF SmpIdle, AdmIdle
<1> QED BY <1>1, <1>2, <1>3, IdleTypes DEF PanelRestart

LEMMA TypeStep == TypeInv /\ [Next]_vars => TypeInv'
<1> SUFFICES ASSUME TypeInv, [Next]_vars PROVE TypeInv'
  OBVIOUS
<1>1. CASE UNCHANGED vars
  BY <1>1 DEF TypeInv, TypeOK, RefsOK, vars
<1> QED BY <1>1, EngineTypes, ReloadTypes, SamplerTypes, UpdateTypes, DeleteTypes, ResetTypes,
        RestartTypes DEF Next

\* The accounting state keeps its shape: counters never go negative, whoever
\* holds an object holds an existing one (every handler and the sampler).
THEOREM TypeCorrect == Spec => []TypeOK
<1>1. Spec => []TypeInv
  BY InitTypes, TypeStep, PTL DEF Spec
<1>2. TypeInv => TypeOK
  BY DEF TypeInv
<1> QED BY <1>1, <1>2, PTL

-----------------------------------------------------------------------------
(* Nothing is counted twice on gost nodes: no reset, no surviving gost.    *)

\* The scenarios GostCountedOnce is about.
Safe == sc.env \cap {"reset", "survive"} = {}

KInv == TypeInv /\ NoResetInv /\ GostInv
IInv == TypeInv /\ (Safe => KInv)

USE DEF Nodes

LEMMA InitGost == Init => NoResetInv /\ GostInv
<1>1. Init => NoResetInv
  BY DEF Init, NoResetInv, AdmIdle
<1>2. ASSUME Init, NEW n \in Gost PROVE CountedInv(n) /\ ReadInv(n) /\ TotalInv(n)
  BY <1>2, NodesAssumption
  DEF Init, CountedInv, ReadInv, TotalInv, InFlight, Earlier, Position, SmpIdle, AdmIdle,
      Stopped, NewRow
<1> QED BY <1>1, <1>2 DEF GostInv

\* The counter part of the invariant survives the end of an engine incarnation.
LEMMA StopKeepsCounts ==
    ASSUME KInv, NEW k \in Nodes,
           engine' = engine \/ engine' = [engine EXCEPT ![k] = Stopped],
           UNCHANGED <<carried, counted, seen, last, smp>>
    PROVE  \A n \in Gost : CountedInv(n)' /\ ReadInv(n)'
<1> SUFFICES ASSUME NEW n \in Gost PROVE CountedInv(n)' /\ ReadInv(n)'
  OBVIOUS
<1> USE DEF CountedInv, ReadInv, InFlight, Earlier, Position, KInv, GostInv
<1>0. /\ engine[n].ctr \in Nat /\ carried[n] \in Nat /\ counted[n] \in Nat /\ last[n] \in Nat
      /\ smp.read[n].ctr \in Nat
  BY DEF TypeInv, TypeOK, Engine, Pass
<1>1. CASE engine'[n] = engine[n]
  BY <1>1
<1>2. CASE engine'[n] = Stopped
  BY <1>0, <1>2 DEF Stopped
<1> QED BY <1>1, <1>2 DEF TypeInv, TypeOK

\* The object part survives LoadNodes.
LEMMA LoadKeepsTotals ==
    ASSUME KInv, LoadNodes, UNCHANGED <<bucket, row, counted, mark, smp>>,
           \/ adm' = adm \/ adm'.node = Nil
           \/ /\ adm.pc \notin {"drop", "dropLoad"}
              /\ adm'.new = adm.new /\ adm'.node = adm.node
    PROVE  \A n \in Gost : TotalInv(n)'
<1> SUFFICES ASSUME NEW n \in Gost PROVE TotalInv(n)'
  OBVIOUS
<1> USE DEF KInv, GostInv, TotalInv
<1>1. counted[n] \in Nat
  BY DEF TypeInv, TypeOK
<1>2. ASSUME NEW r \in Refs PROVE obj'[n][r].total <= counted[n]
  BY <1>1, <1>2 DEF LoadNodes, NewRow
<1>3. smp.node = n => obj'[n][smp.held[n]] = obj[n][smp.held[n]]
  <2> SUFFICES ASSUME smp.node = n PROVE obj'[n][smp.held[n]] = obj[n][smp.held[n]]
    OBVIOUS
  <2>1. smp.held[n] \in Refs /\ smp.held[n] \in InUse(n)
    BY NodesAssumption DEF TypeInv, RefsOK, InUse
  <2>2. PICK fn \in [Nodes -> Refs \cup {Nil}] :
          /\ fn[n] \in IF n \in stored THEN Refs \ InUse(n) ELSE {Nil}
          /\ obj' = [m \in Nodes |-> [r \in Refs |->
                       IF r = fn[m] THEN row[m]
                       ELSE IF r \in InUse(m) THEN obj[m][r] ELSE NewRow]]
    BY DEF LoadNodes
  <2>3. fn[n] # smp.held[n]
    BY <2>1, <2>2, RefsAssumption
  <2> QED BY <2>1, <2>2, <2>3
<1> QED BY <1>2, <1>3, NodesAssumption

LEMMA ReloadGost == ASSUME KInv, Reload PROVE GostInv'
<1>1. UNCHANGED <<engine, carried, counted, seen, last, smp, bucket, row, adm, mark>>
  BY DEF Reload, engines, database, counters
<1>2. LoadNodes
  BY DEF Reload
<1>3. \A n \in Gost : CountedInv(n)' /\ ReadInv(n)'
  BY <1>1 DEF KInv, GostInv, CountedInv, ReadInv, InFlight, Earlier, Position
<1>4. \A n \in Gost : TotalInv(n)'
  BY <1>1, <1>2, LoadKeepsTotals
<1> QED BY <1>3, <1>4 DEF GostInv

LEMMA EngineGost ==
    ASSUME KInv, NEW k \in Nodes, EngineStart(k) \/ Carry(k) \/ EngineExit(k)
    PROVE  GostInv'
<1> USE DEF database, objects, counters
<1>1. \A n \in Gost : CountedInv(n)' /\ ReadInv(n)'
  <2>1. CASE EngineExit(k)
    BY <2>1, StopKeepsCounts DEF EngineExit
  <2>2. CASE EngineStart(k)
    <3> SUFFICES ASSUME NEW n \in Gost PROVE CountedInv(n)' /\ ReadInv(n)'
      OBVIOUS
    <3> USE DEF CountedInv, ReadInv, InFlight, Earlier, Position, KInv, GostInv
    <3>1. /\ engine[n].ctr \in Nat /\ carried[n] \in Nat /\ counted[n] \in Nat /\ last[n] \in Nat
          /\ smp.read[n].ctr \in Nat
      BY DEF TypeInv, TypeOK, Engine, Pass
    <3>2. engine'[n] = engine[n] \/ engine'[n].ctr = 0
      BY <2>2 DEF EngineStart, TypeInv, TypeOK
    <3> QED BY <2>2, <3>1, <3>2 DEF EngineStart
  <2>3. CASE Carry(k)
    <3> SUFFICES ASSUME NEW n \in Gost PROVE CountedInv(n)' /\ ReadInv(n)'
      OBVIOUS
    <3> USE DEF CountedInv, ReadInv, InFlight, Earlier, Position, KInv, GostInv
    <3>1. /\ engine[n].ctr \in Nat /\ carried[n] \in Nat /\ counted[n] \in Nat /\ last[n] \in Nat
          /\ smp.read[n].ctr \in Nat
      BY DEF TypeInv, TypeOK, Engine, Pass
    <3>2. \/ engine'[n].ctr = engine[n].ctr /\ carried'[n] = carried[n]
          \/ engine'[n].ctr = engine[n].ctr + 1 /\ carried'[n] = carried[n] + 1
      BY <2>3 DEF Carry, TypeInv, TypeOK, Engine
    <3>3. UNCHANGED <<counted, last, seen, smp>>
      BY <2>3 DEF Carry
    <3> QED BY <3>1, <3>2, <3>3
  <2> QED BY <2>1, <2>2, <2>3
<1>2. \A n \in Gost : TotalInv(n)'
  BY DEF EngineStart, Carry, EngineExit, TotalInv, KInv, GostInv
<1> QED BY <1>1, <1>2 DEF GostInv

\* One increment: what the new position and the new total amount to.
LEMMA AccountGost ==
    ASSUME Safe, KInv, NEW k \in Nodes, Account(k)
    PROVE  GostInv'
<1> DEFINE cur == smp.read[k].ctr
           inc == Delta(Prev(k), cur)
<1>1. /\ smp.node = Nil /\ k \in smp.todo /\ k # Nil /\ smp.held[k] \in Refs
      /\ smp.pc \in {"gostLoop", "realityLoop"} /\ (k \in Gost => smp.pc = "gostLoop")
  BY NodesAssumption DEF KInv, TypeInv, RefsOK, Account, InLoop
<1>2. /\ engine[k].ctr \in Nat /\ carried[k] \in Nat /\ counted[k] \in Nat /\ last[k] \in Nat
      /\ cur \in Nat /\ Held(k) \in Row
  BY <1>1 DEF KInv, TypeInv, TypeOK, Engine, Pass, Held
<1>3. Prev(k) \in Nat /\ (k \in Gost /\ k \in seen => Prev(k) = last[k])
  BY <1>2, NodesAssumption DEF Prev, Row
<1>4. inc \in Nat /\ (cur >= Prev(k) => inc = cur - Prev(k)) /\ (cur < Prev(k) => inc = 0)
  BY <1>2, <1>3 DEF Delta
<1>5. /\ seen' = seen \cup {k}
      /\ last' = [last EXCEPT ![k] = cur]
      /\ bucket' \in {bucket, [bucket EXCEPT ![k] = @ + inc]}
      /\ counted' = [counted EXCEPT ![k] = @ + inc]
      /\ \/ smp' = [smp EXCEPT !.node = k, !.pend = inc]
         \/ smp' = [smp EXCEPT !.todo = @ \ {k}]
      /\ UNCHANGED <<engine, carried, row, obj, adm, mark>>
  BY DEF Account, engines, objects
<1> HIDE DEF inc
<1>6. ASSUME k \in Gost
      PROVE  /\ counted[k] + inc <= Earlier(k) + cur
             /\ counted[k] + inc <= carried[k]
  <2>1. CountedInv(k) /\ ReadInv(k) /\ InFlight(k)
    BY <1>1, <1>6 DEF KInv, GostInv, InFlight
  <2> QED BY <2>1, <1>2, <1>3, <1>4, <1>6 DEF CountedInv, ReadInv, Earlier, Position
<1>7. ASSUME NEW n \in Gost PROVE CountedInv(n)' /\ ReadInv(n)'
  <2>1. CASE n = k
    <3>1. last'[n] = cur /\ n \in seen' /\ counted'[n] = counted[k] + inc
      BY <1>2, <1>5, <2>1 DEF KInv, TypeInv, TypeOK
    <3>2. ~InFlight(n)'
      <4> USE DEF KInv, TypeInv, TypeOK, Pass
      <4>1. smp'.pc = smp.pc /\ (smp'.node = k \/ smp'.todo = smp.todo \ {k})
        BY <1>5
      <4>2. smp'.pc # "gostNodes"
        BY <1>1, <4>1
      <4> QED BY <2>1, <4>1, <4>2 DEF InFlight
    <3>3. CountedInv(n)
      BY DEF KInv, GostInv
    <3> QED BY <1>2, <1>4, <1>5, <1>6, <2>1, <3>1, <3>2, <3>3
            DEF CountedInv, ReadInv, Earlier, Position
  <2>2. CASE n # k
    <3>1. CountedInv(n) /\ ReadInv(n)
      BY DEF KInv, GostInv
    <3>2. last'[n] = last[n] /\ counted'[n] = counted[n] /\ (n \in seen' <=> n \in seen)
      BY <1>5, <2>2 DEF KInv, TypeInv, TypeOK
    <3>3. InFlight(n)' => InFlight(n)
      <4> USE DEF InFlight, KInv, TypeInv, TypeOK, Pass
      <4>1. smp'.pc = smp.pc /\ smp'.todo \subseteq smp.todo
        BY ZenonT(40), <1>1, <1>5
      <4>2. smp.node # n
        BY <1>1, NodesAssumption
      <4> QED BY <1>1, <4>1, <4>2
    <3>4. smp'.read = smp.read
      BY <1>5 DEF KInv, TypeInv, TypeOK, Pass
    <3> QED BY <1>5, <3>1, <3>2, <3>3, <3>4 DEF CountedInv, ReadInv, Earlier, Position
  <2> QED BY <2>1, <2>2
<1>8. ASSUME NEW n \in Gost PROVE TotalInv(n)'
  <2>1. TotalInv(n)
    BY DEF KInv, GostInv
  <2>2. /\ counted[n] \in Nat /\ bucket[n] \in Nat /\ row[n].total \in Nat
        /\ \A r \in Refs : obj[n][r].total \in Nat
        /\ adm.new.total \in Nat
    BY DEF KInv, TypeInv, TypeOK, Row, Request
  <2>3. \/ n = k /\ counted'[n] = counted[n] + inc /\ bucket'[n] \in {bucket[n], bucket[n] + inc}
        \/ n # k /\ counted'[n] = counted[n] /\ bucket'[n] = bucket[n]
    BY <1>5 DEF KInv, TypeInv, TypeOK
  <2>4. smp'.held = smp.held /\ (smp'.node = n => n = k /\ smp'.pend = inc)
    BY <1>1, <1>5, NodesAssumption DEF KInv, TypeInv, TypeOK, Pass
  <2> QED BY <1>1, <1>4, <1>5, <2>1, <2>2, <2>3, <2>4 DEF TotalInv
<1> QED BY <1>7, <1>8 DEF GostInv

LEMMA SaveGost ==
    ASSUME Safe, KInv, NEW k \in Nodes, Save(k)
    PROVE  GostInv'
<1> DEFINE new == [Held(k) EXCEPT !.total = @ + smp.pend, !.ctr = smp.read[k].ctr,
                                  !.pid = IF k \in Reality THEN smp.read[k].pid ELSE @]
<1>1. smp.node = k /\ k # Nil /\ k \in smp.todo /\ smp.held[k] \in Refs /\ Held(k) \in Row
      /\ smp.pend \in Nat
  BY NodesAssumption DEF Save, KInv, TypeInv, TypeOK, RefsOK, Held, Pass
<1>2. /\ obj' = [obj EXCEPT ![k][smp.held[k]] = new]
      /\ row' \in {row, [row EXCEPT ![k] = new]}
      /\ smp' = [smp EXCEPT !.node = Nil, !.pend = 0, !.todo = @ \ {k}]
      /\ UNCHANGED <<engine, carried, bucket, seen, last, adm, mark, counted>>
  BY DEF Save, Persist, SaveNode, engines, counters
<1>3. new.total = obj[k][smp.held[k]].total + smp.pend
  BY <1>1 DEF Held, Row
<1> HIDE DEF new
<1>4. k \in Gost => new.total <= counted[k]
  BY <1>1, <1>3 DEF KInv, GostInv, TotalInv
<1>5. ASSUME NEW n \in Gost PROVE CountedInv(n)' /\ ReadInv(n)'
  <2>1. InFlight(n)' => InFlight(n)
    BY <1>1, <1>2 DEF InFlight, KInv, TypeInv, TypeOK, Pass
  <2>2. smp'.read = smp.read
    BY <1>2 DEF KInv, TypeInv, TypeOK, Pass
  <2> QED BY <1>2, <2>1, <2>2 DEF KInv, GostInv, CountedInv, ReadInv, Earlier, Position
<1>6. ASSUME NEW n \in Gost PROVE TotalInv(n)'
  <2>1. TotalInv(n)
    BY DEF KInv, GostInv
  <2>2. row'[n].total <= counted[n] /\ \A r \in Refs : obj'[n][r].total <= counted[n]
    BY <1>2, <1>4, <2>1 DEF TotalInv, KInv, TypeInv, TypeOK
  <2>3. smp'.node # n
    BY <1>2, NodesAssumption DEF KInv, TypeInv, TypeOK, Pass
  <2> QED BY <1>2, <2>1, <2>2, <2>3 DEF TotalInv
<1> QED BY <1>5, <1>6 DEF GostInv

LEMMA SamplerGost ==
    ASSUME Safe, KInv, Sampler
    PROVE  GostInv'
<1> USE DEF engines, database, objects, counters
<1>1. CASE SampleServices
  <2>1. smp' = [smp EXCEPT !.pc = "gostNodes", !.read = engine] /\ smp.node = Nil
    BY <1>1, NodesAssumption DEF SampleServices, KInv, TypeInv, RefsOK
  <2>2. smp'.read = engine /\ smp'.node = Nil
    BY <2>1 DEF KInv, TypeInv, TypeOK, Pass
  <2>3. ASSUME NEW n \in Gost PROVE CountedInv(n)' /\ ReadInv(n)'
    <3>1. engine[n].ctr \in Nat /\ carried[n] \in Nat /\ counted[n] \in Nat
      BY DEF KInv, TypeInv, TypeOK, Engine
    <3> QED BY <1>1, <2>2, <3>1
            DEF SampleServices, KInv, GostInv, CountedInv, ReadInv, Earlier, Position
  <2>4. ASSUME NEW n \in Gost PROVE TotalInv(n)'
    BY <1>1, <2>2, NodesAssumption DEF SampleServices, KInv, GostInv, TotalInv
  <2> QED BY <2>3, <2>4 DEF GostInv
<1>2. ASSUME SampleUnreachable \/ SampleNodes \/ SampleStats \/ SampleLoopDone PROVE GostInv'
  <2>1. UNCHANGED <<engine, carried, counted, seen, last, bucket, row, obj, adm, mark>>
    BY <1>2 DEF SampleUnreachable, SampleNodes, SampleStats, SampleLoopDone
  <2>2. /\ smp.node = Nil /\ smp'.node = Nil
        /\ \A n \in Gost : InFlight(n)' => InFlight(n) /\ smp'.read = smp.read
    <3> USE NodesAssumption DEF InFlight, KInv, TypeInv, TypeOK, RefsOK, Pass
    <3>1. CASE SampleUnreachable
      BY <3>1 DEF SampleUnreachable
    <3>2. CASE SampleNodes
      <4>1. smp.node = Nil /\ smp.pc \in {"gostNodes", "realityNodes"}
        BY <3>2 DEF SampleNodes
      <4>2. /\ smp'.node = Nil /\ smp'.read = smp.read
            /\ smp'.pc = IF smp.pc = "gostNodes" THEN "gostLoop" ELSE "realityStats"
        BY <3>2, <4>1 DEF SampleNodes
      <4> QED BY <4>1, <4>2
    <3>3. CASE SampleStats
      BY <3>3 DEF SampleStats
    <3>4. CASE SampleLoopDone
      BY <3>4 DEF SampleLoopDone, SmpIdle
    <3> QED BY <1>2, <3>1, <3>2, <3>3, <3>4
  <2>4. ASSUME NEW n \in Gost PROVE CountedInv(n)' /\ ReadInv(n)'
    BY <2>1, <2>2 DEF KInv, GostInv, CountedInv, ReadInv, Earlier, Position
  <2>5. ASSUME NEW n \in Gost PROVE TotalInv(n)'
    BY <2>1, <2>2, NodesAssumption DEF KInv, GostInv, TotalInv
  <2> QED BY <2>4, <2>5 DEF GostInv
<1>3. ASSUME NEW k \in Nodes, Rebaseline(k) PROVE GostInv'
  <2>1. k \notin Gost /\ smp.node = Nil /\ smp'.node = Nil /\ smp'.pc = smp.pc
        /\ smp.pc = "realityLoop" /\ smp.held[k] \in Refs
    BY <1>3, NodesAssumption DEF Rebaseline, InLoop, KInv, TypeInv, TypeOK, RefsOK, Pass
  <2>2. ASSUME NEW n \in Gost
        PROVE  /\ obj'[n] = obj[n] /\ row'[n] = row[n] /\ last'[n] = last[n]
               /\ (n \in seen' <=> n \in seen)
    BY <1>3, <2>1 DEF Rebaseline, Persist, SaveNode, KInv, TypeInv, TypeOK
  <2>3. ASSUME NEW n \in Gost PROVE CountedInv(n)' /\ ReadInv(n)'
    BY <1>3, <2>1, <2>2 DEF Rebaseline, KInv, GostInv, CountedInv, ReadInv, InFlight, Earlier, Position
  <2>4. ASSUME NEW n \in Gost PROVE TotalInv(n)'
    BY <1>3, <2>1, <2>2, NodesAssumption DEF Rebaseline, KInv, GostInv, TotalInv
  <2> QED BY <2>3, <2>4 DEF GostInv
<1> QED BY <1>1, <1>2, <1>3, AccountGost, SaveGost DEF Sampler

LEMMA UpdateGost == ASSUME KInv, Update PROVE GostInv'
<1> USE DEF engines, database, objects, counters
<1>1. \A n \in Gost : CountedInv(n)' /\ ReadInv(n)'
  <2>1. CASE UpdateApplied \/ UpdateFailed \/ UndoApply
    <3>1. adm.node \in Nodes
      BY <2>1 DEF UpdateApplied, UpdateFailed, UndoApply, KInv, TypeInv, RefsOK
    <3> QED BY <2>1, <3>1, StopKeepsCounts DEF UpdateApplied, UpdateFailed, UndoApply, ApplyNode
  <2>2. CASE \/ \E k \in Nodes : UpdateBuild(k)
             \/ UpdateSave \/ UpdateLoad \/ UpdateStale \/ UndoSave \/ StoreRefuses
    BY <2>2 DEF UpdateBuild, UpdateSave, UpdateLoad, UpdateStale, UndoSave, StoreRefuses, KInv,
       GostInv, CountedInv, ReadInv, InFlight, Earlier, Position
  <2> QED BY <2>1, <2>2 DEF Update
<1>2. ASSUME NEW n \in Gost PROVE TotalInv(n)'
  <2> USE DEF TotalInv, KInv, GostInv
  <2>0. counted[n] \in Nat /\ adm \in Request
    BY DEF TypeInv, TypeOK
  <2>1. ASSUME NEW k \in Nodes, UpdateBuild(k) PROVE TotalInv(n)'
    <3>1. cached[k] \in Refs
      BY <2>1 DEF UpdateBuild, Begin, TypeInv, TypeOK
    <3>2. adm'.node = k /\ adm'.new.total = obj[k][cached[k]].total
      BY <2>1, <2>0 DEF UpdateBuild, Request, NewRow
    <3> QED BY <2>1, <3>1, <3>2 DEF UpdateBuild
  <2>2. CASE UpdateSave
    <3>1. adm'.new = adm.new /\ adm'.node = adm.node
      BY <2>2, <2>0 DEF UpdateSave, Request
    <3>2. row' = [row EXCEPT ![adm.node] = adm.new] /\ adm.pc = "save"
      BY <2>2 DEF UpdateSave, SaveNode
    <3>3. row'[n].total <= counted[n]
      BY <3>2 DEF TypeInv, TypeOK
    <3> QED BY <2>2, <3>1, <3>3 DEF UpdateSave
  <2>3. CASE UpdateLoad
    <3>1. adm'.new = adm.new /\ adm'.node = adm.node /\ adm.pc \notin {"drop", "dropLoad"}
      BY <2>3, <2>0 DEF UpdateLoad, Request
    <3> QED BY <2>3, <3>1, LoadKeepsTotals DEF UpdateLoad
  <2>4. CASE UpdateApplied \/ UndoApply \/ StoreRefuses
    <3>1. adm'.node # n
      BY <2>4, NodesAssumption DEF UpdateApplied, UndoApply, StoreRefuses, AdmIdle
    <3> QED BY <2>4, <3>1 DEF UpdateApplied, UndoApply, StoreRefuses
  <2>5. CASE UpdateFailed \/ UpdateStale
    <3>1. adm'.new = adm.new /\ adm'.node = adm.node /\ adm.pc \notin {"drop", "dropLoad"}
      BY <2>5, <2>0 DEF UpdateFailed, UpdateStale, Request
    <3> QED BY <2>5, <3>1 DEF UpdateFailed, UpdateStale
  <2>6. CASE UndoSave
    <3>1. adm'.new = adm.new /\ adm'.node = adm.node
      BY <2>6, <2>0 DEF UndoSave, Request
    <3>2. row' = [row EXCEPT ![adm.node] = obj[adm.node][adm.ref]] /\ adm.ref \in Refs
      BY <2>6 DEF UndoSave, SaveNode, TypeInv, RefsOK
    <3>3. row'[n].total <= counted[n]
      BY <3>2 DEF TypeInv, TypeOK
    <3> QED BY <2>6, <3>1, <3>3 DEF UndoSave
  <2> QED BY <2>1, <2>2, <2>3, <2>4, <2>5, <2>6 DEF Update
<1> QED BY <1>1, <1>2 DEF GostInv

LEMMA DeleteGost == ASSUME KInv, Delete PROVE GostInv'
<1> USE DEF engines, database, objects, counters
<1>1. \A n \in Gost : CountedInv(n)' /\ ReadInv(n)'
  <2>1. ASSUME NEW k \in Nodes, DeleteRemove(k) PROVE \A n \in Gost : CountedInv(n)' /\ ReadInv(n)'
    BY <2>1, StopKeepsCounts DEF DeleteRemove
  <2>2. CASE DeleteRow \/ DeleteLoad \/ DeleteStale
    BY <2>2 DEF DeleteRow, DeleteLoad, DeleteStale, KInv, GostInv, CountedInv, ReadInv, InFlight, Earlier,
       Position
  <2> QED BY <2>1, <2>2 DEF Delete
<1>2. ASSUME NEW n \in Gost PROVE TotalInv(n)'
  <2> USE DEF TotalInv, KInv, GostInv
  <2>0. counted[n] \in Nat /\ adm \in Request /\ AdmIdle.node = Nil
    BY DEF TypeInv, TypeOK, AdmIdle
  <2>1. ASSUME NEW k \in Nodes, DeleteRemove(k) PROVE TotalInv(n)'
    <3>1. adm'.pc = "drop"
      BY <2>1, <2>0 DEF DeleteRemove, Request
    <3> QED BY <2>1, <3>1 DEF DeleteRemove
  <2>2. CASE DeleteRow
    <3>1. adm'.pc = "dropLoad"
      BY <2>2, <2>0 DEF DeleteRow, Request
    <3>2. row'[n].total <= counted[n] /\ bucket'[n] <= counted[n]
      BY <2>2, <2>0 DEF DeleteRow, TypeInv, TypeOK, NewRow
    <3> QED BY <2>2, <3>1, <3>2 DEF DeleteRow
  <2>3. CASE DeleteLoad
    BY <2>3, <2>0, LoadKeepsTotals DEF DeleteLoad
  <2>4. CASE DeleteStale
    BY <2>4, <2>0, NodesAssumption DEF DeleteStale
  <2> QED BY <2>1, <2>2, <2>3, <2>4 DEF Delete
<1> QED BY <1>1, <1>2 DEF GostInv

LEMMA RestartGost == ASSUME Safe, KInv, PanelRestart PROVE GostInv'
<1> USE DEF KInv, GostInv
<1>0. /\ engine' = [n \in Nodes |-> Stopped]
      /\ seen' = {} /\ smp' = SmpIdle /\ adm' = AdmIdle
      /\ UNCHANGED <<carried, counted, bucket, row, mark>>
  BY DEF PanelRestart, Safe, database
<1>1. ASSUME NEW n \in Gost PROVE CountedInv(n)' /\ ReadInv(n)'
  <2>1. carried[n] \in Nat /\ counted[n] \in Nat /\ counted[n] <= carried[n]
    BY DEF TypeInv, TypeOK, CountedInv
  <2> QED BY <1>0, <2>1 DEF CountedInv, ReadInv, InFlight, Earlier, Position, Stopped, SmpIdle
<1>2. ASSUME NEW n \in Gost PROVE TotalInv(n)'
  <2>1. TotalInv(n) /\ counted[n] \in Nat
    BY DEF TypeInv, TypeOK
  <2>2. ASSUME NEW r \in Refs PROVE obj'[n][r].total <= counted[n]
    BY <2>1, <2>2 DEF PanelRestart, NewRow, TotalInv
  <2> QED BY <1>0, <2>1, <2>2, NodesAssumption DEF TotalInv, SmpIdle, AdmIdle
<1> QED BY <1>1, <1>2 DEF GostInv

LEMMA NoResetStep ==
    ASSUME Safe, KInv, Next
    PROVE  ~Reset /\ NoResetInv'
<1> USE DEF KInv, NoResetInv
<1>1. ~Reset
  BY DEF Reset, ResetZero, Begin, Safe, ResetForget, ResetStats, ResetSave
<1>2. adm \in Request
  BY DEF TypeInv, TypeOK
<1>3. AdmIdle.pc = "idle"
  BY DEF AdmIdle
<1>4. CASE \E n \in Nodes : EngineStart(n) \/ Carry(n) \/ EngineExit(n)
  BY <1>1, <1>4 DEF EngineStart, Carry, EngineExit
<1>5. CASE Sampler
  BY <1>1, <1>5 DEF Sampler, SampleServices, SampleUnreachable, SampleNodes, SampleStats,
     SampleLoopDone, Account, Save, Rebaseline
<1>6. CASE Update
  BY <1>1, <1>2, <1>3, <1>6 DEF Update, UpdateBuild, UpdateSave, UpdateLoad, UpdateStale,
     UpdateApplied, UpdateFailed, UndoSave, UndoApply, StoreRefuses, Request
<1>7. CASE Delete
  BY <1>1, <1>2, <1>3, <1>7 DEF Delete, DeleteRemove, DeleteRow, DeleteLoad, DeleteStale, Request
<1>8. CASE PanelRestart \/ Reload
  BY <1>1, <1>3, <1>8 DEF PanelRestart, Reload
<1> QED BY <1>1, <1>4, <1>5, <1>6, <1>7, <1>8 DEF Next

LEMMA GostStep == ASSUME Safe, KInv, [Next]_vars PROVE KInv'
<1>1. TypeInv'
  BY TypeStep DEF KInv
<1>2. CASE UNCHANGED vars
  <2>1. NoResetInv'
    BY <1>2 DEF vars, KInv, NoResetInv
  <2>2. GostInv'
    BY <1>2 DEF vars, KInv, GostInv, CountedInv, ReadInv, TotalInv, InFlight, Earlier, Position
  <2> QED BY <1>1, <2>1, <2>2 DEF KInv
<1>3. CASE Next
  <2>1. ~Reset /\ NoResetInv'
    BY <1>3, NoResetStep
  <2>2. GostInv'
    BY <1>3, <2>1, EngineGost, ReloadGost, SamplerGost, UpdateGost, DeleteGost, RestartGost
       DEF Next
  <2> QED BY <1>1, <2>1, <2>2 DEF KInv
<1> QED BY <1>2, <1>3

\* No step leaves the scenario.
LEMMA ScenarioStep == ASSUME [Next]_vars PROVE sc' = sc
<1>1. CASE UNCHANGED vars
  BY <1>1 DEF vars
<1>2. CASE Next
  BY <1>2
  DEF Next, EngineStart, Carry, EngineExit, Sampler, SampleServices, SampleUnreachable,
      SampleNodes, SampleStats, SampleLoopDone, Account, Save, Rebaseline, Reload, Update,
      UpdateBuild, UpdateSave, UpdateLoad, UpdateStale, UpdateApplied, UpdateFailed, UndoSave,
      UndoApply, StoreRefuses, Delete, DeleteRemove, DeleteRow, DeleteLoad, DeleteStale,
      Reset, ResetZero, ResetForget, ResetStats, ResetSave, PanelRestart
<1> QED BY <1>1, <1>2

LEMMA GostInvariant == Spec => []IInv
<1>1. Init => IInv
  BY InitTypes, InitGost DEF IInv, KInv
<1>2. ASSUME IInv, [Next]_vars PROVE IInv'
  <2>1. TypeInv'
    BY <1>2, TypeStep DEF IInv
  <2>2. Safe' => Safe
    BY <1>2, ScenarioStep DEF Safe
  <2> QED BY <1>2, <2>1, <2>2, GostStep DEF IInv
<1> QED BY <1>1, <1>2, PTL DEF Spec

\* Nothing that gost carries is counted twice, neither in the hourly points nor in
\* the persisted or the cached total, under restarts of services and panel, edits
\* and deletions that overlap the sampler in any way (sampleOnce, handleUpdateNode,
\* handleDeleteNode).
THEOREM GostCounts == Spec => []GostCountedOnce
<1>1. IInv => GostCountedOnce
  <2> SUFFICES ASSUME KInv, NEW n \in Gost
      PROVE  /\ bucket[n] <= carried[n]
             /\ row[n].total <= carried[n] - mark[n]
             /\ cached[n] # Nil => obj[n][cached[n]].total <= carried[n] - mark[n]
    BY DEF IInv, Safe, GostCountedOnce, TotalsWithin
  <2>1. /\ bucket[n] \in Nat /\ counted[n] \in Nat /\ carried[n] \in Nat /\ row[n].total \in Nat
        /\ cached[n] \in Refs \cup {Nil}
        /\ \A r \in Refs : obj[n][r].total \in Nat
    BY DEF KInv, TypeInv, TypeOK, Row
  <2> QED BY <2>1 DEF KInv, GostInv, CountedInv, TotalInv
<1> QED BY <1>1, GostInvariant, PTL

-----------------------------------------------------------------------------
(* Handlers and passes that take turns: cache and database.                *)

LEMMA InitSerial == Init => NoneTorn /\ SerialInv
<1> SUFFICES ASSUME Init PROVE NoneTorn /\ SerialInv
  OBVIOUS
<1>1. /\ \A n \in Nodes : row[n] = NewRow
      /\ \A n \in Nodes, r \in Refs : obj[n][r] = NewRow
      /\ smp.pc = "idle" /\ smp.todo = {} /\ adm.pc = "idle" /\ torn = {}
  BY DEF Init, SmpIdle, AdmIdle
<1>2. \A n \in Nodes : CacheOK(n)
  BY <1>1 DEF Init, CacheOK
<1> QED BY <1>1, <1>2 DEF NoneTorn, SerialInv, Caching, HandlerOK, UpdateOK, ResetOK

\* LoadNodes makes the cache agree with the rows, and spares the object a handler holds.
LEMMA LoadCaches ==
    ASSUME TypeInv, LoadNodes, row' = row, stored' = stored
    PROVE  /\ \A n \in Nodes : CacheOK(n)'
           /\ adm.node \in Nodes /\ adm.ref \in Refs =>
                 obj'[adm.node][adm.ref] = obj[adm.node][adm.ref]
<1>1. PICK fn \in [Nodes -> Refs \cup {Nil}] :
          /\ \A n \in Nodes : fn[n] \in IF n \in stored THEN Refs \ InUse(n) ELSE {Nil}
          /\ cached' = fn
          /\ obj' = [n \in Nodes |-> [r \in Refs |->
                       IF r = fn[n] THEN row[n]
                       ELSE IF r \in InUse(n) THEN obj[n][r] ELSE NewRow]]
  BY DEF LoadNodes
<1>2. ASSUME NEW n \in Nodes PROVE CacheOK(n)'
  BY <1>1 DEF CacheOK
<1>3. ASSUME adm.node \in Nodes, adm.ref \in Refs
      PROVE  obj'[adm.node][adm.ref] = obj[adm.node][adm.ref]
  <2>1. adm.ref \in InUse(adm.node)
    BY DEF InUse
  <2>2. fn[adm.node] # adm.ref
    BY <1>1, <1>3, <2>1, RefsAssumption
  <2> QED BY <1>1, <1>3, <2>1, <2>2
<1> QED BY <1>2, <1>3

\* While a request is under way no pass is, and the other way round.
LEMMA TakingTurns ==
    ASSUME TypeInv, SerialInv
    PROVE  /\ adm.pc # "idle" => smp.pc = "idle" /\ smp.todo = {} /\ smp.node = Nil
           /\ smp.pc # "idle" => adm.pc = "idle"
           /\ smp.pc = "idle" => smp.todo = {} /\ smp.node = Nil
           /\ adm.pc = "idle" => \A n \in Nodes : CacheOK(n) \/ n \in torn
  BY DEF TypeInv, RefsOK, SerialInv, Caching, Apart

\* A request that ends leaves nothing but its own node, torn, out of step.
LEMMA EndsSerial ==
    ASSUME adm'.pc = "idle", smp'.todo = {},
           \A n \in Nodes : CacheOK(n)' \/ n \in torn'
    PROVE  SerialInv'
  BY DEF SerialInv, Caching, HandlerOK, UpdateOK, ResetOK

LEMMA EngineSerial ==
    ASSUME SerialInv, NEW k \in Nodes, EngineStart(k) \/ Carry(k) \/ EngineExit(k)
    PROVE  SerialInv'
<1>1. UNCHANGED <<stored, row, obj, cached, torn, smp, adm>>
  BY DEF EngineStart, Carry, EngineExit, database, objects
<1> QED BY <1>1 DEF SerialInv, Caching, CacheOK, HandlerOK, UpdateOK, ResetOK

LEMMA ReloadSerial == ASSUME TypeInv, Serial, SerialInv, Reload PROVE SerialInv'
<1>1. /\ adm.pc = "idle" /\ adm' = adm /\ smp' = smp /\ smp.pc = "idle"
      /\ LoadNodes /\ row' = row /\ stored' = stored
  BY DEF Reload, MayOverlap, Serial, database
<1>2. smp'.todo = {}
  BY <1>1, TakingTurns
<1>3. \A n \in Nodes : CacheOK(n)'
  BY <1>1, LoadCaches
<1> QED BY <1>1, <1>2, <1>3, EndsSerial

\* A pass saves the object the cache holds, or the store refuses it.
LEMMA PassSaves ==
    ASSUME TypeInv, SerialInv, NEW k \in Nodes, k \in smp.todo, NEW new \in Row,
           obj' = [obj EXCEPT ![k][smp.held[k]] = new], Persist(k, new),
           UNCHANGED <<cached, adm>>,
           smp'.pc = smp.pc, smp'.held = smp.held, smp'.todo \subseteq smp.todo
    PROVE  SerialInv' /\ (Held(k) = row[k] \/ k \in torn)
<1>1. /\ adm.pc = "idle" /\ smp.held[k] = cached[k] /\ smp.held[k] \in Refs
      /\ \A n \in Nodes : CacheOK(n) \/ n \in torn
  <2>1. smp.pc # "idle"
    BY DEF TypeInv, RefsOK
  <2> QED BY <2>1, TakingTurns DEF TypeInv, RefsOK, SerialInv, Caching
<1>2. Held(k) = row[k] \/ k \in torn
  BY <1>1, RefsAssumption DEF Held, CacheOK
<1>3. /\ \/ row' = [row EXCEPT ![k] = new] /\ stored' = stored \cup {k} /\ k \notin torn'
         \/ row' = row /\ stored' = stored /\ k \in torn'
      /\ \A m \in Nodes \ {k} : m \in torn' <=> m \in torn
  BY Persisted
<1>4. ASSUME NEW n \in Nodes PROVE CacheOK(n)' \/ n \in torn'
  <2>1. CASE n = k
    <3>1. obj'[n][cached[n]] = new
      BY <1>1, <2>1 DEF TypeInv, TypeOK
    <3>2. k \in torn' \/ (row'[n] = new /\ n \in stored')
      BY <1>3, <2>1 DEF TypeInv, TypeOK
    <3> QED BY <1>1, <2>1, <3>1, <3>2 DEF CacheOK
  <2>2. CASE n # k
    <3>1. row'[n] = row[n] /\ obj'[n] = obj[n] /\ (n \in stored' <=> n \in stored)
      BY <1>3, <2>2 DEF TypeInv, TypeOK
    <3>2. n \in torn' <=> n \in torn
      BY <1>3, <2>2
    <3> QED BY <1>1, <3>1, <3>2 DEF CacheOK
  <2> QED BY <2>1, <2>2
<1>5. Caching'
  BY <1>1, <1>4 DEF Caching, SerialInv
<1>6. HandlerOK'
  BY <1>1 DEF HandlerOK, UpdateOK, ResetOK
<1> QED BY <1>2, <1>5, <1>6 DEF SerialInv

\* What the two saving steps of a pass write.
LEMMA PassWrites ==
    ASSUME TypeInv, NEW k \in Nodes, Save(k) \/ Rebaseline(k)
    PROVE  \E new \in Row :
              /\ k \in smp.todo /\ new.total >= Held(k).total
              /\ obj' = [obj EXCEPT ![k][smp.held[k]] = new] /\ Persist(k, new)
              /\ UNCHANGED <<cached, adm>>
              /\ smp'.pc = smp.pc /\ smp'.held = smp.held /\ smp'.todo \subseteq smp.todo
<1>0. smp \in Pass
  BY DEF TypeInv, TypeOK
<1>1. CASE Save(k)
  <2> DEFINE new == [Held(k) EXCEPT !.total = @ + smp.pend, !.ctr = smp.read[k].ctr,
                                    !.pid = IF k \in Reality THEN smp.read[k].pid ELSE @]
  <2>1. /\ smp.held[k] \in Refs /\ Held(k) \in Row /\ smp.read[k] \in Engine /\ smp.pend \in Nat
        /\ k \in smp.todo
    BY <1>1, NodesAssumption DEF Save, Held, Pass, TypeInv, TypeOK, RefsOK
  <2>2. /\ Held(k).total + smp.pend \in Nat /\ smp.read[k].ctr \in Nat
        /\ (IF k \in Reality THEN smp.read[k].pid ELSE Held(k).pid) \in Nat \cup {NeedsBaseline}
    BY <2>1 DEF Row, Engine
  <2>3. new \in Row /\ new.total = Held(k).total + smp.pend
    BY <2>1, <2>2 DEF Row
  <2>4. /\ obj' = [obj EXCEPT ![k][smp.held[k]] = new] /\ Persist(k, new)
        /\ smp' = [smp EXCEPT !.node = Nil, !.pend = 0, !.todo = @ \ {k}]
        /\ UNCHANGED <<cached, adm>>
    BY <1>1 DEF Save
  <2>5. new.total >= Held(k).total
    BY <2>1, <2>3 DEF Row
  <2>6. smp'.pc = smp.pc /\ smp'.held = smp.held /\ smp'.todo \subseteq smp.todo
    BY <1>0, <2>4 DEF Pass
  <2> HIDE DEF new
  <2> QED BY <2>1, <2>3, <2>4, <2>5, <2>6
<1>2. CASE Rebaseline(k)
  <2> DEFINE new == [Held(k) EXCEPT !.ctr = smp.read[k].ctr, !.pid = smp.read[k].pid]
  <2>1. /\ smp.held[k] \in Refs /\ Held(k) \in Row /\ smp.read[k] \in Engine
        /\ k \in smp.todo
    BY <1>2 DEF Rebaseline, InLoop, Held, Pass, TypeInv, TypeOK, RefsOK
  <2>2. new \in Row /\ new.total = Held(k).total
    BY <2>1 DEF Row, Engine
  <2>3. /\ obj' = [obj EXCEPT ![k][smp.held[k]] = new] /\ Persist(k, new)
        /\ smp' = [smp EXCEPT !.todo = @ \ {k}]
        /\ UNCHANGED <<cached, adm>>
    BY <1>2 DEF Rebaseline
  <2>4. new.total >= Held(k).total
    BY <2>1, <2>2 DEF Row
  <2>5. smp'.pc = smp.pc /\ smp'.held = smp.held /\ smp'.todo \subseteq smp.todo
    BY <1>0, <2>3 DEF Pass
  <2> HIDE DEF new
  <2> QED BY <2>1, <2>2, <2>3, <2>4, <2>5
<1> QED BY <1>1, <1>2

LEMMA SamplerSerial ==
    ASSUME TypeInv, Serial, SerialInv, Sampler
    PROVE  SerialInv'
<1>0. smp \in Pass
  BY DEF TypeInv, TypeOK
<1>1. ASSUME adm.pc = "idle", adm' = adm, \A n \in smp'.todo : smp'.held[n] = cached[n],
             UNCHANGED <<stored, row, obj, cached, torn>>
      PROVE  SerialInv'
  <2>1. \A n \in Nodes : CacheOK(n)' \/ n \in torn'
    BY <1>1, TakingTurns DEF CacheOK
  <2> QED BY <1>1, <2>1 DEF SerialInv, Caching, HandlerOK, UpdateOK, ResetOK
<1>2. CASE SampleServices \/ SampleUnreachable
  <2>1. /\ adm.pc = "idle" /\ smp.todo = {} /\ smp'.todo = smp.todo
        /\ UNCHANGED <<stored, row, obj, cached, torn, adm>>
    BY <1>0, <1>2, TakingTurns DEF SampleServices, SampleUnreachable, MayOverlap, Serial, database,
         objects, Pass
  <2> QED BY <1>1, <2>1
<1>3. CASE SampleNodes
  <2> DEFINE mine == IF smp.pc = "gostNodes" THEN Gost ELSE Reality
             listed == {n \in mine : cached[n] # Nil}
  <2>1. adm.pc = "idle"
    BY <1>3, TakingTurns DEF SampleNodes
  <2>2. /\ smp'.todo = listed
        /\ smp'.held = [n \in Nodes |-> IF n \in listed THEN cached[n] ELSE Nil]
        /\ UNCHANGED <<stored, row, obj, cached, torn, adm>>
    BY <1>0, <1>3 DEF SampleNodes, Pass, database, objects
  <2>3. \A n \in listed : n \in Nodes
    OBVIOUS
  <2> HIDE DEF listed
  <2> QED BY <1>1, <2>1, <2>2, <2>3
<1>4. CASE SampleStats
  <2>1. /\ adm.pc = "idle" /\ smp'.todo = smp.todo /\ smp'.held = smp.held
        /\ UNCHANGED <<stored, row, obj, cached, torn, adm>>
    BY <1>0, <1>4, TakingTurns DEF SampleStats, database, objects, Pass
  <2> QED BY <1>1, <2>1 DEF SerialInv, Caching
<1>5. CASE SampleLoopDone
  <2>1. /\ adm.pc = "idle" /\ smp'.todo = {}
        /\ UNCHANGED <<stored, row, obj, cached, torn, adm>>
    BY <1>0, <1>5, TakingTurns DEF SampleLoopDone, database, objects, SmpIdle
  <2> QED BY <1>1, <2>1
<1>6. ASSUME NEW n \in Nodes, Account(n) PROVE SerialInv'
  <2>1. adm.pc = "idle" /\ UNCHANGED <<stored, row, obj, cached, torn, adm>>
    BY <1>6, TakingTurns DEF Account, InLoop, objects
  <2>2. smp'.held = smp.held /\ smp'.todo \subseteq smp.todo
    BY <1>0, <1>6 DEF Account, Pass
  <2> QED BY <1>1, <2>1, <2>2 DEF SerialInv, Caching
<1>7. ASSUME NEW n \in Nodes, Save(n) \/ Rebaseline(n) PROVE SerialInv'
  BY <1>7, PassWrites, PassSaves
<1> QED BY <1>2, <1>3, <1>4, <1>5, <1>6, <1>7 DEF Sampler

LEMMA UpdateSerial ==
    ASSUME TypeInv, Serial, SerialInv, Update
    PROVE  SerialInv'
<1>0. /\ adm \in Request /\ SerialInv /\ row \in [Nodes -> Row] /\ obj \in [Nodes -> [Refs -> Row]]
      /\ torn \subseteq Nodes
  BY DEF TypeInv, TypeOK
<1>1. ASSUME NEW k \in Nodes, UpdateBuild(k) PROVE SerialInv'
  <2>1. /\ adm.pc = "idle" /\ smp.pc = "idle" /\ smp.todo = {} /\ cached[k] \in Refs
        /\ UNCHANGED <<stored, row, obj, cached, torn, smp>>
    BY <1>1, TakingTurns
       DEF UpdateBuild, Begin, MayOverlap, Serial, database, objects, TypeInv, TypeOK
  <2>2. \A n \in Nodes : CacheOK(n) \/ n \in torn
    BY <2>1, TakingTurns
  <2>3. /\ adm'.pc = "save" /\ adm'.node = k /\ adm'.ref = cached[k]
        /\ adm'.new.total = obj[k][cached[k]].total
    BY <1>0, <1>1, <2>1 DEF UpdateBuild, Request, NewRow
  <2>4. HandlerOK'
    BY <2>1, <2>3 DEF HandlerOK, UpdateOK, ResetOK
  <2>5. Caching'
    BY <2>1, <2>2 DEF Caching, CacheOK
  <2> QED BY <2>4, <2>5 DEF SerialInv
<1>a. PICK k : k = adm.node
  OBVIOUS
<1>b. PICK r : r = adm.ref
  OBVIOUS
<1>2. ASSUME adm.pc \notin {"idle", "drop", "dropLoad"}
      PROVE  /\ smp.pc = "idle" /\ smp.todo = {} /\ k \in Nodes /\ r \in Refs /\ UpdateOK(k, r)
             /\ \A n \in Nodes \ {k} : CacheOK(n) \/ n \in torn
             /\ adm.pc \notin Apart => \A n \in Nodes : CacheOK(n) \/ n \in torn
  BY <1>a, <1>b, <1>2, TakingTurns DEF TypeInv, RefsOK, SerialInv, HandlerOK, Caching
<1>3. CASE UpdateSave
  <2>1. /\ adm.pc = "save" /\ row' = [row EXCEPT ![k] = adm.new] /\ stored' = stored \cup {k}
        /\ adm' = [adm EXCEPT !.pc = "load"]
        /\ UNCHANGED <<obj, cached, torn, smp>>
    BY <1>a, <1>3 DEF UpdateSave, SaveNode, objects
  <2>2. /\ adm'.pc = "load" /\ adm'.node = k /\ adm'.ref = r /\ adm'.new = adm.new
    BY <1>a, <1>b, <1>0, <2>1 DEF Request
  <2>3. row'[k] = adm.new
    BY <1>0, <1>2, <2>1
  <2>4. HandlerOK'
    BY <1>2, <2>1, <2>2, <2>3 DEF HandlerOK, UpdateOK, ResetOK
  <2>5. \A n \in Nodes \ {k} : CacheOK(n)' \/ n \in torn'
    BY <1>0, <1>2, <2>1 DEF CacheOK
  <2>6. Caching'
    BY <1>2, <2>1, <2>2, <2>5 DEF Caching, Apart
  <2> QED BY <2>4, <2>6 DEF SerialInv
<1>4. CASE UpdateLoad
  <2>1. /\ adm.pc \in {"load", "undoLoad"} /\ LoadNodes /\ UNCHANGED <<stored, row, smp>>
        /\ adm' = [adm EXCEPT !.pc = IF adm.pc = "load" THEN "apply" ELSE "undoApply"]
    BY <1>4 DEF UpdateLoad, database
  <2>2. /\ adm'.pc = IF adm.pc = "load" THEN "apply" ELSE "undoApply"
        /\ adm'.node = k /\ adm'.ref = r /\ adm'.new = adm.new
    BY <1>a, <1>b, <1>0, <2>1 DEF Request
  <2>3. (\A n \in Nodes : CacheOK(n)') /\ obj'[k][r] = obj[k][r]
    BY <1>a, <1>b, <1>2, <2>1, LoadCaches
  <2>4. HandlerOK'
    BY <1>2, <2>1, <2>2, <2>3 DEF HandlerOK, UpdateOK, ResetOK
  <2>5. Caching'
    BY <1>2, <2>1, <2>3 DEF Caching
  <2> QED BY <2>4, <2>5 DEF SerialInv
<1>5. CASE UpdateStale
  <2>1. /\ adm.pc \in {"load", "undoLoad"} /\ UNCHANGED <<stored, row, obj, cached, smp>>
        /\ torn' = torn \cup {k}
        /\ adm' = [adm EXCEPT !.pc = IF adm.pc = "load" THEN "apply" ELSE "undoApply"]
    BY <1>a, <1>5 DEF UpdateStale, database
  <2>2. /\ adm'.pc = IF adm.pc = "load" THEN "apply" ELSE "undoApply"
        /\ adm'.node = k /\ adm'.ref = r /\ adm'.new = adm.new
    BY <1>a, <1>b, <1>0, <2>1 DEF Request
  <2>3. \A n \in Nodes : CacheOK(n)' \/ n \in torn'
    BY <1>2, <2>1 DEF CacheOK
  <2>4. HandlerOK'
    BY <1>2, <2>1, <2>2 DEF HandlerOK, UpdateOK, ResetOK
  <2>5. Caching'
    BY <1>2, <2>1, <2>3 DEF Caching
  <2> QED BY <2>4, <2>5 DEF SerialInv
<1>6. CASE UpdateFailed
  <2>1. /\ adm.pc = "apply" /\ UNCHANGED <<stored, row, obj, cached, torn, smp>>
        /\ adm' = [adm EXCEPT !.pc = "undoSave"]
    BY <1>6 DEF UpdateFailed, database, objects
  <2>2. adm'.pc = "undoSave" /\ adm'.node = k /\ adm'.ref = r /\ adm'.new = adm.new
    BY <1>a, <1>b, <1>0, <2>1 DEF Request
  <2>3. \A n \in Nodes : CacheOK(n) \/ n \in torn
    BY <1>2, <2>1 DEF Apart
  <2>4. HandlerOK'
    BY <1>2, <2>1, <2>2 DEF HandlerOK, UpdateOK, ResetOK
  <2>5. Caching'
    BY <1>2, <2>1, <2>3 DEF Caching, CacheOK
  <2> QED BY <2>4, <2>5 DEF SerialInv
<1>7. CASE UndoSave
  <2>1. /\ adm.pc = "undoSave" /\ row' = [row EXCEPT ![k] = obj[k][r]] /\ stored' = stored \cup {k}
        /\ adm' = [adm EXCEPT !.pc = "undoLoad"]
        /\ UNCHANGED <<obj, cached, torn, smp>>
    BY <1>a, <1>b, <1>7 DEF UndoSave, SaveNode, objects
  <2>2. adm'.pc = "undoLoad" /\ adm'.node = k /\ adm'.ref = r
    BY <1>a, <1>b, <1>0, <2>1 DEF Request
  <2>3. HandlerOK'
    BY <2>2 DEF HandlerOK, UpdateOK, ResetOK
  <2>4. \A n \in Nodes \ {k} : CacheOK(n)' \/ n \in torn'
    BY <1>0, <1>2, <2>1 DEF CacheOK
  <2>5. Caching'
    BY <1>2, <2>1, <2>2, <2>4 DEF Caching, Apart
  <2> QED BY <2>3, <2>5 DEF SerialInv
<1>8. CASE UpdateApplied \/ UndoApply \/ StoreRefuses
  <2>1. /\ adm.pc \in {"apply", "undoApply", "save", "undoSave", "drop"}
        /\ UNCHANGED <<stored, row, obj, cached, torn, smp>> /\ adm'.pc = "idle"
    BY <1>8 DEF UpdateApplied, UndoApply, StoreRefuses, database, objects, AdmIdle
  <2>2. \A n \in Nodes : CacheOK(n) \/ n \in torn
    BY <2>1 DEF SerialInv, Caching, Apart
  <2>3. \A n \in Nodes : CacheOK(n)' \/ n \in torn'
    BY <2>1, <2>2 DEF CacheOK
  <2>4. smp'.todo = {}
    BY <2>1, TakingTurns
  <2> QED BY <2>1, <2>3, <2>4, EndsSerial
<1> QED BY <1>1, <1>3, <1>4, <1>5, <1>6, <1>7, <1>8 DEF Update

LEMMA DeleteSerial ==
    ASSUME TypeInv, Serial, SerialInv, Delete
    PROVE  SerialInv'
<1>0. adm \in Request /\ row \in [Nodes -> Row] /\ torn \subseteq Nodes
  BY DEF TypeInv, TypeOK
<1>1. ASSUME NEW k \in Nodes, DeleteRemove(k) PROVE SerialInv'
  <2>1. /\ adm.pc = "idle" /\ smp.todo = {}
        /\ UNCHANGED <<stored, row, obj, cached, torn, smp>>
        /\ adm' = [adm EXCEPT !.pc = "drop", !.node = k]
    BY <1>1, TakingTurns
       DEF DeleteRemove, Begin, MayOverlap, Serial, database, objects
  <2>2. adm'.pc = "drop" /\ smp.pc = "idle"
    BY <1>0, <1>1, <2>1 DEF Request, DeleteRemove, Begin, MayOverlap, Serial
  <2>3. \A n \in Nodes : CacheOK(n) \/ n \in torn
    BY <2>1, TakingTurns
  <2>4. Caching'
    BY <2>1, <2>2, <2>3 DEF Caching, CacheOK
  <2> QED BY <2>2, <2>4 DEF SerialInv, HandlerOK, UpdateOK, ResetOK
<1>a. PICK k : k = adm.node
  OBVIOUS
<1>b. ASSUME adm.pc \in {"drop", "dropLoad"}
      PROVE  /\ k \in Nodes /\ smp.pc = "idle" /\ smp.todo = {}
             /\ \A n \in Nodes \ {k} : CacheOK(n) \/ n \in torn
  BY <1>a, <1>b, TakingTurns DEF TypeInv, RefsOK, SerialInv, Caching
<1>2. CASE DeleteRow
  <2>1. /\ adm.pc = "drop"
        /\ stored' = stored \ {k} /\ row' = [row EXCEPT ![k] = NewRow]
        /\ adm' = [adm EXCEPT !.pc = "dropLoad"]
        /\ UNCHANGED <<obj, cached, torn, smp>>
    BY <1>a, <1>2 DEF DeleteRow, objects
  <2>2. adm'.pc = "dropLoad" /\ adm'.node = k
    BY <1>a, <1>0, <2>1 DEF Request
  <2>3. \A n \in Nodes \ {k} : CacheOK(n)' \/ n \in torn'
    BY <1>0, <1>b, <2>1 DEF CacheOK
  <2>4. Caching'
    BY <1>b, <2>1, <2>2, <2>3 DEF Caching, Apart
  <2> QED BY <2>2, <2>4 DEF SerialInv, HandlerOK, UpdateOK, ResetOK
<1>3. CASE DeleteLoad
  <2>1. /\ adm.pc = "dropLoad" /\ LoadNodes /\ adm'.pc = "idle"
        /\ UNCHANGED <<stored, row, smp>>
    BY <1>3 DEF DeleteLoad, database, AdmIdle
  <2>2. \A n \in Nodes : CacheOK(n)'
    BY <2>1, LoadCaches
  <2> QED BY <1>b, <2>1, <2>2, EndsSerial
<1>4. CASE DeleteStale
  <2>1. /\ adm.pc = "dropLoad" /\ torn' = torn \cup {k} /\ adm'.pc = "idle"
        /\ UNCHANGED <<stored, row, obj, cached, smp>>
    BY <1>a, <1>4 DEF DeleteStale, database, AdmIdle
  <2>2. \A n \in Nodes : CacheOK(n)' \/ n \in torn'
    BY <1>b, <2>1 DEF CacheOK
  <2> QED BY <1>b, <2>1, <2>2, EndsSerial
<1> QED BY <1>1, <1>2, <1>3, <1>4 DEF Delete

LEMMA ResetSerial ==
    ASSUME TypeInv, Serial, SerialInv, Reset
    PROVE  SerialInv'
<1>0. /\ adm \in Request /\ row \in [Nodes -> Row] /\ obj \in [Nodes -> [Refs -> Row]]
      /\ cached \in [Nodes -> Refs \cup {Nil}]
  BY DEF TypeInv, TypeOK
<1>1. ASSUME NEW k \in Nodes, ResetZero(k) PROVE SerialInv'
  <2>1. /\ adm.pc = "idle" /\ smp.pc = "idle" /\ smp.todo = {} /\ cached[k] \in Refs
        /\ obj' = [obj EXCEPT ![k][cached[k]].total = 0]
        /\ adm' = [adm EXCEPT !.pc = "lock", !.node = k, !.ref = cached[k], !.mark = carried[k]]
        /\ UNCHANGED <<stored, row, cached, torn, smp>>
    BY <1>0, <1>1, TakingTurns DEF ResetZero, Begin, MayOverlap, Serial, database
  <2>2. adm'.pc = "lock" /\ adm'.node = k /\ adm'.ref = cached[k]
    BY <1>0, <2>1 DEF Request
  <2>3. (\A n \in Nodes : CacheOK(n) \/ n \in torn) /\ (k \in stored \/ k \in torn)
    BY <2>1, TakingTurns, RefsAssumption DEF CacheOK
  <2>4. \A n \in Nodes \ {k} : CacheOK(n)' \/ n \in torn'
    BY <1>0, <2>1, <2>3 DEF CacheOK
  <2>5. Caching'
    BY <2>1, <2>2, <2>4 DEF Caching, Apart
  <2> QED BY <2>1, <2>2, <2>3, <2>5 DEF SerialInv, HandlerOK, UpdateOK, ResetOK
<1>a. PICK k : k = adm.node
  OBVIOUS
<1>b. PICK r : r = adm.ref
  OBVIOUS
<1>2. ASSUME adm.pc \in {"lock", "baseline", "saveReset"}
      PROVE  /\ smp.pc = "idle" /\ smp.todo = {} /\ k \in Nodes /\ r \in Refs
             /\ r = cached[k] /\ (k \in stored \/ k \in torn)
             /\ \A n \in Nodes \ {k} : CacheOK(n) \/ n \in torn
  BY <1>a, <1>b, <1>2, TakingTurns DEF TypeInv, RefsOK, SerialInv, HandlerOK, Caching, ResetOK
<1>3. CASE ResetForget \/ ResetStats
  <2>1. /\ adm.pc \in {"lock", "baseline"} /\ UNCHANGED <<stored, row, obj, cached, torn, smp>>
    BY <1>3 DEF ResetForget, ResetStats, database, objects
  <2>2. adm'.pc \in {"baseline", "saveReset"} /\ adm'.node = k /\ adm'.ref = r
    BY <1>a, <1>b, <1>0, <1>3 DEF ResetForget, ResetStats, Request
  <2>3. Caching'
    BY <1>2, <2>1, <2>2 DEF Caching, CacheOK, Apart
  <2> QED BY <1>2, <2>1, <2>2, <2>3 DEF SerialInv, HandlerOK, UpdateOK, ResetOK
<1>4. CASE ResetSave
  <2> DEFINE new == ResetBaseline
  <2>1. /\ adm.pc = "saveReset" /\ obj' = [obj EXCEPT ![k][r] = new] /\ Persist(k, new)
        /\ adm'.pc = "idle" /\ UNCHANGED <<cached, smp>>
    BY <1>a, <1>b, <1>4 DEF ResetSave, AdmIdle
  <2>2. new \in Row
    <3>1. obj[k][r] \in Row /\ adm.stat.ctr \in Nat /\ adm.stat.pid \in Nat
      BY <1>0, <1>2, <2>1 DEF Request, Engine
    <3> QED BY <1>a, <1>b, <3>1 DEF ResetBaseline, Row, NeedsBaseline
  <2> HIDE DEF new
  <2>3. /\ \/ row' = [row EXCEPT ![k] = new] /\ stored' = stored \cup {k} /\ k \notin torn'
           \/ row' = row /\ stored' = stored /\ k \in torn'
        /\ \A m \in Nodes \ {k} : m \in torn' <=> m \in torn
    BY <1>2, <2>1, <2>2, Persisted
  <2>4. \A n \in Nodes \ {k} : CacheOK(n)' \/ n \in torn'
    <3> SUFFICES ASSUME NEW n \in Nodes \ {k} PROVE CacheOK(n)' \/ n \in torn'
      OBVIOUS
    <3>1. row'[n] = row[n] /\ obj'[n] = obj[n] /\ (n \in stored' <=> n \in stored)
      BY <1>0, <2>1, <2>3
    <3> QED BY <1>2, <2>1, <2>3, <3>1 DEF CacheOK
  <2>5. CacheOK(k)' \/ k \in torn'
    <3>1. obj'[k][cached[k]] = new
      BY <1>0, <1>2, <2>1
    <3> QED BY <1>0, <1>2, <2>1, <2>3, <3>1 DEF CacheOK
  <2> QED BY <1>2, <2>1, <2>4, <2>5, EndsSerial
<1> QED BY <1>1, <1>3, <1>4 DEF Reset

LEMMA RestartSerial ==
    ASSUME TypeInv, SerialInv, PanelRestart
    PROVE  SerialInv'
<1>1. PICK fn \in [Nodes -> Refs \cup {Nil}] :
          /\ \A n \in Nodes : fn[n] \in IF n \in stored THEN Refs ELSE {Nil}
          /\ cached' = fn
          /\ obj' = [n \in Nodes |-> [r \in Refs |-> IF r = fn[n] THEN row[n] ELSE NewRow]]
  BY DEF PanelRestart
<1>2. UNCHANGED <<stored, row>> /\ smp'.todo = {} /\ adm'.pc = "idle"
  BY DEF PanelRestart, database, SmpIdle, AdmIdle
<1>3. \A n \in Nodes : CacheOK(n)'
  BY <1>1, <1>2 DEF CacheOK
<1> QED BY <1>2, <1>3, EndsSerial

LEMMA StepSerial ==
    ASSUME TypeInv, Serial, SerialInv, [Next]_vars
    PROVE  SerialInv'
<1>1. CASE UNCHANGED vars
  BY <1>1 DEF vars, SerialInv, Caching, CacheOK, HandlerOK, UpdateOK, ResetOK
<1> QED BY <1>1, EngineSerial, ReloadSerial, SamplerSerial, UpdateSerial, DeleteSerial,
        ResetSerial, RestartSerial DEF Next

LEMMA TornStep == NoneTorn /\ [Next]_vars => NoneTorn'
<1> SUFFICES ASSUME NoneTorn, [Next]_vars PROVE NoneTorn'
  OBVIOUS
<1> USE DEF NoneTorn
<1>1. sc' = sc
  BY ScenarioStep
<1>2. ASSUME NEW n \in Nodes, NEW new, Persist(n, new) PROVE NoneTorn'
  BY <1>1, <1>2 DEF Persist
<1>3. CASE Sampler
  <2>1. ASSUME NEW n \in Nodes, Save(n) \/ Rebaseline(n) PROVE NoneTorn'
    BY <1>2, <2>1 DEF Save, Rebaseline
  <2>2. ASSUME NEW n \in Nodes, Account(n) PROVE torn' = torn
    BY <2>2 DEF Account, objects
  <2>3. ASSUME SampleServices \/ SampleUnreachable \/ SampleNodes \/ SampleStats \/ SampleLoopDone
        PROVE  torn' = torn
    BY <2>3 DEF SampleServices, SampleUnreachable, SampleNodes, SampleStats, SampleLoopDone, objects
  <2> QED BY <1>1, <1>3, <2>1, <2>2, <2>3 DEF Sampler
<1>4. CASE Update
  BY <1>1, <1>4 DEF Update, UpdateBuild, UpdateSave, UpdateLoad, UpdateStale, UpdateApplied,
     UpdateFailed, UndoSave, UndoApply, StoreRefuses, objects
<1>5. CASE Delete
  BY <1>1, <1>5 DEF Delete, DeleteRemove, DeleteRow, DeleteLoad, DeleteStale, objects
<1>6. CASE Reset
  <2>1. CASE ResetSave
    BY <1>1, <2>1 DEF ResetSave, Persist
  <2> QED BY <1>1, <1>6, <2>1 DEF Reset, ResetZero, ResetForget, ResetStats, objects
<1>7. CASE Reload \/ PanelRestart \/ UNCHANGED vars
  BY <1>1, <1>7 DEF Reload, PanelRestart, vars
<1>8. CASE \E n \in Nodes : EngineStart(n) \/ Carry(n) \/ EngineExit(n)
  BY <1>1, <1>8 DEF EngineStart, Carry, EngineExit, objects
<1> QED BY <1>3, <1>4, <1>5, <1>6, <1>7, <1>8 DEF Next

LEMMA SerialInvariant == Spec => [](TypeInv /\ NoneTorn /\ (Serial => SerialInv))
<1>1. Init => TypeInv /\ NoneTorn /\ (Serial => SerialInv)
  BY InitTypes, InitSerial
<1>2. TypeInv /\ NoneTorn /\ (Serial => SerialInv) /\ [Next]_vars
        => (TypeInv /\ NoneTorn /\ (Serial => SerialInv))'
  BY TypeStep, TornStep, StepSerial, ScenarioStep DEF Serial
<1> QED BY <1>1, <1>2, PTL DEF Spec

\* When handlers and passes take turns: whenever neither is at work on a node, the
\* object in the cache equals the row, and a node is in both or in neither, unless the
\* store refused a call for the node and neither a save nor LoadNodes has followed. The
\* paths on which a call fails are in it: the failed SaveNode of a pass or of a reset,
\* the failed save, undo or deletion of a request, the failed LoadNodes after it.
THEOREM CacheMatchesStoreHolds == Spec => []CacheMatchesStore
<1>1. TypeInv /\ (Serial => SerialInv) => CacheMatchesStore
  <2> SUFFICES ASSUME SerialInv, NEW n \in Nodes, Settled(n), n \notin torn
               PROVE  IF n \in stored THEN cached[n] # Nil /\ obj[n][cached[n]] = row[n]
                                      ELSE cached[n] = Nil
    BY DEF CacheMatchesStore
  <2>1. CacheOK(n)
    BY DEF SerialInv, Caching, Settled
  <2> QED BY <2>1, RefsAssumption DEF CacheOK
<1> QED BY <1>1, SerialInvariant, PTL

\* Whose step lowers a total.
LEMMA TotalStep ==
    ASSUME TypeInv, Serial, SerialInv, [Next]_vars, NEW n \in Nodes, row'[n].total < row[n].total
    PROVE  (adm.node = n /\ adm.pc \in {"saveReset", "drop"}) \/ n \in torn
<1> SUFFICES ASSUME n \notin torn PROVE adm.node = n /\ adm.pc \in {"saveReset", "drop"}
  OBVIOUS
<1>0. /\ adm \in Request /\ row \in [Nodes -> Row] /\ obj \in [Nodes -> [Refs -> Row]]
      /\ row[n].total \in Nat /\ adm.new.total \in Nat
  BY DEF TypeInv, TypeOK, Row, Request
<1>1. row' # row
  BY <1>0
<1>2. ASSUME NEW k \in Nodes, Save(k) \/ Rebaseline(k) PROVE FALSE
  <2>1. PICK new \in Row :
              /\ k \in smp.todo /\ new.total >= Held(k).total
              /\ obj' = [obj EXCEPT ![k][smp.held[k]] = new] /\ Persist(k, new)
              /\ UNCHANGED <<cached, adm>>
              /\ smp'.pc = smp.pc /\ smp'.held = smp.held /\ smp'.todo \subseteq smp.todo
    BY <1>2, PassWrites
  <2>2. Held(k) = row[k] \/ k \in torn
    BY <2>1, PassSaves
  <2>3. row' = [row EXCEPT ![k] = new]
    BY <1>1, <2>1, Persisted
  <2>4. new.total \in Nat /\ row[k].total \in Nat
    BY <1>0 DEF Row
  <2> QED BY <1>0, <2>1, <2>2, <2>3, <2>4
<1>3. ASSUME UpdateSave \/ UndoSave PROVE FALSE
  <2>1. PICK k : k = adm.node
    OBVIOUS
  <2>2. PICK r : r = adm.ref
    OBVIOUS
  <2>3. k \in Nodes /\ r \in Refs /\ UpdateOK(k, r) /\ adm.pc \in {"save", "undoSave"}
    BY <1>3, <2>1, <2>2 DEF UpdateSave, UndoSave, TypeInv, RefsOK, SerialInv, HandlerOK
  <2>4. CASE UpdateSave
    <3>1. adm.pc = "save" /\ row' = [row EXCEPT ![k] = adm.new]
      BY <2>1, <2>4 DEF UpdateSave, SaveNode
    <3>2. n = k
      BY <1>0, <3>1
    <3>3. obj[k][r] = row[k]
      BY <2>1, <2>3, <3>1, <3>2, RefsAssumption DEF SerialInv, Caching, CacheOK, Apart, UpdateOK
    <3> QED BY <1>0, <2>3, <3>1, <3>3 DEF UpdateOK
  <2>5. CASE UndoSave
    <3>1. adm.pc = "undoSave" /\ row' = [row EXCEPT ![k] = obj[k][r]]
      BY <2>1, <2>2, <2>5 DEF UndoSave, SaveNode
    <3> QED BY <1>0, <2>3, <3>1 DEF UpdateOK
  <2> QED BY <1>3, <2>4, <2>5
<1>4. CASE DeleteRow
  BY <1>0, <1>4 DEF DeleteRow
<1>5. CASE ResetSave
  <2>1. adm.pc = "saveReset" /\ (row' = row \/ row' = [row EXCEPT ![adm.node] = ResetBaseline])
    BY <1>5 DEF ResetSave, Persist, SaveNode
  <2> QED BY <1>0, <1>1, <2>1
<1>6. ASSUME \/ \E k \in Nodes : EngineStart(k) \/ Carry(k) \/ EngineExit(k) \/ Account(k)
                                    \/ UpdateBuild(k) \/ DeleteRemove(k) \/ ResetZero(k)
             \/ SampleServices \/ SampleUnreachable \/ SampleNodes \/ SampleStats \/ SampleLoopDone
             \/ UpdateLoad \/ UpdateStale \/ UpdateApplied \/ UpdateFailed \/ UndoApply
             \/ StoreRefuses \/ DeleteLoad \/ DeleteStale \/ ResetForget \/ ResetStats
             \/ Reload \/ PanelRestart \/ UNCHANGED vars
      PROVE  row' = row
  BY <1>6 DEF EngineStart, Carry, EngineExit, Account, UpdateBuild, DeleteRemove, ResetZero,
     SampleServices, SampleUnreachable, SampleNodes, SampleStats, SampleLoopDone, UpdateLoad,
     UpdateStale, UpdateApplied, UpdateFailed, UndoApply, StoreRefuses, DeleteLoad, DeleteStale,
     ResetForget, ResetStats, Reload, PanelRestart, vars, database
<1> QED BY <1>1, <1>2, <1>3, <1>4, <1>5, <1>6 DEF Next, Sampler, Update, Delete, Reset

\* When handlers and passes take turns, only a reset or a deletion of the node lowers
\* its persisted total, at once or, when the store refused it, with a later save: neither
\* a save of the sampler nor an update, taken back or not, writes an older total over a
\* newer one (SaveNode, buildNode).
THEOREM TotalOnlyGrowsHolds == Spec => TotalOnlyGrows
<1> DEFINE Grows == \A n \in Nodes : Serial /\ row'[n].total < row[n].total =>
                        \/ adm.node = n /\ adm.pc \in {"saveReset", "drop"}
                        \/ n \in torn
<1>1. TypeInv /\ (Serial => SerialInv) /\ [Next]_vars => [Grows]_vars
  BY TotalStep
<1> HIDE DEF Grows
<1>2. Spec => [][Grows]_vars
  BY <1>1, SerialInvariant, PTL DEF Spec
<1> QED BY <1>2 DEF TotalOnlyGrows, Grows

-----------------------------------------------------------------------------
(* A gost that outlives the panel.                                         *)

\* The numbers of a node.
LEMMA Numbers ==
    ASSUME TypeInv, NEW n \in Nodes
    PROVE  /\ engine[n].ctr \in Nat /\ engine[n].pid \in Nat /\ pids[n] \in Nat
           /\ carried[n] \in Nat /\ last[n] \in Nat /\ mark[n] \in Nat /\ bucket[n] \in Nat
           /\ smp.read[n].ctr \in Nat /\ smp.read[n].pid \in Nat /\ smp.pend \in Nat
           /\ row[n] \in Row /\ \A r \in Refs : obj[n][r] \in Row
           /\ NewRow \in Row
  BY IdleTypes DEF TypeInv, TypeOK, Engine, Pass

\* What a copy is worth does not change with the engine: bytes carried and engines that
\* stop only make room.
LEMMA CopyLasts ==
    ASSUME TypeInv, NEW n \in Nodes, NEW o \in Row, CopyOK(n, o), engine[n].ctr <= carried[n],
           \/ engine'[n].ctr = engine[n].ctr /\ carried'[n] = carried[n]
           \/ engine'[n].ctr = 0 /\ carried'[n] = carried[n]
           \/ engine'[n].ctr = engine[n].ctr + 1 /\ carried'[n] = carried[n] + 1,
           n \in seen' => n \in seen /\ last'[n] = last[n],
           InFlight(n)' => InFlight(n) /\ smp'.read[n] = smp.read[n] /\ (n \in seen <=> n \in seen')
    PROVE  CopyOK(n, o)'
<1>1. /\ engine[n].ctr \in Nat /\ carried[n] \in Nat /\ last[n] \in Nat /\ smp.read[n].ctr \in Nat
      /\ o.total \in Nat /\ o.ctr \in Nat
  BY Numbers DEF Row
<1>2. o.total <= carried'[n] /\ o.total <= Earlier(n)' + o.ctr /\ Earlier(n) <= Earlier(n)'
  BY <1>1 DEF CopyOK, Earlier
<1>3. n \in seen' => o.total <= Earlier(n)' + last'[n]
  BY <1>1 DEF CopyOK, Earlier
<1>4. ASSUME InFlight(n)'
      PROVE  /\ o.total <= Earlier(n)' + smp'.read[n].ctr
             /\ \/ smp'.read[n].ctr <= engine'[n].ctr
                \/ /\ o.total <= Earlier(n)'
                   /\ o.total + smp'.read[n].ctr - From(n, o)' <= Earlier(n)'
  <2>1. InFlight(n) /\ smp'.read[n].ctr = smp.read[n].ctr /\ From(n, o)' = From(n, o)
    BY <1>4 DEF From
  <2>2. From(n, o) \in Nat /\ o.total <= Earlier(n) + From(n, o)
    BY <1>1 DEF From, CopyOK
  <2> QED BY <1>1, <2>1, <2>2 DEF CopyOK, Earlier
<1> QED BY <1>2, <1>3, <1>4 DEF CopyOK

\* An object without any traffic is a copy like any other.
LEMMA FreshCopy ==
    ASSUME TypeInv, NEW n \in Gost, SurvivorOK(n)
    PROVE  CopyOK(n, NewRow)
<1>1. /\ engine[n].ctr \in Nat /\ carried[n] \in Nat /\ last[n] \in Nat /\ smp.read[n].ctr \in Nat
  BY Numbers
<1>2. NewRow.total = 0 /\ NewRow.ctr = 0 /\ From(n, NewRow) \in Nat
  BY <1>1 DEF NewRow, From
<1> QED BY <1>1, <1>2 DEF CopyOK, SurvivorOK, Earlier

\* What a step does to the engine of n.
EngineMoves(n) ==
    \/ engine'[n].ctr = engine[n].ctr /\ carried'[n] = carried[n]
    \/ engine'[n].ctr = 0 /\ carried'[n] = carried[n]
    \/ engine'[n].ctr = engine[n].ctr + 1 /\ carried'[n] = carried[n] + 1

\* A step that records nothing for n: its copies are old ones or have no traffic, what was
\* seen of it may be forgotten, and what the pass has read of it may be dropped.
NothingRecorded(n) ==
    /\ EngineMoves(n) /\ mark'[n] = mark[n]
    /\ n \in seen' => n \in seen /\ last'[n] = last[n]
    /\ InFlight(n)' => InFlight(n) /\ smp'.read[n] = smp.read[n] /\ (n \in seen <=> n \in seen')
    /\ row'[n] \in {row[n], NewRow}
    /\ \A r \in Refs : obj'[n][r] \in {row[n], obj[n][r], NewRow}
    /\ smp'.node = n =>
          /\ smp.node = n /\ smp'.held = smp.held /\ smp'.read[n] = smp.read[n]
          /\ smp'.pend = smp.pend /\ obj'[n][smp.held[n]] = obj[n][smp.held[n]]
          /\ n \in seen => n \in seen'

LEMMA SurvivorLasts ==
    ASSUME TypeInv, NEW n \in Gost, SurvivorOK(n), NothingRecorded(n)
    PROVE  SurvivorOK(n)'
<1>1. /\ engine[n].ctr \in Nat /\ carried[n] \in Nat /\ last[n] \in Nat /\ smp.read[n].ctr \in Nat
      /\ smp.pend \in Nat /\ row[n] \in Row /\ (\A r \in Refs : obj[n][r] \in Row) /\ NewRow \in Row
  BY Numbers
<1>2. \A o \in Row : CopyOK(n, o) => CopyOK(n, o)'
  BY CopyLasts DEF SurvivorOK, NothingRecorded, EngineMoves
<1>3. CopyOK(n, row[n]) /\ CopyOK(n, NewRow) /\ \A r \in Refs : CopyOK(n, obj[n][r])
  BY FreshCopy DEF SurvivorOK
<1>4. CopyOK(n, row[n])'
  <2>1. PICK o : o = row'[n]
    OBVIOUS
  <2>2. CopyOK(n, o)'
    BY <1>1, <1>2, <1>3, <2>1 DEF NothingRecorded
  <2> QED BY <2>1, <2>2 DEF CopyOK, From
<1>5. ASSUME NEW r \in Refs PROVE CopyOK(n, obj[n][r])'
  <2>1. PICK o : o = obj'[n][r]
    OBVIOUS
  <2>2. CopyOK(n, o)'
    BY <1>1, <1>2, <1>3, <2>1 DEF NothingRecorded
  <2> QED BY <2>1, <2>2 DEF CopyOK, From
<1>6. EngineMoves(n) /\ engine'[n].ctr <= carried'[n] /\ mark'[n] = 0
  BY <1>1 DEF SurvivorOK, NothingRecorded, EngineMoves
<1>7. Earlier(n) <= Earlier(n)' /\ carried[n] <= carried'[n]
  BY <1>1, <1>6 DEF SurvivorOK, EngineMoves, Earlier
<1>8. InFlight(n)' => smp'.read[n].ctr <= engine'[n].ctr \/ smp'.read[n].ctr <= Earlier(n)'
  BY <1>1, <1>6, <1>7 DEF SurvivorOK, NothingRecorded, EngineMoves, Earlier
<1>9. PendingOK(n)'
  <2> SUFFICES ASSUME smp'.node = n PROVE PendingOK(n)'
    BY DEF PendingOK
  <2>1. /\ PendingOK(n) /\ smp.node = n /\ n \in seen /\ n \in seen' /\ smp.held[n] \in Refs
        /\ smp'.held = smp.held /\ smp'.read[n] = smp.read[n] /\ smp'.pend = smp.pend
        /\ obj'[n][smp.held[n]] = obj[n][smp.held[n]] /\ last'[n] = last[n]
    BY NodesAssumption DEF PendingOK, SurvivorOK, NothingRecorded, TypeInv, RefsOK
  <2>2. PICK t \in Nat : t = obj[n][smp.held[n]].total
    BY <1>1, <2>1 DEF Row
  <2>3. carried'[n] \in Nat /\ Earlier(n)' \in Int /\ Earlier(n) \in Int
    BY <1>1, <1>6 DEF EngineMoves, Earlier
  <2> QED BY <1>1, <1>7, <2>1, <2>2, <2>3 DEF PendingOK
<1> QED BY <1>4, <1>5, <1>6, <1>8, <1>9 DEF SurvivorOK

LEMMA InitSurvivor == Init /\ Survives => SurvivorInv
<1> SUFFICES ASSUME Init, NEW n \in Gost PROVE SurvivorOK(n) /\ adm.pc = "idle"
  BY DEF SurvivorInv, Init, AdmIdle
<1> QED BY NodesAssumption
        DEF Init, SurvivorOK, CopyOK, PendingOK, InFlight, Earlier, SmpIdle, AdmIdle, Stopped, NewRow

LEMMA EngineSurvivor ==
    ASSUME TypeInv, SurvivorInv, NEW k \in Nodes, EngineStart(k) \/ Carry(k) \/ EngineExit(k)
    PROVE  SurvivorInv'
<1>0. engine \in [Nodes -> Engine] /\ carried \in [Nodes -> Nat]
  BY DEF TypeInv, TypeOK
<1>1. UNCHANGED <<seen, last, smp, adm, row, obj, mark>>
  BY DEF EngineStart, Carry, EngineExit, counters, database, objects
<1>2. ASSUME NEW n \in Gost PROVE EngineMoves(n)
  <2>1. CASE EngineStart(k)
    BY <1>0, <2>1, NodesAssumption DEF EngineStart, EngineMoves, SurvivorInv, Engine
  <2>2. CASE Carry(k)
    BY <1>0, <2>2 DEF Carry, EngineMoves, Engine
  <2>3. CASE EngineExit(k)
    BY <1>0, <2>3 DEF EngineExit, EngineMoves, Stopped
  <2> QED BY <2>1, <2>2, <2>3
<1>3. ASSUME NEW n \in Gost PROVE NothingRecorded(n)
  BY <1>1, <1>2 DEF NothingRecorded, InFlight
<1> QED BY <1>1, <1>3, SurvivorLasts DEF SurvivorInv

\* A pass reads the counters of the engines that are there.
LEMMA ServicesSurvivor ==
    ASSUME TypeInv, SurvivorInv, SampleServices
    PROVE  SurvivorInv'
<1>1. /\ UNCHANGED <<engine, carried, seen, last, adm, row, obj, mark>>
      /\ smp'.read = engine /\ smp'.node = Nil
  BY NodesAssumption
     DEF SampleServices, counters, database, objects, engines, TypeInv, TypeOK, RefsOK, Pass
<1>2. ASSUME NEW n \in Gost, NEW o \in Row, CopyOK(n, o)
      PROVE  CopyOK(n, o)'
  <2>1. o.total \in Nat /\ engine[n].ctr \in Nat /\ carried[n] \in Nat
    BY Numbers DEF Row
  <2> QED BY <1>1, <1>2, <2>1 DEF CopyOK, Earlier, SurvivorInv
<1>3. ASSUME NEW n \in Gost PROVE SurvivorOK(n)'
  <2>1. SurvivorOK(n) /\ row[n] \in Row /\ (\A r \in Refs : obj[n][r] \in Row) /\ engine[n].ctr \in Nat
    BY Numbers DEF SurvivorInv
  <2>2. CopyOK(n, row[n])'
    <3>1. PICK o : o = row[n]
      OBVIOUS
    <3>2. CopyOK(n, o)'
      BY <1>2, <2>1, <3>1 DEF SurvivorOK
    <3> QED BY <1>1, <3>1, <3>2 DEF CopyOK, From
  <2>3. ASSUME NEW r \in Refs PROVE CopyOK(n, obj[n][r])'
    <3>1. PICK o : o = obj[n][r]
      OBVIOUS
    <3>2. CopyOK(n, o)'
      BY <1>2, <2>1, <3>1 DEF SurvivorOK
    <3> QED BY <1>1, <3>1, <3>2 DEF CopyOK, From
  <2> QED BY <1>1, <2>1, <2>2, <2>3, NodesAssumption DEF SurvivorOK, PendingOK
<1> QED BY <1>1, <1>3 DEF SurvivorInv

\* The steps of a pass that only move it along, and those for sing-box nodes.
LEMMA PassSurvivor ==
    ASSUME TypeInv, SurvivorInv,
           \/ SampleUnreachable \/ SampleNodes \/ SampleStats \/ SampleLoopDone
           \/ \E k \in Reality : Account(k) \/ Save(k) \/ Rebaseline(k)
    PROVE  SurvivorInv'
<1>0. smp \in Pass /\ row \in [Nodes -> Row] /\ last \in [Nodes -> Nat] /\ obj \in [Nodes -> [Refs -> Row]]
  BY DEF TypeInv, TypeOK
<1>1. UNCHANGED <<engine, carried, adm, mark>>
  BY DEF SampleUnreachable, SampleNodes, SampleStats, SampleLoopDone, Account, Save, Rebaseline, engines
<1>2. ASSUME NEW n \in Gost
      PROVE  row'[n] = row[n] /\ obj'[n] = obj[n] /\ last'[n] = last[n] /\ (n \in seen <=> n \in seen')
  <2>1. ASSUME SampleUnreachable \/ SampleNodes \/ SampleStats \/ SampleLoopDone
        PROVE  UNCHANGED <<row, obj, last, seen>>
    BY <2>1 DEF SampleUnreachable, SampleNodes, SampleStats, SampleLoopDone, database, objects, counters
  <2>2. ASSUME NEW k \in Reality, Account(k) \/ Save(k) \/ Rebaseline(k)
        PROVE  row'[n] = row[n] /\ obj'[n] = obj[n] /\ last'[n] = last[n] /\ (n \in seen <=> n \in seen')
    <3>1. n # k /\ n \in Nodes
      BY NodesAssumption
    <3>2. CASE Account(k)
      BY <1>0, <3>1, <3>2 DEF Account, objects
    <3>3. CASE Save(k)
      BY <1>0, <3>1, <3>3 DEF Save, Persist, SaveNode, counters
    <3>4. CASE Rebaseline(k)
      BY <1>0, <3>1, <3>4 DEF Rebaseline, Persist, SaveNode
    <3> QED BY <2>2, <3>2, <3>3, <3>4
  <2> QED BY <2>1, <2>2
<1>3. ASSUME NEW n \in Gost PROVE smp'.node # n
  <2>1. n # Nil /\ n \notin Reality
    BY NodesAssumption
  <2>2. CASE SampleLoopDone
    BY <2>1, <2>2 DEF SampleLoopDone, SmpIdle
  <2>3. CASE SampleUnreachable \/ SampleNodes \/ SampleStats
    BY <1>0, <2>1, <2>3 DEF SampleUnreachable, SampleNodes, SampleStats, Pass, TypeInv, RefsOK
  <2>4. ASSUME NEW k \in Reality, Account(k) PROVE smp'.node # n
    BY ZenonT(40), <1>0, <2>1, <2>4 DEF Account, InLoop, Pass
  <2>5. ASSUME NEW k \in Reality, Save(k) PROVE smp'.node # n
    BY <1>0, <2>1, <2>5 DEF Save, Pass
  <2>6. ASSUME NEW k \in Reality, Rebaseline(k) PROVE smp'.node # n
    BY <1>0, <2>1, <2>6 DEF Rebaseline, InLoop, Pass
  <2> QED BY <2>2, <2>3, <2>4, <2>5, <2>6
<1>4. ASSUME NEW n \in Gost, InFlight(n)' PROVE InFlight(n) /\ smp'.read = smp.read
  <2>1. CASE SampleUnreachable \/ SampleStats
    BY <1>0, <1>4, <2>1 DEF SampleUnreachable, SampleStats, InFlight, Pass
  <2>2. CASE SampleLoopDone
    BY <1>0, <1>4, <2>2 DEF SampleLoopDone, SmpIdle, InFlight, Pass
  <2>3. CASE SampleNodes
    BY <1>0, <1>4, <2>3 DEF SampleNodes, InFlight, Pass
  <2>4. ASSUME NEW k \in Reality, Account(k) \/ Save(k) \/ Rebaseline(k) PROVE FALSE
    <3>1. smp.pc = "realityLoop"
      BY <2>4, NodesAssumption DEF Account, Save, Rebaseline, InLoop, TypeInv, RefsOK
    <3>2. smp'.pc = smp.pc
      <4>1. CASE Account(k)
        BY ZenonT(40), <1>0, <4>1 DEF Account, Pass
      <4>2. CASE Save(k) \/ Rebaseline(k)
        BY <1>0, <4>2 DEF Save, Rebaseline, Pass
      <4> QED BY <2>4, <4>1, <4>2
    <3> QED BY <1>4, <3>1, <3>2 DEF InFlight
  <2> QED BY <2>1, <2>2, <2>3, <2>4
<1>5. ASSUME NEW n \in Gost PROVE NothingRecorded(n)
  BY <1>1, <1>2, <1>3, <1>4 DEF NothingRecorded, EngineMoves
<1> QED BY <1>1, <1>5, SurvivorLasts DEF SurvivorInv

\* The sampler records an increment of a gost node, and later adds it to the totals.
LEMMA AccountSurvivor ==
    ASSUME TypeInv, SurvivorInv, NEW k \in Gost, Account(k)
    PROVE  SurvivorInv'
<1> DEFINE cur == smp.read[k].ctr
           inc == Delta(Prev(k), cur)
<1>1. /\ smp.node = Nil /\ k \in smp.todo /\ k # Nil /\ smp.held[k] \in Refs
      /\ smp.pc = "gostLoop" /\ k \notin Reality /\ InFlight(k)
  BY NodesAssumption DEF TypeInv, RefsOK, Account, InLoop, InFlight
<1>2. /\ engine[k].ctr \in Nat /\ carried[k] \in Nat /\ last[k] \in Nat /\ cur \in Nat
      /\ row[k] \in Row /\ (\A r \in Refs : obj[k][r] \in Row) /\ Held(k) \in Row
      /\ smp \in Pass /\ bucket \in [Nodes -> Nat] /\ last \in [Nodes -> Nat]
  BY <1>1, Numbers DEF Held, TypeInv, TypeOK
<1>3. Prev(k) = From(k, Held(k)) /\ Prev(k) \in Nat
  BY <1>1, <1>2 DEF Prev, From, Row
<1>4. inc \in Nat /\ (cur >= Prev(k) => inc = cur - Prev(k)) /\ (cur < Prev(k) => inc = 0)
  BY <1>2, <1>3 DEF Delta
<1>5. /\ seen' = seen \cup {k} /\ last' = [last EXCEPT ![k] = cur]
      /\ \/ smp' = [smp EXCEPT !.node = k, !.pend = inc]
         \/ smp' = [smp EXCEPT !.todo = @ \ {k}]
      /\ UNCHANGED <<engine, carried, row, obj, adm, mark>>
  BY DEF Account, engines, objects
<1> HIDE DEF inc
<1>6. /\ smp'.pc = "gostLoop" /\ smp'.held = smp.held /\ smp'.read = smp.read
      /\ smp'.todo \subseteq smp.todo
      /\ \/ smp'.node = k /\ smp'.pend = inc
         \/ smp'.node = Nil /\ k \notin smp'.todo
  <2>1. CASE smp' = [smp EXCEPT !.node = k, !.pend = inc]
    BY <1>1, <1>2, <2>1 DEF Pass
  <2>2. CASE smp' = [smp EXCEPT !.todo = @ \ {k}]
    BY <1>1, <1>2, <2>2 DEF Pass
  <2> QED BY <1>5, <2>1, <2>2
<1>7. SurvivorOK(k)'
  <2>1. SurvivorOK(k) /\ ~InFlight(k)' /\ k \in seen' /\ last'[k] = cur
    BY <1>1, <1>2, <1>5, <1>6 DEF SurvivorInv, InFlight
  <2>2. ASSUME NEW o \in Row, CopyOK(k, o) PROVE CopyOK(k, o)'
    <3>1. o.total \in Nat
      BY DEF Row
    <3> QED BY <1>1, <1>2, <1>5, <1>6, <2>1, <2>2, <3>1 DEF CopyOK, Earlier
  <2>3. CopyOK(k, row[k])'
    <3>1. PICK o : o = row[k]
      OBVIOUS
    <3>2. CopyOK(k, o)'
      BY <1>2, <2>1, <2>2, <3>1 DEF SurvivorOK
    <3> QED BY <1>5, <3>1, <3>2 DEF CopyOK, From
  <2>4. ASSUME NEW r \in Refs PROVE CopyOK(k, obj[k][r])'
    <3>1. PICK o : o = obj[k][r]
      OBVIOUS
    <3>2. CopyOK(k, o)'
      BY <1>2, <2>1, <2>2, <3>1 DEF SurvivorOK
    <3> QED BY <1>5, <3>1, <3>2 DEF CopyOK, From
  <2>5. PendingOK(k)'
    <3>1. PICK t \in Nat : t = Held(k).total
      BY <1>2 DEF Row
    <3>2. CopyOK(k, Held(k))
      BY <1>1, <2>1 DEF SurvivorOK, Held
    <3>3. /\ t <= carried[k] /\ t <= Earlier(k) + cur
          /\ cur <= engine[k].ctr => t + cur - Prev(k) <= Earlier(k) + cur
          /\ cur > engine[k].ctr => t + cur - Prev(k) <= Earlier(k)
      <4>1. t <= Earlier(k) + Prev(k)
        BY <1>2, <1>3, <3>1, <3>2 DEF CopyOK, From
      <4> QED BY <1>1, <1>2, <1>3, <3>1, <3>2, <4>1 DEF CopyOK, Earlier
    <3>4. t + inc <= carried[k] /\ t + inc <= Earlier(k) + cur
      BY <1>2, <1>3, <1>4, <2>1, <3>1, <3>3 DEF SurvivorOK, Earlier
    <3> QED BY <1>1, <1>5, <1>6, <2>1, <3>1, <3>4 DEF PendingOK, Held, Earlier
  <2> QED BY <1>2, <1>5, <2>1, <2>3, <2>4, <2>5 DEF SurvivorOK
<1>8. ASSUME NEW n \in Gost \ {k} PROVE NothingRecorded(n)
  <2>1. n # Nil /\ smp.node # n /\ smp'.node # n /\ last'[n] = last[n] /\ (n \in seen' <=> n \in seen)
    BY <1>1, <1>2, <1>5, <1>6, NodesAssumption
  <2> QED BY <1>1, <1>5, <1>6, <2>1 DEF NothingRecorded, EngineMoves, InFlight
<1> QED BY <1>5, <1>7, <1>8, SurvivorLasts DEF SurvivorInv

LEMMA SaveSurvivor ==
    ASSUME TypeInv, SurvivorInv, NEW k \in Gost, Save(k)
    PROVE  SurvivorInv'
<1> DEFINE new == [Held(k) EXCEPT !.total = @ + smp.pend, !.ctr = smp.read[k].ctr,
                                  !.pid = IF k \in Reality THEN smp.read[k].pid ELSE @]
<1>1. smp.node = k /\ k # Nil /\ k \in smp.todo /\ smp.held[k] \in Refs /\ Held(k) \in Row
      /\ smp.pc = "gostLoop" /\ SurvivorOK(k) /\ smp.read[k].ctr \in Nat /\ smp.pend \in Nat
  BY Numbers, NodesAssumption DEF Save, TypeInv, RefsOK, Held, SurvivorInv
<1>2. /\ obj' = [obj EXCEPT ![k][smp.held[k]] = new]
      /\ row' = row \/ row' = [row EXCEPT ![k] = new]
      /\ smp' = [smp EXCEPT !.node = Nil, !.pend = 0, !.todo = @ \ {k}]
      /\ UNCHANGED <<engine, carried, seen, last, adm, mark>>
  BY DEF Save, Persist, SaveNode, engines, counters
<1>3. new.total = Held(k).total + smp.pend /\ new.ctr = smp.read[k].ctr
  BY <1>1 DEF Row
<1> HIDE DEF new
<1>4. /\ smp'.pc = "gostLoop" /\ smp'.node = Nil /\ smp'.todo = smp.todo \ {k} /\ smp'.read = smp.read
      /\ smp'.held = smp.held
  BY <1>1, <1>2 DEF TypeInv, TypeOK, Pass
<1>5. SurvivorOK(k)'
  <2>1. ~InFlight(k)' /\ smp'.node # k /\ (row'[k] = new \/ row'[k] = row[k])
        /\ \A r \in Refs : obj'[k][r] = IF r = smp.held[k] THEN new ELSE obj[k][r]
    BY <1>1, <1>2, <1>4 DEF InFlight, TypeInv, TypeOK
  <2>2. \A o \in Row : CopyOK(k, o) => CopyOK(k, o)'
    BY <1>2, <2>1 DEF CopyOK, Earlier
  <2>3. PICK c : c = new
    OBVIOUS
  <2>4. CopyOK(k, c)'
    BY <1>1, <1>2, <1>3, <2>1, <2>3 DEF CopyOK, SurvivorOK, PendingOK, Held, Earlier
  <2>5. CopyOK(k, row[k])'
    <3>1. CASE row'[k] = new
      BY <2>3, <2>4, <3>1 DEF CopyOK, From
    <3>2. CASE row'[k] = row[k]
      <4>1. PICK o : o = row[k]
        OBVIOUS
      <4>2. CopyOK(k, o)'
        BY <1>1, <2>2, <4>1, Numbers DEF SurvivorOK
      <4> QED BY <3>2, <4>1, <4>2 DEF CopyOK, From
    <3> QED BY <2>1, <3>1, <3>2
  <2>6. ASSUME NEW r \in Refs PROVE CopyOK(k, obj[k][r])'
    <3>1. PICK o : o = obj'[k][r]
      OBVIOUS
    <3>2. CASE o = new
      BY <2>3, <2>4, <3>1, <3>2 DEF CopyOK, From
    <3>3. CASE o = obj[k][r]
      <4>1. CopyOK(k, o)'
        BY <1>1, <2>2, <3>3, Numbers DEF SurvivorOK
      <4> QED BY <3>1, <4>1 DEF CopyOK, From
    <3> QED BY <2>1, <3>1, <3>2, <3>3
  <2> QED BY <1>1, <1>2, <2>1, <2>5, <2>6 DEF SurvivorOK, PendingOK
<1>6. ASSUME NEW n \in Gost \ {k} PROVE NothingRecorded(n)
  <2>1. n # Nil /\ row'[n] = row[n] /\ obj'[n] = obj[n]
    BY <1>2, NodesAssumption DEF TypeInv, TypeOK
  <2> QED BY <1>1, <1>2, <1>4, <2>1 DEF NothingRecorded, EngineMoves, InFlight
<1> QED BY <1>2, <1>5, <1>6, SurvivorLasts DEF SurvivorInv

\* LoadNodes leaves copies of what is there, and the objects a pass holds.
LEMMA LoadSurvivor ==
    ASSUME TypeInv, LoadNodes, NEW n \in Gost
    PROVE  /\ \A r \in Refs : obj'[n][r] \in {row[n], obj[n][r], NewRow}
           /\ smp.node = n => obj'[n][smp.held[n]] = obj[n][smp.held[n]]
<1>1. PICK fn \in [Nodes -> Refs \cup {Nil}] :
          /\ fn[n] \in IF n \in stored THEN Refs \ InUse(n) ELSE {Nil}
          /\ obj' = [m \in Nodes |-> [r \in Refs |->
                       IF r = fn[m] THEN row[m]
                       ELSE IF r \in InUse(m) THEN obj[m][r] ELSE NewRow]]
  BY DEF LoadNodes
<1>2. ASSUME smp.node = n PROVE obj'[n][smp.held[n]] = obj[n][smp.held[n]]
  <2>1. smp.held[n] \in Refs /\ smp.held[n] \in InUse(n)
    BY <1>2, NodesAssumption DEF TypeInv, RefsOK, InUse
  <2>2. fn[n] # smp.held[n]
    BY <1>1, <2>1, RefsAssumption
  <2> QED BY <1>1, <2>1, <2>2
<1> QED BY <1>1, <1>2

LEMMA ReloadSurvivor == ASSUME TypeInv, SurvivorInv, Reload PROVE SurvivorInv'
<1>1. UNCHANGED <<engine, carried, row, mark, seen, last, smp, adm>>
  BY DEF Reload, engines, database, counters
<1>2. ASSUME NEW n \in Gost PROVE NothingRecorded(n)
  <2>1. /\ \A r \in Refs : obj'[n][r] \in {row[n], obj[n][r], NewRow}
        /\ smp.node = n => obj'[n][smp.held[n]] = obj[n][smp.held[n]]
    BY LoadSurvivor DEF Reload
  <2> QED BY <1>1, <2>1 DEF NothingRecorded, EngineMoves, InFlight
<1> QED BY <1>1, <1>2, SurvivorLasts DEF SurvivorInv

\* Deletions, refused or not, leave copies of what is there, or take everything away.
LEMMA DeleteSurvivor ==
    ASSUME TypeInv, SurvivorInv, Delete \/ StoreRefuses
    PROVE  SurvivorInv'
<1>0. /\ adm \in Request /\ engine \in [Nodes -> Engine] /\ row \in [Nodes -> Row]
      /\ obj \in [Nodes -> [Refs -> Row]] /\ AdmIdle.pc = "idle"
  BY DEF TypeInv, TypeOK, AdmIdle
<1>1. /\ UNCHANGED <<carried, seen, last, smp, mark>>
      /\ adm'.pc \in {"idle", "drop", "dropLoad"}
  BY <1>0 DEF Delete, DeleteRemove, DeleteRow, DeleteLoad, DeleteStale, StoreRefuses, engines,
     counters, Request
<1>2. ASSUME NEW n \in Gost PROVE EngineMoves(n)
  <2>1. ASSUME NEW k \in Nodes, DeleteRemove(k) PROVE engine'[n] = engine[n] \/ engine'[n] = Stopped
    BY <1>0, <2>1 DEF DeleteRemove
  <2>2. CASE DeleteRow \/ DeleteLoad \/ DeleteStale \/ StoreRefuses
    BY <1>1, <2>2 DEF DeleteRow, DeleteLoad, DeleteStale, StoreRefuses, engines, EngineMoves
  <2> QED BY <1>1, <2>1, <2>2 DEF Delete, EngineMoves, Stopped
<1>3. ASSUME NEW n \in Gost PROVE row'[n] \in {row[n], NewRow}
  BY <1>0 DEF Delete, DeleteRemove, DeleteRow, DeleteLoad, DeleteStale, StoreRefuses, database
<1>4. ASSUME NEW n \in Gost
      PROVE  /\ \A r \in Refs : obj'[n][r] \in {row[n], obj[n][r], NewRow}
             /\ smp.node = n => obj'[n][smp.held[n]] = obj[n][smp.held[n]]
  <2>1. ASSUME ~DeleteLoad PROVE obj' = obj
    BY <2>1 DEF Delete, DeleteRemove, DeleteRow, DeleteStale, StoreRefuses, objects
  <2>2. CASE DeleteLoad
    BY <2>2, LoadSurvivor DEF DeleteLoad
  <2> QED BY <2>1, <2>2
<1>5. ASSUME NEW n \in Gost PROVE NothingRecorded(n)
  BY <1>1, <1>2, <1>3, <1>4 DEF NothingRecorded, InFlight
<1> QED BY <1>1, <1>5, SurvivorLasts DEF SurvivorInv

LEMMA RestartSurvivor ==
    ASSUME TypeInv, SurvivorInv, PanelRestart
    PROVE  SurvivorInv'
<1>1. /\ UNCHANGED <<carried, row, mark>> /\ seen' = {} /\ adm'.pc = "idle"
      /\ smp'.pc = "idle" /\ smp'.node = Nil
  BY DEF PanelRestart, database, SmpIdle, AdmIdle
<1>2. ASSUME NEW n \in Gost PROVE NothingRecorded(n)
  <2>1. EngineMoves(n)
    BY <1>1 DEF PanelRestart, EngineMoves, Stopped
  <2>2. \A r \in Refs : obj'[n][r] \in {row[n], obj[n][r], NewRow}
    BY DEF PanelRestart
  <2> QED BY <1>1, <2>1, <2>2, NodesAssumption DEF NothingRecorded, InFlight
<1> QED BY <1>1, <1>2, SurvivorLasts DEF SurvivorInv

LEMMA StepSurvivor ==
    ASSUME TypeInv, Survives, SurvivorInv, [Next]_vars
    PROVE  SurvivorInv'
<1>1. CASE UNCHANGED vars
  BY <1>1 DEF vars, SurvivorInv, SurvivorOK, CopyOK, PendingOK, From, InFlight, Earlier
<1>2. (Update => StoreRefuses) /\ ~Reset
  BY DEF Survives, SurvivorInv, Update, UpdateBuild, UpdateSave, UpdateLoad, UpdateStale,
     UpdateApplied, UpdateFailed, UndoSave, UndoApply, Reset, ResetZero, ResetForget, ResetStats,
     ResetSave, Begin
<1>3. ASSUME NEW k \in Gost PROVE ~Rebaseline(k)
  BY NodesAssumption DEF Rebaseline
<1>4. CASE Sampler
  BY <1>3, <1>4, ServicesSurvivor, PassSurvivor, AccountSurvivor, SaveSurvivor DEF Sampler
<1> QED BY <1>1, <1>2, <1>4, EngineSurvivor, ReloadSurvivor, DeleteSurvivor, RestartSurvivor
        DEF Next

\* A gost that outlives the panel does not have its traffic added twice to the totals,
\* whatever passes, deletions and restarts come in between: the panel counts on from the
\* baseline in the row (sampleOnce, first sight).
THEOREM SurvivorCountedOnceHolds == Spec => []SurvivorCountedOnce
<1>1. Init => TypeInv /\ (Survives => SurvivorInv)
  BY InitTypes, InitSurvivor
<1>2. TypeInv /\ (Survives => SurvivorInv) /\ [Next]_vars => (TypeInv /\ (Survives => SurvivorInv))'
  BY TypeStep, StepSurvivor, ScenarioStep DEF Survives
<1>3. TypeInv /\ (Survives => SurvivorInv) => SurvivorCountedOnce
  <2> SUFFICES ASSUME TypeInv, SurvivorInv, NEW n \in Gost PROVE TotalsWithin(n)
    BY DEF Survives, SurvivorCountedOnce
  <2>1. /\ SurvivorOK(n) /\ carried[n] \in Nat /\ row[n].total \in Nat
        /\ \A r \in Refs : obj[n][r].total \in Nat
    BY Numbers DEF SurvivorInv, Row
  <2>2. cached[n] # Nil => cached[n] \in Refs
    BY DEF TypeInv, TypeOK
  <2> QED BY <2>1, <2>2 DEF SurvivorOK, CopyOK, TotalsWithin
<1> QED BY <1>1, <1>2, <1>3, PTL DEF Spec

-----------------------------------------------------------------------------
(* Nodes carried by sing-box.                                              *)

\* What a step does to the process of n.
ProcessMoves(n) ==
    \/ engine'[n] = engine[n] /\ carried'[n] = carried[n] /\ pids'[n] = pids[n]
    \/ engine'[n] = Stopped /\ carried'[n] = carried[n] /\ pids'[n] = pids[n]
    \/ /\ engine[n].pid = 0 /\ engine'[n] = [pid |-> pids[n] + 1, ctr |-> 0]
       /\ carried'[n] = carried[n] /\ pids'[n] = pids[n] + 1
    \/ /\ engine[n].pid > 0 /\ engine'[n].pid = engine[n].pid /\ engine'[n].ctr = engine[n].ctr + 1
       /\ carried'[n] = carried[n] + 1 /\ pids'[n] = pids[n]

\* A pid is never used again, so the room above a baseline only grows.
LEMMA BaseGrows ==
    ASSUME TypeInv, NEW n \in Reality, RealityOK(n), ProcessMoves(n)
    PROVE  /\ engine'[n].pid <= pids'[n] /\ engine'[n].ctr <= carried'[n]
           /\ engine'[n].pid = 0 => engine'[n].ctr = 0
           /\ engine'[n].pid \in {0, engine[n].pid, pids[n] + 1}
           /\ carried[n] <= carried'[n]
           /\ \A p \in Nat \cup {NeedsBaseline}, c \in Nat : Known(n, p, c) =>
                 /\ Known(n, p, c)' /\ Base(n, p, c) <= Base(n, p, c)'
                 /\ Base(n, p, c) \in Int /\ Base(n, p, c)' \in Int
<1>1. /\ engine[n].ctr \in Nat /\ engine[n].pid \in Nat /\ pids[n] \in Nat /\ carried[n] \in Nat
      /\ engine[n].pid <= pids[n] /\ engine[n].ctr <= carried[n]
      /\ engine[n].pid = 0 => engine[n].ctr = 0
  BY Numbers DEF RealityOK
<1>2. \/ engine'[n].pid = engine[n].pid /\ engine'[n].ctr = engine[n].ctr
            /\ carried'[n] = carried[n] /\ pids'[n] = pids[n]
      \/ engine'[n].pid = 0 /\ engine'[n].ctr = 0
            /\ carried'[n] = carried[n] /\ pids'[n] = pids[n]
      \/ engine[n].pid = 0 /\ engine'[n].pid = pids[n] + 1 /\ engine'[n].ctr = 0
            /\ carried'[n] = carried[n] /\ pids'[n] = pids[n] + 1
      \/ engine[n].pid > 0 /\ engine'[n].pid = engine[n].pid /\ engine'[n].ctr = engine[n].ctr + 1
            /\ carried'[n] = carried[n] + 1 /\ pids'[n] = pids[n]
  BY DEF ProcessMoves, Stopped
<1>3. ASSUME NEW p \in Nat \cup {NeedsBaseline}, NEW c \in Nat, Known(n, p, c)
      PROVE  /\ Known(n, p, c)' /\ Base(n, p, c) <= Base(n, p, c)'
             /\ Base(n, p, c) \in Int /\ Base(n, p, c)' \in Int
  BY <1>1, <1>2, <1>3 DEF Known, Base, Earlier, NeedsBaseline
<1> QED BY <1>1, <1>2, <1>3

\* A step that records nothing for n: what was seen of it may be forgotten, and what the
\* pass has read of it may be dropped.
NothingCounted(n) ==
    /\ ProcessMoves(n) /\ row'[n] = row[n] /\ bucket'[n] = bucket[n] /\ mark'[n] = mark[n]
    /\ n \in stored' => n \in stored
    /\ n \in seen' => n \in seen /\ last'[n] = last[n]
    /\ smp'.node = n <=> smp.node = n
    /\ smp.node = n => smp'.read[n] = smp.read[n] /\ smp'.pend = smp.pend /\ last'[n] = last[n]
    /\ ToCount(n)' => /\ ToCount(n) /\ smp'.read[n] = smp.read[n]
                      /\ n \in seen <=> n \in seen'

LEMMA RealityLasts ==
    ASSUME TypeInv, NEW n \in Reality, RealityOK(n), NothingCounted(n),
           \/ UNCHANGED <<adm, obj>> /\ seen' \subseteq seen
           \/ ResettingOK(n)'
    PROVE  RealityOK(n)'
<1>1. /\ engine[n].ctr \in Nat /\ engine[n].pid \in Nat /\ pids[n] \in Nat
      /\ smp.read[n].ctr \in Nat /\ smp.read[n].pid \in Nat /\ last[n] \in Nat
      /\ row[n].ctr \in Nat /\ row[n].pid \in Nat \cup {NeedsBaseline}
      /\ bucket[n] \in Nat /\ row[n].total \in Nat /\ mark[n] \in Nat /\ smp.pend \in Nat
      /\ carried[n] \in Nat
      /\ adm.stat.ctr \in Nat /\ adm.stat.pid \in Nat /\ adm.mark \in Nat
  BY Numbers DEF Row, TypeInv, TypeOK, Request, Engine
<1>2. /\ engine'[n].pid <= pids'[n] /\ engine'[n].ctr <= carried'[n]
      /\ engine'[n].pid = 0 => engine'[n].ctr = 0
      /\ engine'[n].pid \in {0, engine[n].pid, pids[n] + 1}
      /\ carried[n] <= carried'[n] /\ carried'[n] \in Nat
  BY <1>1, BaseGrows DEF NothingCounted, ProcessMoves
<1>3. /\ row[n].pid <= pids[n] /\ Known(n, row[n].pid, row[n].ctr)
      /\ Known(n, row[n].pid, row[n].ctr)'
      /\ Base(n, row[n].pid, row[n].ctr) <= Base(n, row[n].pid, row[n].ctr)'
      /\ Base(n, row[n].pid, row[n].ctr) \in Int /\ Base(n, row[n].pid, row[n].ctr)' \in Int
  <2>1. PICK p, c : p = row[n].pid /\ c = row[n].ctr
    OBVIOUS
  <2>2. /\ Known(n, p, c)' /\ Base(n, p, c) <= Base(n, p, c)' /\ p <= pids[n]
        /\ Base(n, p, c) \in Int /\ Base(n, p, c)' \in Int
    BY <1>1, <2>1, BaseGrows DEF RealityOK, NothingCounted, Known
  <2>3. p = row'[n].pid /\ c = row'[n].ctr
    BY <2>1 DEF NothingCounted
  <2> QED BY <2>1, <2>2, <2>3 DEF RealityOK, Base, Known
<1>4. RestingOK(n)'
  <2> SUFFICES ASSUME smp'.node # n PROVE RestingOK(n)'
    BY DEF RestingOK
  <2>1. /\ RestingOK(n) /\ smp.node # n /\ row'[n] = row[n] /\ bucket'[n] = bucket[n] /\ mark'[n] = mark[n]
        /\ n \in stored' => n \in stored
        /\ n \in seen' => n \in seen /\ last'[n] = last[n]
    BY DEF RealityOK, NothingCounted
  <2>2. row[n].pid > 0 /\ row[n].pid = engine'[n].pid => row[n].pid = engine[n].pid
    BY <1>1, <1>2, <1>3
  <2>3. bucket[n] <= Base(n, row[n].pid, row[n].ctr)'
    BY <1>1, <1>3, <2>1 DEF RestingOK
  <2>4. n \in stored => row[n].total + mark[n] <= Base(n, row[n].pid, row[n].ctr)'
    <3> SUFFICES ASSUME n \in stored PROVE row[n].total + mark[n] <= Base(n, row[n].pid, row[n].ctr)'
      OBVIOUS
    <3>1. row[n].total + mark[n] \in Nat
      BY <1>1
    <3> QED BY <1>3, <2>1, <3>1 DEF RestingOK
  <2> QED BY <2>1, <2>2, <2>3, <2>4 DEF RestingOK
<1>5. ASSUME ToCount(n)' PROVE CountingOK(n)'
  <2>1. PICK p, c : p = smp.read[n].pid /\ c = smp.read[n].ctr
    OBVIOUS
  <2>2. PICK inc : inc = Delta(PrevOf(n), c)
    OBVIOUS
  <2>3. /\ ToCount(n) /\ row'[n] = row[n] /\ bucket'[n] = bucket[n] /\ mark'[n] = mark[n]
        /\ smp'.read[n] = smp.read[n] /\ (n \in seen <=> n \in seen') /\ (n \in seen => last'[n] = last[n])
    BY <1>5 DEF NothingCounted
  <2>4. Delta(PrevOf(n), c)' = inc
    BY <2>1, <2>2, <2>3 DEF PrevOf, Delta
  <2>5. /\ Known(n, p, c) /\ (p = 0 => c = 0)
        /\ row[n].pid > 0 /\ row[n].pid = engine[n].pid => p = row[n].pid
        /\ p > 0 /\ p = row[n].pid => row[n].ctr <= c /\ (n \in seen => last[n] = row[n].ctr)
        /\ bucket[n] + inc <= Base(n, p, c)
        /\ row[n].total + mark[n] + inc <= Base(n, p, c)
    BY <2>1, <2>2, <2>3 DEF RealityOK, CountingOK
  <2>6. inc \in Nat /\ p \in Nat /\ c \in Nat
    BY <1>1, <2>1, <2>2, DeltaType DEF PrevOf
  <2>7. Known(n, p, c)' /\ Base(n, p, c) <= Base(n, p, c)' /\ Base(n, p, c) \in Int /\ Base(n, p, c)' \in Int
    BY <2>5, <2>6, BaseGrows DEF NothingCounted
  <2>9. row[n].pid > 0 /\ row[n].pid = engine'[n].pid => row[n].pid = engine[n].pid
    BY <1>1, <1>2, <1>3
  <2>10. /\ bucket[n] + inc <= Base(n, p, c)'
         /\ row[n].total + mark[n] + inc <= Base(n, p, c)'
    BY <1>1, <2>5, <2>6, <2>7
  <2>11. p = smp'.read[n].pid /\ c = smp'.read[n].ctr
    BY <2>1, <2>3
  <2>12. Delta(PrevOf(n), smp.read[n].ctr)' = inc
    BY <2>4, <2>11 DEF Delta
  <2> QED BY <2>3, <2>5, <2>7, <2>9, <2>10, <2>11, <2>12 DEF CountingOK, Known, Base
<1>6. ASSUME smp'.node = n PROVE SavingOK(n)'
  <2>1. PICK p, c : p = smp.read[n].pid /\ c = smp.read[n].ctr
    OBVIOUS
  <2>2. /\ smp.node = n /\ row'[n] = row[n] /\ bucket'[n] = bucket[n] /\ mark'[n] = mark[n]
        /\ smp'.read[n] = smp.read[n] /\ smp'.pend = smp.pend /\ last'[n] = last[n]
    BY <1>6 DEF NothingCounted
  <2>3. /\ Known(n, p, c) /\ last[n] = c /\ bucket[n] <= Base(n, p, c)
        /\ row[n].total + mark[n] + smp.pend <= Base(n, p, c)
    BY <2>1, <2>2 DEF RealityOK, SavingOK
  <2>4. Known(n, p, c)' /\ Base(n, p, c) <= Base(n, p, c)' /\ Base(n, p, c) \in Int /\ Base(n, p, c)' \in Int
    BY <1>1, <2>1, <2>3, BaseGrows DEF NothingCounted
  <2>6. /\ bucket[n] <= Base(n, p, c)'
        /\ row[n].total + mark[n] + smp.pend <= Base(n, p, c)'
    BY <1>1, <2>3, <2>4
  <2> QED BY <2>1, <2>2, <2>3, <2>4, <2>6 DEF SavingOK, Known, Base
<1>7. ASSUME UNCHANGED <<adm, obj>>, seen' \subseteq seen PROVE ResettingOK(n)'
  <2> SUFFICES ASSUME adm.node = n PROVE ResettingOK(n)'
    BY <1>7 DEF ResettingOK
  <2>1. ResettingOK(n) /\ bucket'[n] = bucket[n]
    BY DEF RealityOK, NothingCounted
  <2>2. PICK p, c : p = adm.stat.pid /\ c = adm.stat.ctr
    OBVIOUS
  <2>3. ASSUME adm.pc = "saveReset"
        PROVE  /\ Known(n, p, c)'
               /\ bucket[n] <= Base(n, p, c)' /\ adm.mark <= Base(n, p, c)'
    <3>1. /\ Known(n, p, c) /\ bucket[n] <= Base(n, p, c) /\ adm.mark <= Base(n, p, c)
      BY <2>1, <2>2, <2>3 DEF ResettingOK
    <3>2. Known(n, p, c)' /\ Base(n, p, c) <= Base(n, p, c)' /\ Base(n, p, c) \in Int /\ Base(n, p, c)' \in Int
      BY <1>1, <2>2, <3>1, BaseGrows DEF NothingCounted
    <3> QED BY <1>1, <3>1, <3>2
  <2>4. p = adm'.stat.pid /\ c = adm'.stat.ctr
    BY <1>7, <2>2
  <2> QED BY <1>1, <1>2, <1>7, <2>1, <2>3, <2>4 DEF ResettingOK, Known, Base
<1> QED BY <1>2, <1>3, <1>4, <1>5, <1>6, <1>7 DEF RealityOK, CountingOK, SavingOK

LEMMA InitReality == Init => RealityInv
<1> SUFFICES ASSUME Init, NEW n \in Reality PROVE RealityOK(n) /\ adm.pc = "idle"
  BY DEF RealityInv, Init, AdmIdle
<1>1. /\ engine[n] = Stopped /\ pids[n] = 0 /\ row[n] = NewRow /\ bucket[n] = 0 /\ n \notin seen
      /\ mark[n] = 0 /\ carried[n] = 0 /\ smp.node = Nil /\ smp.pc = "idle" /\ adm.pc = "idle"
      /\ n # Nil /\ adm.node = Nil
  BY NodesAssumption DEF Init, SmpIdle, AdmIdle
<1>2. RestingOK(n) /\ Known(n, row[n].pid, row[n].ctr)
  BY <1>1 DEF RestingOK, Known, Base, Earlier, NewRow, Stopped
<1> QED BY <1>1, <1>2 DEF RealityOK, CountingOK, SavingOK, ResettingOK, ToCount, Stopped

LEMMA EngineReality ==
    ASSUME TypeInv, RealityInv, NEW k \in Nodes, EngineStart(k) \/ Carry(k) \/ EngineExit(k)
    PROVE  RealityInv'
<1>0. engine \in [Nodes -> Engine] /\ carried \in [Nodes -> Nat] /\ pids \in [Nodes -> Nat]
  BY DEF TypeInv, TypeOK
<1>1. UNCHANGED <<seen, last, smp, adm, row, obj, mark, bucket, stored>>
  BY DEF EngineStart, Carry, EngineExit, counters, database, objects
<1>2. ASSUME NEW n \in Reality PROVE ProcessMoves(n)
  <2>1. CASE EngineStart(k)
    BY <1>0, <2>1 DEF EngineStart, ProcessMoves
  <2>2. CASE Carry(k)
    BY <1>0, <2>2 DEF Carry, ProcessMoves, Engine
  <2>3. CASE EngineExit(k)
    BY <1>0, <2>3 DEF EngineExit, ProcessMoves
  <2> QED BY <2>1, <2>2, <2>3
<1>3. ASSUME NEW n \in Reality PROVE NothingCounted(n)
  BY <1>1, <1>2 DEF NothingCounted, ToCount
<1> QED BY <1>1, <1>3, RealityLasts DEF RealityInv

\* The steps of a pass that only move it along.
LEMMA PassReality ==
    ASSUME TypeInv, RealityInv,
           SampleServices \/ SampleUnreachable \/ SampleNodes \/ SampleLoopDone
    PROVE  RealityInv'
<1>0. smp \in Pass
  BY DEF TypeInv, TypeOK
<1>1. UNCHANGED <<engine, carried, pids, seen, last, adm, row, obj, mark, bucket, stored>>
  BY DEF SampleServices, SampleUnreachable, SampleNodes, SampleLoopDone, counters, database,
     objects, engines
<1>2. smp'.pc # "realityLoop" /\ smp.node = Nil /\ smp'.node = Nil
  <2>1. CASE SampleServices \/ SampleUnreachable
    BY <1>0, <2>1 DEF SampleServices, SampleUnreachable, Pass, TypeInv, RefsOK
  <2>2. CASE SampleNodes
    BY <1>0, <2>2 DEF SampleNodes, Pass, TypeInv, RefsOK
  <2>3. CASE SampleLoopDone
    BY <1>0, <2>3 DEF SampleLoopDone, SmpIdle, Pass, TypeInv, RefsOK
  <2> QED BY <2>1, <2>2, <2>3
<1>3. ASSUME NEW n \in Reality PROVE NothingCounted(n)
  BY <1>1, <1>2, NodesAssumption DEF NothingCounted, ToCount, ProcessMoves
<1> QED BY <1>1, <1>3, RealityLasts DEF RealityInv

\* A pass works on what the row holds.
LEMMA HeldIsRow ==
    ASSUME TypeInv, torn = {}, SerialInv, NEW k \in smp.todo
    PROVE  /\ adm.pc = "idle" /\ k \in stored /\ smp.held[k] \in Refs /\ Held(k) = row[k]
           /\ smp.pc # "idle"
<1>1. smp.pc # "idle"
  BY DEF TypeInv, RefsOK
<1>2. k \in Nodes /\ smp.held[k] = cached[k] /\ smp.held[k] \in Refs /\ CacheOK(k) /\ adm.pc = "idle"
  BY <1>1, TakingTurns DEF TypeInv, TypeOK, RefsOK, Pass, SerialInv, Caching
<1> QED BY <1>1, <1>2, RefsAssumption DEF Held, CacheOK

\* The statistics of a live process are those of the process the counters belong to.
LEMMA StatsReality ==
    ASSUME TypeInv, Answered, torn = {}, SerialInv, RealityInv, SampleStats
    PROVE  RealityInv'
<1>1. /\ UNCHANGED <<engine, carried, pids, seen, last, adm, row, obj, mark, bucket, stored>>
      /\ smp.pc = "realityStats"
  BY DEF SampleStats, counters, database, objects, engines
<1>2. PICK rd : /\ \A n \in Nodes : rd[n] \in Stats(n, "statsFail")
                /\ smp' = [smp EXCEPT !.pc = "realityLoop", !.read = rd]
  BY DEF SampleStats
<1>3. /\ smp'.node = Nil /\ smp.node = Nil /\ smp'.todo = smp.todo
      /\ \A n \in Nodes : smp'.read[n] = engine[n]
  BY <1>1, <1>2 DEF Answered, Stats, TypeInv, TypeOK, RefsOK, Pass
<1>4. ASSUME NEW n \in Reality PROVE RealityOK(n)'
  <2>1. /\ RealityOK(n) /\ RestingOK(n) /\ smp.node # n /\ n # Nil /\ smp'.node # n
    BY <1>3, NodesAssumption DEF RealityInv, RealityOK
  <2>2. RestingOK(n)' /\ SavingOK(n)' /\ ResettingOK(n)' /\ Known(n, row[n].pid, row[n].ctr)'
    BY <1>1, <2>1 DEF RealityOK, RestingOK, SavingOK, ResettingOK, Known, Base, Earlier
  <2>3. ASSUME ToCount(n)' PROVE CountingOK(n)'
    <3>1. n \in stored
      <4>1. n \in smp.todo
        BY <1>3, <2>3 DEF ToCount
      <4> QED BY <4>1, HeldIsRow
    <3>2. PICK p, c : p = engine[n].pid /\ c = engine[n].ctr
      OBVIOUS
    <3>3. /\ row[n].ctr \in Nat /\ row[n].pid \in Nat \cup {NeedsBaseline} /\ last[n] \in Nat
          /\ bucket[n] \in Nat /\ row[n].total \in Nat /\ mark[n] \in Nat /\ carried[n] \in Nat
          /\ p \in Nat /\ c \in Nat /\ c <= carried[n] /\ p <= pids[n] /\ (p = 0 => c = 0)
      BY <2>1, <3>2, Numbers DEF RealityOK, Row
    <3>4. PICK prev \in Nat : prev = PrevOf(n)'
      BY <1>1, <3>3 DEF PrevOf
    <3>5. prev = IF p > 0 /\ row[n].pid # p THEN 0 ELSE IF n \in seen THEN last[n] ELSE row[n].ctr
      BY <1>1, <1>3, <3>2, <3>4 DEF PrevOf
    <3>6. /\ bucket[n] <= IF p > 0 /\ row[n].pid = p THEN carried[n] - c + row[n].ctr ELSE carried[n] - c
          /\ row[n].total + mark[n]
                <= IF p > 0 /\ row[n].pid = p THEN carried[n] - c + row[n].ctr ELSE carried[n] - c
          /\ p > 0 /\ row[n].pid = p => row[n].ctr <= c /\ (n \in seen => last[n] = row[n].ctr)
      <4>1. /\ bucket[n] <= Base(n, row[n].pid, row[n].ctr)
            /\ row[n].total + mark[n] <= Base(n, row[n].pid, row[n].ctr)
            /\ n \in seen /\ row[n].pid > 0 /\ row[n].pid = engine[n].pid => last[n] = row[n].ctr
        BY <2>1, <3>1 DEF RestingOK
      <4>2. Base(n, row[n].pid, row[n].ctr) =
               IF p > 0 /\ row[n].pid = p THEN carried[n] - c + row[n].ctr ELSE carried[n] - c
        BY <3>2, <3>3 DEF Base, Earlier
      <4>3. p > 0 /\ row[n].pid = p => row[n].ctr <= c
        BY <2>1, <3>2 DEF RealityOK, Known
      <4> QED BY <3>2, <4>1, <4>2, <4>3
    <3>7. PICK inc \in Nat : inc = Delta(prev, c)
      BY <3>3, DeltaType
    <3>8. (c >= prev => inc = c - prev) /\ (c < prev => inc = 0)
      BY <3>3, <3>7 DEF Delta
    <3>9. /\ bucket[n] + inc <= IF p > 0 THEN carried[n] ELSE carried[n] - c
          /\ row[n].total + mark[n] + inc <= IF p > 0 THEN carried[n] ELSE carried[n] - c
      BY <3>3, <3>4, <3>5, <3>6, <3>8
    <3>10. Base(n, p, c)' = (IF p > 0 THEN carried[n] ELSE carried[n] - c) /\ Known(n, p, c)'
      BY <1>1, <3>2, <3>3 DEF Base, Earlier, Known
    <3>11. inc = Delta(PrevOf(n), c)' /\ p = smp'.read[n].pid /\ c = smp'.read[n].ctr
      BY <1>3, <3>2, <3>4, <3>7 DEF Delta
    <3>12. inc = Delta(PrevOf(n), smp.read[n].ctr)'
      BY <3>11 DEF Delta
    <3>13. /\ bucket[n] + inc <= Base(n, p, c)' /\ row[n].total + mark[n] + inc <= Base(n, p, c)'
      BY <3>9, <3>10
    <3> QED BY <1>1, <3>2, <3>3, <3>6, <3>10, <3>11, <3>12, <3>13 DEF CountingOK, Known, Base
  <2> QED BY <1>1, <2>1, <2>2, <2>3 DEF RealityOK, CountingOK
<1> QED BY <1>1, <1>4 DEF RealityInv

\* An increment of a sing-box node is recorded.
LEMMA AccountReality ==
    ASSUME TypeInv, Answered, torn = {}, SerialInv, RealityInv, NEW k \in Reality, Account(k)
    PROVE  RealityOK(k)'
<1>1. /\ ToCount(k) /\ smp.node = Nil /\ k # Nil /\ Held(k) = row[k] /\ adm.pc = "idle" /\ k \in stored
      /\ RealityOK(k)
  BY NodesAssumption, HeldIsRow DEF Account, InLoop, ToCount, TypeInv, RefsOK, RealityInv
<1>2. PICK p, c : p = smp.read[k].pid /\ c = smp.read[k].ctr
  OBVIOUS
<1>3. /\ row[k].ctr \in Nat /\ row[k].pid \in Nat \cup {NeedsBaseline} /\ last[k] \in Nat
      /\ bucket[k] \in Nat /\ row[k].total \in Nat /\ mark[k] \in Nat /\ carried[k] \in Nat
      /\ p \in Nat /\ c \in Nat /\ engine[k].ctr \in Nat
      /\ smp \in Pass /\ last \in [Nodes -> Nat] /\ bucket \in [Nodes -> Nat]
  BY <1>2, Numbers DEF Row, TypeInv, TypeOK
<1>4. Prev(k) = PrevOf(k) /\ Prev(k) \in Nat
  BY <1>1, <1>2, <1>3 DEF Prev, PrevOf
<1>5. PICK inc \in Nat : inc = Delta(Prev(k), c)
  BY <1>3, <1>4, DeltaType
<1>6. (c >= Prev(k) => inc = c - Prev(k)) /\ (c < Prev(k) => inc = 0)
  BY <1>3, <1>4, <1>5 DEF Delta
<1>7. /\ UNCHANGED <<engine, carried, pids, stored, row, adm, mark>>
      /\ k \in seen' /\ last'[k] = c /\ bucket'[k] = bucket[k] + inc
      /\ smp' = IF inc > 0 \/ k \notin seen THEN [smp EXCEPT !.node = k, !.pend = inc]
                                            ELSE [smp EXCEPT !.todo = @ \ {k}]
  BY <1>2, <1>3, <1>5 DEF Account, Answered, engines, objects
<1>8. /\ Known(k, p, c) /\ Known(k, row[k].pid, row[k].ctr) /\ RestingOK(k)
      /\ row[k].pid > 0 /\ row[k].pid = engine[k].pid => p = row[k].pid
      /\ p > 0 /\ p = row[k].pid => row[k].ctr <= c /\ (k \in seen => last[k] = row[k].ctr)
      /\ bucket[k] + inc <= Base(k, p, c)
      /\ row[k].total + mark[k] + inc <= Base(k, p, c)
  BY <1>1, <1>2, <1>4, <1>5 DEF RealityOK, CountingOK
<1>9. /\ Known(k, row[k].pid, row[k].ctr)' /\ engine'[k].pid <= pids'[k] /\ engine'[k].ctr <= carried'[k]
      /\ (engine'[k].pid = 0 => engine'[k].ctr = 0) /\ ResettingOK(k)'
  BY <1>1, <1>7 DEF RealityOK, Known, ResettingOK
<1>10. CASE inc > 0 \/ k \notin seen
  <2>1. smp'.node = k /\ smp'.pend = inc /\ smp'.read = smp.read
    BY <1>3, <1>7, <1>10 DEF Pass
  <2>2. SavingOK(k)'
    BY <1>2, <1>7, <1>8, <2>1 DEF SavingOK, Known, Base, Earlier
  <2> QED BY <1>9, <2>1, <2>2 DEF RealityOK, RestingOK, CountingOK, ToCount
<1>11. CASE ~(inc > 0 \/ k \notin seen)
  <2>1. smp'.node = Nil /\ k \notin smp'.todo
    BY <1>1, <1>3, <1>7, <1>11 DEF Pass
  <2>2. inc = 0 /\ k \in seen /\ bucket'[k] = bucket[k]
    BY <1>3, <1>7, <1>11
  <2>3. row[k].pid > 0 /\ row[k].pid = engine[k].pid => c = row[k].ctr
    <3> SUFFICES ASSUME row[k].pid > 0, row[k].pid = engine[k].pid PROVE c = row[k].ctr
      OBVIOUS
    <3>1. p = row[k].pid /\ row[k].ctr <= c /\ last[k] = row[k].ctr
      BY <1>8, <2>2
    <3>2. Prev(k) = row[k].ctr
      BY <1>2, <1>4, <2>2, <3>1 DEF PrevOf
    <3> QED BY <1>3, <1>6, <2>2, <3>1, <3>2
  <2>4. RestingOK(k)'
    BY <1>1, <1>7, <1>8, <2>2, <2>3 DEF RestingOK, Base, Earlier
  <2> QED BY <1>1, <1>9, <2>1, <2>4 DEF RealityOK, SavingOK, CountingOK, ToCount
<1> QED BY <1>10, <1>11

\* What is saved for a sing-box node is what has been read and recorded.
LEMMA SaveReality ==
    ASSUME TypeInv, Answered, torn = {}, SerialInv, RealityInv, NEW k \in Reality,
           Save(k) \/ Rebaseline(k)
    PROVE  RealityOK(k)'
<1>1. /\ k \in smp.todo /\ smp.pc = "realityLoop" /\ k # Nil /\ smp.held[k] \in Refs
      /\ Held(k) = row[k] /\ adm.pc = "idle" /\ RealityOK(k) /\ k \in stored
  BY NodesAssumption, HeldIsRow DEF Save, Rebaseline, InLoop, TypeInv, RefsOK, RealityInv
<1>2. PICK p, c : p = smp.read[k].pid /\ c = smp.read[k].ctr
  OBVIOUS
<1>3. /\ row \in [Nodes -> Row] /\ row[k] \in Row /\ row[k].total \in Nat /\ row[k].ctr \in Nat
      /\ last[k] \in Nat /\ last \in [Nodes -> Nat]
      /\ bucket[k] \in Nat /\ mark[k] \in Nat /\ smp.pend \in Nat /\ smp \in Pass
      /\ p \in Nat /\ c \in Nat /\ carried[k] \in Nat /\ engine[k].ctr \in Nat
  BY <1>2, Numbers DEF Row, TypeInv, TypeOK
<1>4. /\ UNCHANGED <<engine, carried, pids, adm, mark, bucket>>
      /\ smp'.node = Nil /\ k \notin smp'.todo
  BY <1>1, <1>3 DEF Save, Rebaseline, InLoop, engines, Pass
<1>5. /\ Known(k, p, c) /\ last'[k] = c /\ bucket[k] <= Base(k, p, c)
      /\ row'[k].pid = p /\ row'[k].ctr = c /\ row'[k].total + mark[k] <= Base(k, p, c)
  <2>1. CASE Save(k)
    <3>1. /\ smp.node = k /\ last' = last
          /\ row' = [row EXCEPT ![k] = [row[k] EXCEPT !.total = @ + smp.pend, !.ctr = c, !.pid = p]]
      BY <1>1, <1>2, <2>1 DEF Save, Persist, SaveNode, Answered, counters
    <3>2. row'[k].pid = p /\ row'[k].ctr = c /\ row'[k].total = row[k].total + smp.pend
      BY <1>3, <3>1 DEF Row
    <3>3. /\ Known(k, p, c) /\ last[k] = c /\ bucket[k] <= Base(k, p, c)
          /\ row[k].total + mark[k] + smp.pend <= Base(k, p, c)
      BY <1>1, <1>2, <3>1 DEF RealityOK, SavingOK
    <3>4. row[k].total + smp.pend + mark[k] = row[k].total + mark[k] + smp.pend
      BY <1>3
    <3> QED BY <3>1, <3>2, <3>3, <3>4
  <2>2. CASE Rebaseline(k)
    <3>1. /\ smp.node = Nil /\ last' = [last EXCEPT ![k] = c]
          /\ row' = [row EXCEPT ![k] = [row[k] EXCEPT !.ctr = c, !.pid = p]]
      BY <1>1, <1>2, <2>2 DEF Rebaseline, InLoop, Persist, SaveNode, Answered
    <3>2. row'[k].pid = p /\ row'[k].ctr = c /\ row'[k].total = row[k].total /\ last'[k] = c
      BY <1>3, <3>1 DEF Row
    <3>3. PICK inc \in Nat : inc = Delta(PrevOf(k), c)
      BY <1>3, DeltaType DEF PrevOf
    <3>4. /\ Known(k, p, c) /\ bucket[k] + inc <= Base(k, p, c)
          /\ row[k].total + mark[k] + inc <= Base(k, p, c)
      BY <1>1, <1>2, <3>1, <3>3 DEF RealityOK, CountingOK, ToCount
    <3>5. Base(k, p, c) \in Int
      BY <1>3 DEF Base, Earlier
    <3> QED BY <1>3, <3>2, <3>3, <3>4, <3>5
  <2> QED BY <2>1, <2>2
<1>6. RestingOK(k)' /\ Known(k, row[k].pid, row[k].ctr)'
  BY <1>4, <1>5 DEF RestingOK, Known, Base, Earlier
<1> QED BY <1>1, <1>4, <1>6 DEF RealityOK, CountingOK, SavingOK, ResettingOK, ToCount

\* The other sing-box nodes do not notice.
LEMMA SamplerReality ==
    ASSUME TypeInv, Answered, torn = {}, SerialInv, RealityInv, Sampler
    PROVE  RealityInv'
<1>1. ASSUME NEW k \in Nodes, Account(k) \/ Save(k) \/ Rebaseline(k) PROVE RealityInv'
  <2>1. /\ k \in smp.todo /\ adm.pc = "idle" /\ k # Nil /\ k \in stored
        /\ UNCHANGED <<engine, carried, pids, adm, mark>>
    BY <1>1, NodesAssumption, HeldIsRow
       DEF Account, Save, Rebaseline, InLoop, TypeInv, RefsOK, engines
  <2>2. ASSUME NEW n \in Reality \ {k} PROVE RealityOK(n)'
    <3>1. smp \in Pass /\ n # Nil /\ row \in [Nodes -> Row] /\ last \in [Nodes -> Nat]
          /\ bucket \in [Nodes -> Nat]
      BY NodesAssumption DEF TypeInv, TypeOK
    <3>2. /\ row'[n] = row[n] /\ last'[n] = last[n] /\ bucket'[n] = bucket[n]
          /\ n \in seen <=> n \in seen'
          /\ n \in stored <=> n \in stored'
      <4>1. CASE Account(k)
        BY <3>1, <4>1 DEF Account
      <4>2. CASE Save(k)
        BY <2>1, <3>1, <4>2 DEF Save, Persist, SaveNode, counters
      <4>3. CASE Rebaseline(k)
        BY <2>1, <3>1, <4>3 DEF Rebaseline, Persist, SaveNode
      <4> QED BY <1>1, <4>1, <4>2, <4>3
    <3>3. /\ smp'.node \in {Nil, k} /\ smp.node \in {Nil, k} /\ smp'.pc = smp.pc
          /\ smp'.todo \subseteq smp.todo /\ smp'.read = smp.read
      <4>1. CASE Account(k)
        <5>1. PICK inc : smp' = [smp EXCEPT !.node = k, !.pend = inc] \/ smp' = [smp EXCEPT !.todo = @ \ {k}]
          BY <4>1 DEF Account
        <5>2. smp.node = Nil
          BY <4>1 DEF Account, InLoop
        <5>3. CASE smp' = [smp EXCEPT !.node = k, !.pend = inc]
          BY <3>1, <5>2, <5>3 DEF Pass
        <5>4. CASE smp' = [smp EXCEPT !.todo = @ \ {k}]
          BY <3>1, <5>2, <5>4 DEF Pass
        <5> QED BY <5>1, <5>3, <5>4
      <4>2. CASE Save(k)
        BY <3>1, <4>2 DEF Save, Pass
      <4>3. CASE Rebaseline(k)
        BY <3>1, <4>3 DEF Rebaseline, InLoop, Pass
      <4> QED BY <1>1, <4>1, <4>2, <4>3
    <3>4. NothingCounted(n)
      BY <2>1, <3>1, <3>2, <3>3 DEF NothingCounted, ProcessMoves, ToCount
    <3>5. ResettingOK(n)'
      BY <2>1 DEF ResettingOK
    <3> QED BY <3>4, <3>5, RealityLasts DEF RealityInv
  <2>3. k \in Reality => RealityOK(k)'
    BY <1>1, AccountReality, SaveReality
  <2> QED BY <2>1, <2>2, <2>3 DEF RealityInv
<1> QED BY <1>1, PassReality, StatsReality DEF Sampler

\* The handlers, of which only the reset records anything.
LEMMA ReloadReality ==
    ASSUME TypeInv, Answered, SerialInv, RealityInv, Reload
    PROVE  RealityInv'
<1>1. /\ UNCHANGED <<engine, pids, carried, row, bucket, stored, mark, seen, last, smp, adm>>
      /\ adm.pc = "idle"
  BY DEF Reload, MayOverlap, Answered, engines, database, counters
<1>2. ASSUME NEW n \in Reality PROVE NothingCounted(n) /\ ResettingOK(n)'
  BY <1>1 DEF NothingCounted, ProcessMoves, ToCount, ResettingOK
<1> QED BY <1>1, <1>2, RealityLasts DEF RealityInv

LEMMA DeleteReality ==
    ASSUME TypeInv, Answered, SerialInv, RealityInv, Delete
    PROVE  RealityInv'
<1>0. /\ adm \in Request /\ engine \in [Nodes -> Engine] /\ row \in [Nodes -> Row]
      /\ bucket \in [Nodes -> Nat] /\ AdmIdle.pc = "idle"
  BY DEF TypeInv, TypeOK, AdmIdle
<1>1. /\ UNCHANGED <<carried, pids, seen, last, smp, mark>> /\ smp.node = Nil /\ smp.pc = "idle"
      /\ adm'.pc \in {"idle", "drop", "dropLoad"}
  <2>1. smp.pc = "idle" /\ smp.node = Nil
    BY TakingTurns
       DEF Delete, DeleteRemove, DeleteRow, DeleteLoad, DeleteStale, Begin, MayOverlap, Answered,
           TypeInv, RefsOK
  <2> QED BY <1>0, <2>1 DEF Delete, DeleteRemove, DeleteRow, DeleteLoad, DeleteStale, engines,
             counters, Request
<1>2. ASSUME NEW n \in Reality PROVE ResettingOK(n)'
  BY <1>1 DEF ResettingOK
<1>3. ASSUME NEW n \in Reality, ProcessMoves(n), row'[n] = row[n], bucket'[n] = bucket[n],
             n \in stored' => n \in stored
      PROVE  RealityOK(n)'
  <2>1. NothingCounted(n)
    BY <1>1, <1>3 DEF NothingCounted, ToCount
  <2> QED BY <1>2, <2>1, RealityLasts DEF RealityInv
<1>4. ASSUME NEW k \in Nodes, DeleteRemove(k) PROVE RealityInv'
  <2>1. UNCHANGED <<row, bucket, stored>>
    BY <1>4 DEF DeleteRemove, database
  <2>2. \A n \in Reality : engine'[n] = engine[n] \/ engine'[n] = Stopped
    BY <1>0, <1>4 DEF DeleteRemove
  <2> QED BY <1>1, <1>3, <2>1, <2>2 DEF ProcessMoves, RealityInv
<1>5. CASE DeleteRow
  <2>1. PICK k : k = adm.node
    OBVIOUS
  <2>2. /\ row' = [row EXCEPT ![k] = NewRow] /\ bucket' = [bucket EXCEPT ![k] = 0]
        /\ stored' = stored \ {k} /\ UNCHANGED engine
    BY <1>5, <2>1 DEF DeleteRow, engines
  <2>3. ASSUME NEW n \in Reality \ {k} PROVE RealityOK(n)'
    BY <1>0, <1>1, <1>3, <2>2 DEF ProcessMoves
  <2>4. ASSUME NEW n \in Reality, n = k PROVE RealityOK(n)'
    <3>1. row'[n] = NewRow /\ bucket'[n] = 0 /\ n \notin stored' /\ RealityOK(n)
      BY <1>0, <2>2, <2>4 DEF RealityInv
    <3>2. RestingOK(n)' /\ Known(n, row[n].pid, row[n].ctr)'
      <4>1. engine[n].ctr \in Nat /\ carried[n] \in Nat /\ pids[n] \in Nat
        BY Numbers
      <4> QED BY <1>1, <2>2, <3>1, <4>1 DEF RestingOK, Known, Base, Earlier, NewRow, RealityOK
    <3> QED BY <1>1, <1>2, <2>2, <3>1, <3>2, NodesAssumption
            DEF RealityOK, CountingOK, SavingOK, ToCount
  <2> QED BY <1>1, <2>3, <2>4 DEF RealityInv
<1>6. CASE DeleteLoad
  <2>1. UNCHANGED <<row, bucket, stored, engine>>
    BY <1>6 DEF DeleteLoad, database, engines
  <2> QED BY <1>1, <1>3, <2>1 DEF ProcessMoves, RealityInv
<1> QED BY <1>4, <1>5, <1>6 DEF Delete, DeleteStale, Answered

LEMMA ResetReality ==
    ASSUME TypeInv, Answered, torn = {}, SerialInv, RealityInv, Reset
    PROVE  RealityInv'
<1>0. /\ adm \in Request /\ row \in [Nodes -> Row] /\ obj \in [Nodes -> [Refs -> Row]]
      /\ cached \in [Nodes -> Refs \cup {Nil}] /\ mark \in [Nodes -> Nat] /\ last \in [Nodes -> Nat]
  BY DEF TypeInv, TypeOK
<1>1. UNCHANGED <<engine, carried, pids, smp, bucket>> /\ smp.node = Nil /\ smp.pc = "idle"
  <2>1. smp.pc = "idle" /\ smp.node = Nil
    BY TakingTurns
       DEF Reset, ResetZero, ResetForget, ResetStats, ResetSave, Begin, MayOverlap, Answered,
           TypeInv, RefsOK
  <2> QED BY <2>1 DEF Reset, ResetZero, ResetForget, ResetStats, ResetSave, engines, database
<1>2. ASSUME NEW n \in Reality, row'[n] = row[n], mark'[n] = mark[n], n \in stored' => n \in stored,
             n \in seen' => n \in seen /\ last'[n] = last[n], ResettingOK(n)'
      PROVE  RealityOK(n)'
  <2>1. NothingCounted(n)
    BY <1>1, <1>2, NodesAssumption DEF NothingCounted, ToCount, ProcessMoves
  <2> QED BY <1>2, <2>1, RealityLasts DEF RealityInv
<1>3. ASSUME NEW n \in Reality
      PROVE  /\ carried[n] \in Nat /\ engine[n].ctr \in Nat /\ engine[n].pid \in Nat /\ bucket[n] \in Nat
             /\ pids[n] \in Nat /\ RealityOK(n) /\ bucket[n] <= carried[n]
  <2>1. /\ carried[n] \in Nat /\ engine[n].ctr \in Nat /\ engine[n].pid \in Nat /\ pids[n] \in Nat
        /\ row[n].ctr \in Nat /\ bucket[n] \in Nat /\ n # Nil /\ RealityOK(n)
    BY Numbers, NodesAssumption DEF RealityInv, Row
  <2>2. bucket[n] <= Base(n, row[n].pid, row[n].ctr)
    BY <1>1, <2>1 DEF RealityOK, RestingOK
  <2>3. Base(n, row[n].pid, row[n].ctr) <= carried[n] /\ Base(n, row[n].pid, row[n].ctr) \in Int
    BY <2>1 DEF RealityOK, Known, Base, Earlier
  <2> QED BY <2>1, <2>2, <2>3
<1>4. ASSUME NEW k \in Nodes, ResetZero(k) PROVE RealityInv'
  <2>1. /\ obj' = [obj EXCEPT ![k][cached[k]].total = 0] /\ cached[k] \in Refs
        /\ adm' = [adm EXCEPT !.pc = "lock", !.node = k, !.ref = cached[k], !.mark = carried[k]]
        /\ UNCHANGED <<row, mark, stored, seen, last>>
    BY <1>0, <1>4 DEF ResetZero, Begin, database, counters
  <2>2. adm'.pc = "lock" /\ adm'.node = k /\ adm'.ref = cached[k] /\ adm'.mark = carried[k]
    BY <1>0, <2>1 DEF Request
  <2>3. obj'[k][cached[k]].total = 0
    BY <1>0, <2>1 DEF Row
  <2>4. ASSUME NEW n \in Reality PROVE ResettingOK(n)'
    BY <1>1, <1>3, <2>2, <2>3 DEF ResettingOK
  <2> QED BY <1>2, <2>1, <2>2, <2>4 DEF RealityInv
<1>a. PICK k : k = adm.node
  OBVIOUS
<1>b. PICK r : r = adm.ref
  OBVIOUS
<1>5. ASSUME k \in Reality, adm.pc \in {"lock", "baseline", "saveReset"}
      PROVE  /\ ResettingOK(k) /\ adm.mark <= carried[k] /\ obj[k][r].total = 0 /\ r \in Refs
             /\ k \in stored
  BY <1>a, <1>b, <1>5 DEF RealityInv, RealityOK, ResettingOK, TypeInv, RefsOK, SerialInv, HandlerOK,
     ResetOK
<1>6. CASE ResetForget
  <2>1. /\ adm.pc = "lock" /\ seen' = seen \ {k} /\ last' = [last EXCEPT ![k] = 0]
        /\ adm' = [adm EXCEPT !.pc = IF k \in Reality THEN "baseline" ELSE "saveReset"]
        /\ UNCHANGED <<row, mark, stored, obj>>
    BY <1>a, <1>6 DEF ResetForget, database, objects
  <2>2. /\ adm'.pc = (IF k \in Reality THEN "baseline" ELSE "saveReset") /\ adm'.node = k
        /\ adm'.ref = r /\ adm'.mark = adm.mark
    BY <1>a, <1>b, <1>0, <2>1 DEF Request
  <2>3. ASSUME NEW n \in Reality PROVE ResettingOK(n)'
    BY <1>1, <1>5, <2>1, <2>2, <2>3 DEF ResettingOK
  <2>4. ASSUME NEW n \in Reality, n \in seen' PROVE n \in seen /\ last'[n] = last[n]
    BY <1>0, <2>1, <2>4
  <2> QED BY <1>2, <2>1, <2>2, <2>3, <2>4 DEF RealityInv
<1>7. CASE ResetStats
  <2>1. PICK st \in Stats(k, "resetFail") :
           /\ adm.pc = "baseline" /\ adm' = [adm EXCEPT !.pc = "saveReset", !.stat = st]
           /\ UNCHANGED <<row, mark, stored, obj, seen, last>>
    BY <1>a, <1>7 DEF ResetStats, database, objects, counters
  <2>2. /\ adm'.pc = "saveReset" /\ adm'.node = k /\ adm'.ref = r /\ adm'.mark = adm.mark
        /\ adm'.stat = engine[k]
    BY <1>a, <1>b, <1>0, <2>1 DEF Request, Answered, Stats
  <2>3. ASSUME NEW n \in Reality, n = k PROVE ResettingOK(n)'
    <3>1. n \notin seen /\ adm.mark <= carried[n] /\ obj[n][r].total = 0
      BY <1>a, <1>5, <2>1, <2>3 DEF ResettingOK
    <3>2. /\ Known(n, engine[n].pid, engine[n].ctr)'
          /\ Base(n, engine[n].pid, engine[n].ctr)' = carried[n]
      BY <1>1, <1>3 DEF RealityOK, Known, Base, Earlier
    <3> QED BY <1>1, <1>3, <2>1, <2>2, <2>3, <3>1, <3>2 DEF ResettingOK, Known, Base, Earlier
  <2>4. ASSUME NEW n \in Reality PROVE ResettingOK(n)'
    BY <2>2, <2>3 DEF ResettingOK
  <2> QED BY <1>2, <2>1, <2>2, <2>4 DEF RealityInv
<1>8. CASE ResetSave
  <2> DEFINE new == ResetBaseline
  <2>1. /\ adm.pc = "saveReset" /\ row' = [row EXCEPT ![k] = new] /\ stored' = stored \cup {k}
        /\ mark' = [mark EXCEPT ![k] = adm.mark] /\ adm'.pc = "idle" /\ UNCHANGED <<seen, last>>
    BY <1>a, <1>8 DEF ResetSave, Persist, SaveNode, Answered, AdmIdle, counters
  <2>2. ASSUME NEW n \in Reality PROVE ResettingOK(n)'
    BY <2>1 DEF ResettingOK
  <2>3. ASSUME NEW n \in Reality \ {k} PROVE RealityOK(n)'
    BY <1>0, <1>2, <2>1, <2>2
  <2>4. ASSUME NEW n \in Reality, n = k PROVE RealityOK(n)'
    <3>1. PICK p, c : p = adm.stat.pid /\ c = adm.stat.ctr
      OBVIOUS
    <3>2. /\ n \notin seen /\ adm.mark \in Nat /\ p \in Nat /\ c \in Nat /\ obj[n][r].total = 0
          /\ r \in Refs /\ obj[n][r] \in Row
          /\ Known(n, p, c) /\ bucket[n] <= Base(n, p, c) /\ adm.mark <= Base(n, p, c)
      BY <1>a, <1>0, <1>5, <2>1, <2>4, <3>1 DEF ResettingOK, Request, Engine
    <3>3. /\ new.total = 0
          /\ new.pid = IF p > 0 THEN p ELSE NeedsBaseline
          /\ new.ctr = IF p > 0 THEN c ELSE 0
      BY <1>a, <1>b, <2>4, <3>1, <3>2 DEF ResetBaseline, Row
    <3> HIDE DEF new
    <3>4. row'[n] = new /\ mark'[n] = adm.mark
      BY <1>0, <2>1, <2>4
    <3>5. Known(n, row[n].pid, row[n].ctr)'
      BY <1>1, <1>3, <3>2, <3>3, <3>4 DEF Known, NeedsBaseline
    <3>6. Base(n, row[n].pid, row[n].ctr)' = Base(n, p, c)
      BY <1>1, <1>3, <3>2, <3>3, <3>4 DEF Base, Earlier, NeedsBaseline
    <3>7. RestingOK(n)'
      BY <1>1, <2>1, <3>2, <3>3, <3>4, <3>6 DEF RestingOK
    <3> QED BY <1>1, <1>3, <2>2, <3>5, <3>7, NodesAssumption
            DEF RealityOK, CountingOK, SavingOK, ToCount
  <2> QED BY <2>1, <2>3, <2>4 DEF RealityInv
<1> QED BY <1>4, <1>6, <1>7, <1>8 DEF Reset

\* All that was carried for n is more than what was counted for it.
LEMMA CountedWithin ==
    ASSUME TypeInv, NEW n \in Reality, RealityOK(n)
    PROVE  /\ bucket[n] <= carried[n]
           /\ smp.node = n \/ n \in stored => row[n].total + mark[n] <= carried[n]
<1>1. /\ carried[n] \in Nat /\ engine[n].ctr \in Nat /\ row[n].ctr \in Nat /\ bucket[n] \in Nat
      /\ row[n].total \in Nat /\ mark[n] \in Nat /\ smp.pend \in Nat /\ smp.read[n].ctr \in Nat
  BY Numbers DEF Row
<1>2. ASSUME NEW p, NEW c \in Nat, Known(n, p, c)
      PROVE  Base(n, p, c) <= carried[n] /\ Base(n, p, c) \in Int
  BY <1>1, <1>2 DEF Known, Base, Earlier, RealityOK
<1>3. CASE smp.node = n
  <2>1. PICK p, c : p = smp.read[n].pid /\ c = smp.read[n].ctr
    OBVIOUS
  <2>2. /\ Known(n, p, c) /\ bucket[n] <= Base(n, p, c)
        /\ row[n].total + mark[n] + smp.pend <= Base(n, p, c)
    BY <1>3, <2>1 DEF RealityOK, SavingOK
  <2> QED BY <1>1, <1>2, <2>1, <2>2
<1>4. CASE smp.node # n
  <2>1. /\ Known(n, row[n].pid, row[n].ctr) /\ bucket[n] <= Base(n, row[n].pid, row[n].ctr)
        /\ n \in stored => row[n].total + mark[n] <= Base(n, row[n].pid, row[n].ctr)
    BY <1>4 DEF RealityOK, RestingOK
  <2> QED BY <1>1, <1>2, <1>4, <2>1
<1> QED BY <1>3, <1>4

LEMMA RestartReality ==
    ASSUME TypeInv, SerialInv, RealityInv, PanelRestart
    PROVE  RealityInv'
<1>1. /\ UNCHANGED <<stored, row, bucket, pids, carried, mark>> /\ seen' = {}
      /\ smp'.pc = "idle" /\ smp'.node = Nil /\ adm'.pc = "idle" /\ adm'.node = Nil
      /\ \A n \in Reality : engine'[n] = Stopped
  BY NodesAssumption DEF PanelRestart, database, SmpIdle, AdmIdle
<1>2. ASSUME NEW n \in Reality PROVE RealityOK(n)'
  <2>1. /\ RealityOK(n) /\ n # Nil /\ pids[n] \in Nat /\ carried[n] \in Nat
        /\ bucket[n] <= carried[n] /\ (n \in stored => row[n].total + mark[n] <= carried[n])
    BY CountedWithin, Numbers, NodesAssumption DEF RealityInv
  <2>2. RestingOK(n)' /\ Known(n, row[n].pid, row[n].ctr)'
    BY <1>1, <2>1 DEF RestingOK, Known, Base, Earlier, Stopped, RealityOK
  <2> QED BY <1>1, <2>1, <2>2 DEF RealityOK, CountingOK, SavingOK, ResettingOK, ToCount, Stopped
<1> QED BY <1>1, <1>2 DEF RealityInv

LEMMA StepReality ==
    ASSUME TypeInv, NoneTorn, Answered, SerialInv, RealityInv, [Next]_vars
    PROVE  RealityInv'
<1>1. CASE UNCHANGED vars
  BY <1>1 DEF vars, RealityInv, RealityOK, RestingOK, CountingOK, SavingOK, ResettingOK, ToCount,
     Known, Base, Earlier, PrevOf, Delta
<1>2. ~Update
  BY DEF Answered, RealityInv, Update, UpdateBuild, UpdateSave, UpdateLoad, UpdateStale,
     UpdateApplied, UpdateFailed, UndoSave, UndoApply, StoreRefuses, Begin
<1>3. torn = {}
  BY DEF NoneTorn, Answered
<1> QED BY <1>1, <1>2, <1>3, EngineReality, ReloadReality, SamplerReality, DeleteReality,
        ResetReality, RestartReality DEF Next

\* What a sing-box process carries is counted at most once, in the hourly points and in
\* the totals since the last reset, under processes that exit, panel restarts, resets and
\* deletions, when the API answers, the store takes what it is given and no edit drops
\* the baseline (sampleReality, ResetNodeTraffic).
THEOREM RealityCountedOnceHolds == Spec => []RealityCountedOnce
<1> DEFINE IndInv == TypeInv /\ NoneTorn /\ (Serial => SerialInv) /\ (Answered => RealityInv)
<1>0. Answered => Serial
  BY DEF Answered, Serial
<1>1. Init => IndInv
  BY InitTypes, InitSerial, InitReality
<1>2. IndInv /\ [Next]_vars => IndInv'
  BY <1>0, TypeStep, TornStep, StepSerial, StepReality, ScenarioStep DEF Serial, Answered
<1>3. IndInv => RealityCountedOnce
  <2> SUFFICES ASSUME TypeInv, torn = {}, SerialInv, RealityInv, NEW n \in Reality
               PROVE  bucket[n] <= carried[n] /\ TotalsWithin(n)
    BY <1>0 DEF Answered, NoneTorn, RealityCountedOnce
  <2>1. /\ carried[n] \in Nat /\ row[n].total \in Nat /\ mark[n] \in Nat
        /\ bucket[n] <= carried[n] /\ (n \in stored => row[n].total + mark[n] <= carried[n])
    BY CountedWithin, Numbers DEF RealityInv, Row
  <2>2. Settled(n) => CacheOK(n)
    BY DEF SerialInv, Caching, Settled
  <2> QED BY <2>1, <2>2 DEF TotalsWithin, CacheOK
<1> QED BY <1>1, <1>2, <1>3, PTL DEF Spec
=============================================================================

--------------------------- MODULE NodeSyncProofs ---------------------------
(***************************************************************************)
(* Theorems about NodeSync, for any ids, forms and scenarios: types, and   *)
(* that a start of the panel repairs a node until a handler touches it.    *)
(***************************************************************************)
EXTENDS NodeSync, TLAPS

\* Whoever is about to write gost.yml holds a configuration to write.
SnapsOK == \A x \in Ids : h[x].pc \in {"write", "rmWrite"} => h[x].snap \in [Ids -> Opt]

\* Without restarts that leave them behind no process is without its pool.
NoOrphans == "orphan" \notin sc.env => panel.orphans = {}

TypeInv == TypeOK /\ SnapsOK /\ NoOrphans

\* gost carries what the row says, and so does the pool, or it has no handle to a
\* process that no row wants.
Repaired(id) ==
    InGost(id) /\ (InPool(id) \/ (id \in panel.orphans /\ ForSingBox(row[id]) = Nil))

\* What a fresh node needs in every place a later step reads: the engines, the
\* file gost starts from, and the configurations on their way to that file.
FreshInv(id) ==
    /\ h[id].pc = "idle"
    /\ file[id] = ForGost(row[id])
    /\ \A x \in Ids : h[x].pc \in {"write", "rmWrite"} => h[x].snap[id] = ForGost(row[id])
    /\ sync # Nil => sync[id] = ForGost(row[id])
    /\ Repaired(id)

HealInv == \A id \in Ids : fresh[id] => FreshInv(id)

IInv == TypeInv /\ HealInv

\* Where a step of ApplyNode or RemoveNode may be: in the calls for gost, in the one
\* for the pool, or past both.
GostPcs == {"limits", "service", "list", "write", "rmService", "rmLimits", "rmList", "rmWrite"}
PoolPcs == {"reality", "rmReality"}

\* ApplyNode, and the update that is about to be taken back.
ApplyPcs == {"limits", "service", "list", "write", "reality", "undo"}

RunsOn(id, mode) == row[id] # Nil /\ row[id].mode = mode

\* Neither gost nor gost.yml nor anyone about to write it knows the node.
NotInGost(id) ==
    /\ svc[id] = Nil /\ lim[id] = Nil /\ file[id] = Nil
    /\ \A x \in Ids : h[x].pc \in {"write", "rmWrite"} => h[x].snap[id] = Nil
    /\ sync # Nil => sync[id] = Nil

\* A node is known to its own engine only.  A deleted node may be left over in
\* gost, but its id is not used again.
PlaceOK(id) ==
    /\ row[id] # Nil => id \in used
    /\ id \notin used \/ RunsOn(id, "reality") => NotInGost(id)
    /\ id \notin used \/ RunsOn(id, "gost") => sb[id] = Nil

\* A handler works on the row that is there, for the engine of that row, and an
\* update that fails goes back to a row of the same engine.
WorkOK(id) ==
    /\ h[id].pc # "idle" => row[id] # Nil
    /\ h[id].pc \in ApplyPcs => row[id] = h[id].cfg
    /\ h[id].op = "update" => h[id].old # Nil /\ h[id].old.mode = h[id].cfg.mode
    /\ h[id].pc = "undo" => h[id].op = "update"
    /\ h[id].pc \in GostPcs => RunsOn(id, "gost")
    /\ h[id].pc \in PoolPcs => RunsOn(id, "reality")

ModeInv == "switch" \notin sc.env => \A id \in Ids : PlaceOK(id) /\ WorkOK(id)

\* gost.yml, and what is about to be written to it, is right for the node.
Filed(id) ==
    /\ file[id] = ForGost(row[id])
    /\ \A x \in Ids : h[x].pc \in {"write", "rmWrite"} => h[x].snap[id] = ForGost(row[id])
    /\ sync # Nil => sync[id] = ForGost(row[id])

\* What an ApplyNode or RemoveNode that met no error so far has done.  Only a node
\* nobody has touched since gost was to start is in order while gost is down, and it
\* is the file that gost will take it from.
ServedOK(id) == ~failed[id] =>
    /\ h[id].pc = "idle" => InSync(id) /\ (~up => Filed(id))
    /\ h[id].pc = "service" => up /\ lim[id] = ForGost(row[id])
    /\ h[id].pc \in {"list", "write"} =>
          up /\ svc[id] = ForGost(row[id]) /\ lim[id] = ForGost(row[id])
    /\ h[id].pc = "rmLimits" => up /\ svc[id] = Nil
    /\ h[id].pc \in {"rmList", "rmWrite"} => up /\ svc[id] = Nil /\ lim[id] = Nil
    /\ h[id].pc = "drop" =>
          /\ RunsOn(id, "gost") => up /\ svc[id] = Nil /\ lim[id] = Nil
          /\ RunsOn(id, "reality") => sb[id] = Nil

ServedInv == sc.env \cap {"crash", "switch", "orphan"} = {} => \A id \in Ids : ServedOK(id)

\* With one writer at a time, whoever is about to write gost.yml holds what the rows
\* say now.
OneWriter ==
    /\ sync # Nil => sync = BuildConfig(row) /\ \A id \in Ids : h[id].pc = "idle"
    /\ \A x, y \in Ids : x # y => h[x].pc = "idle" \/ h[y].pc = "idle"
    /\ \A x \in Ids : h[x].pc \in {"write", "rmWrite"} => h[x].snap = BuildConfig(row)

FileOK(id) ==
    /\ h[id].op \in {"none", "update", "toggle", "undo"}
    /\ h[id].pc \in ApplyPcs \cup {"idle"}
    /\ h[id].pc = "idle" /\ ~failed[id] => file[id] = ForGost(row[id])

FileInv ==
    sc.env \cap {"overlap", "switch", "create", "delete"} = {} =>
        OneWriter /\ \A id \in Ids : FileOK(id)

-----------------------------------------------------------------------------
(* What BuildConfig and the pool make of the rows.                         *)

\* ForGost and ForSingBox give a configuration or Nil.
LEMMA ForTypes ==
    ASSUME NEW c \in Opt
    PROVE  ForGost(c) \in Opt /\ ForSingBox(c) \in Opt
  BY DEF ForGost, ForSingBox, Opt

\* BuildConfig and SingBox give a table with an entry for each node.
LEMMA TableTypes ==
    ASSUME NEW nodes \in [Ids -> Opt]
    PROVE  /\ BuildConfig(nodes) \in [Ids -> Opt]
           /\ SingBox(nodes) \in [Ids -> Opt]
           /\ None \in [Ids -> Opt]
           /\ \A id \in Ids : /\ BuildConfig(nodes)[id] = ForGost(nodes[id])
                              /\ SingBox(nodes)[id] = ForSingBox(nodes[id])
  BY ForTypes DEF BuildConfig, SingBox, None, Opt

\* A handler that is idle holds nothing.
LEMMA IdleType == Idle \in Handler /\ Idle.pc = "idle"
  BY DEF Idle, Handler, Pcs, Ops, Opt

\* The pool is told about one node: it has what it was told, or keeps the process it
\* has no handle to.
LEMMA PoolEffect ==
    ASSUME TypeInv, NEW id \in Ids, NEW c \in Opt, PoolSets(id, c)
    PROVE  /\ sb' \in [Ids -> Opt]
           /\ panel' \in [started : BOOLEAN, orphans : SUBSET Ids]
           /\ panel'.orphans \subseteq panel.orphans
           /\ \A x \in Ids \ {id} :
                 sb'[x] = sb[x] /\ (x \in panel'.orphans <=> x \in panel.orphans)
           /\ panel.orphans = {} => sb'[id] = c
  BY DEF PoolSets, TypeInv, TypeOK

-----------------------------------------------------------------------------
(* Every action keeps the types.                                           *)

LEMMA InitTypes == Init => TypeInv
<1> SUFFICES ASSUME Init PROVE TypeInv
  OBVIOUS
<1>1. row \in [Ids -> Opt]
  BY DEF Init, Forms, Opt
<1>2. TypeOK
  BY <1>1, TableTypes, IdleType DEF Init, TypeOK
<1>3. SnapsOK /\ NoOrphans
  BY IdleType DEF Init, SnapsOK, NoOrphans
<1> QED BY <1>2, <1>3 DEF TypeInv

\* The table of handlers after a step of the handler of id that does not write.
Moved(id, h1) ==
    /\ h1 \in [Ids -> Handler]
    /\ h1[id].pc \notin {"write", "rmWrite"}
    /\ \A x \in Ids : x # id => h1[x] = h[x]

LEMMA HandlerStep ==
    ASSUME TypeInv, NEW id \in Ids, NEW pc \in Pcs \ {"write", "rmWrite"}
    PROVE  /\ h' = [h EXCEPT ![id].pc = pc] => Moved(id, h')
           /\ h' = [h EXCEPT ![id] = Idle] => Moved(id, h')
<1>1. h \in [Ids -> Handler]
  BY DEF TypeInv, TypeOK
<1>2. [h EXCEPT ![id].pc = pc] \in [Ids -> Handler]
  BY <1>1 DEF Handler
<1>3. [h EXCEPT ![id].pc = pc][id].pc = pc
  BY <1>1 DEF Handler
<1> QED BY <1>1, <1>2, <1>3, IdleType DEF Moved

LEMMA AbortTypes ==
    ASSUME TypeInv, NEW id \in Ids, Abort(id)
    PROVE  Moved(id, h') /\ failed' \in [Ids -> BOOLEAN]
<1>1. failed' \in [Ids -> BOOLEAN]
  BY DEF Abort, TypeInv, TypeOK
<1>2. {"rmReality", "rmService", "undo"} \subseteq Pcs \ {"write", "rmWrite"}
  BY DEF Pcs
<1>3. CASE h[id].op = "create"
  <2> DEFINE pc == IF h[id].cfg.mode = "reality" THEN "rmReality" ELSE "rmService"
  <2>1. h' = [h EXCEPT ![id].pc = pc]
    BY <1>3 DEF Abort
  <2>2. pc \in Pcs \ {"write", "rmWrite"}
    BY <1>2
  <2> HIDE DEF pc
  <2> QED BY <1>1, <2>1, <2>2, HandlerStep
<1>4. CASE h[id].op = "update"
  BY <1>1, <1>2, <1>4, HandlerStep DEF Abort
<1>5. CASE h[id].op \notin {"create", "update"}
  BY <1>1, <1>2, <1>5, HandlerStep DEF Abort
<1> QED BY <1>3, <1>4, <1>5

LEMMA CallTypes ==
    ASSUME TypeInv, NEW id \in Ids,
           ApplyLimits(id) \/ ApplyService(id) \/ RemoveService(id) \/ RemoveLimits(id)
    PROVE  /\ svc' \in [Ids -> Opt] /\ lim' \in [Ids -> Opt]
           /\ \A x \in Ids : x # id => svc'[x] = svc[x] /\ lim'[x] = lim[x]
  BY ForTypes DEF ApplyLimits, ApplyService, RemoveService, RemoveLimits, RemoveCall, Effect,
       TypeInv, TypeOK, Handler, Opt

\* A step of the handler of id, and the h it leaves: the others' are untouched.
LEMMA ApplyTypes ==
    ASSUME TypeInv, NEW id \in Ids, Apply(id)
    PROVE  TypeInv' /\ \A x \in Ids : x # id => h'[x] = h[x]
<1>0. h \in [Ids -> Handler] /\ row \in [Ids -> Opt] /\ failed \in [Ids -> BOOLEAN]
  BY DEF TypeInv, TypeOK
<1>1. CASE ApplyLimits(id)
  <2>1. Moved(id, h') /\ failed' \in [Ids -> BOOLEAN]
    <3>1. \/ Goto(id, "service")
          \/ Abort(id)
          \/ h' = [h EXCEPT ![id].pc = "service"] /\ failed' = [failed EXCEPT ![id] = TRUE]
      BY <1>1 DEF ApplyLimits
    <3>2. "service" \in Pcs \ {"write", "rmWrite"} /\ "list" \in Pcs \ {"write", "rmWrite"}
      BY DEF Pcs
    <3> QED BY <1>0, <3>1, <3>2, AbortTypes, HandlerStep DEF Goto
  <2> QED BY <1>1, <2>1, CallTypes DEF ApplyLimits, TypeInv, TypeOK, SnapsOK, NoOrphans, Moved, kept
<1>2. CASE ApplyService(id)
  <2>1. Moved(id, h') /\ failed' \in [Ids -> BOOLEAN]
    <3>1. Goto(id, "list") \/ Abort(id)
      BY <1>2 DEF ApplyService
    <3>2. "service" \in Pcs \ {"write", "rmWrite"} /\ "list" \in Pcs \ {"write", "rmWrite"}
      BY DEF Pcs
    <3> QED BY <1>0, <3>1, <3>2, AbortTypes, HandlerStep DEF Goto
  <2> QED BY <1>2, <2>1, CallTypes DEF ApplyService, TypeInv, TypeOK, SnapsOK, NoOrphans, Moved, kept
<1>3. CASE ApplyList(id)
  <2>1. BuildConfig(row) \in [Ids -> Opt]
    BY <1>0, TableTypes
  <2>2. h' \in [Ids -> Handler] /\ h'[id].snap \in [Ids -> Opt]
        /\ \A x \in Ids : x # id => h'[x] = h[x]
    BY ZenonT(40), <1>0, <1>3, <2>1 DEF ApplyList, Handler, Pcs
  <2> QED BY <1>3, <2>2 DEF ApplyList, TypeInv, TypeOK, SnapsOK, NoOrphans, Moved, kept, gost
<1>4. CASE ApplyWrite(id)
  <2>1. Moved(id, h') /\ failed' \in [Ids -> BOOLEAN]
    BY <1>0, <1>4, AbortTypes, HandlerStep, IdleType DEF ApplyWrite, Finish, Pcs
  <2>2. file' \in [Ids -> Opt]
    BY <1>4 DEF ApplyWrite, TypeInv, TypeOK, SnapsOK, NoOrphans
  <2> QED BY <1>4, <2>1, <2>2 DEF ApplyWrite, TypeInv, TypeOK, SnapsOK, NoOrphans, Moved, kept, gost
<1>5. CASE ApplyReality(id)
  <2>1. Moved(id, h') /\ failed' \in [Ids -> BOOLEAN]
    BY <1>0, <1>5, AbortTypes, HandlerStep, IdleType DEF ApplyReality, Finish, Pcs
  <2>2. /\ sb' \in [Ids -> Opt] /\ panel' \in [started : BOOLEAN, orphans : SUBSET Ids]
        /\ panel'.orphans \subseteq panel.orphans
    <3>1. h[id].cfg \in Opt /\ ForSingBox(h[id].cfg) \in Opt
      BY <1>0, ForTypes DEF Handler
    <3> QED BY <1>5, <3>1, PoolEffect DEF ApplyReality, TypeInv, TypeOK
  <2> QED BY <1>5, <2>1, <2>2 DEF ApplyReality, TypeInv, TypeOK, SnapsOK, NoOrphans, Moved, kept, gost
<1>6. CASE Undo(id)
  <2>1. Moved(id, h')
    <3> DEFINE next == [Idle EXCEPT !.pc = ApplyPc(h[id].old), !.op = "undo", !.cfg = h[id].old]
    <3>1. next \in Handler /\ next.pc \notin {"write", "rmWrite"}
      BY <1>0, IdleType DEF Handler, Idle, ApplyPc, Pcs, Ops
    <3>2. h' = [h EXCEPT ![id] = next]
      BY <1>6 DEF Undo
    <3> QED BY <1>0, <3>1, <3>2 DEF Moved
  <2>2. row' \in [Ids -> Opt]
    BY <1>0, <1>6 DEF Undo, Handler
  <2> QED BY <1>6, <2>1, <2>2 DEF Undo, TypeInv, TypeOK, SnapsOK, NoOrphans, Moved, gost
<1> QED BY <1>1, <1>2, <1>3, <1>4, <1>5, <1>6 DEF Apply

LEMMA RemoveTypes ==
    ASSUME TypeInv, NEW id \in Ids, Remove(id) \/ StoreFails(id)
    PROVE  TypeInv' /\ \A x \in Ids : x # id => h'[x] = h[x]
<1>0. h \in [Ids -> Handler] /\ row \in [Ids -> Opt] /\ failed \in [Ids -> BOOLEAN]
  BY DEF TypeInv, TypeOK
<1>1. CASE RemoveService(id)
  <2>1. Moved(id, h') /\ failed' \in [Ids -> BOOLEAN]
    <3>1. h' = [h EXCEPT ![id].pc = "rmLimits"]
      BY <1>1 DEF RemoveService, RemoveCall
    <3>2. failed' \in [Ids -> BOOLEAN]
      BY <1>0, <1>1 DEF RemoveService, RemoveCall
    <3> QED BY <3>1, <3>2, HandlerStep DEF Pcs
  <2> QED BY <1>1, <2>1, CallTypes DEF RemoveService, TypeInv, TypeOK, SnapsOK, NoOrphans, Moved, kept
<1>2. CASE RemoveLimits(id)
  <2>1. Moved(id, h') /\ failed' \in [Ids -> BOOLEAN]
    <3>1. h' = [h EXCEPT ![id].pc = "rmList"]
      BY <1>2 DEF RemoveLimits, RemoveCall
    <3>2. failed' \in [Ids -> BOOLEAN]
      BY <1>0, <1>2 DEF RemoveLimits, RemoveCall
    <3> QED BY <3>1, <3>2, HandlerStep DEF Pcs
  <2> QED BY <1>2, <2>1, CallTypes DEF RemoveLimits, TypeInv, TypeOK, SnapsOK, NoOrphans, Moved, kept
<1>3. CASE RemoveReality(id)
  <2>1. Moved(id, h')
    BY <1>0, <1>3, HandlerStep DEF RemoveReality, Goto, Pcs, Handler
  <2>2. /\ sb' \in [Ids -> Opt] /\ panel' \in [started : BOOLEAN, orphans : SUBSET Ids]
        /\ panel'.orphans \subseteq panel.orphans
    BY <1>3, PoolEffect DEF RemoveReality, Opt
  <2> QED BY <1>3, <2>1, <2>2 DEF RemoveReality, Goto, TypeInv, TypeOK, SnapsOK, NoOrphans, Moved, kept, gost
<1>4. CASE RemoveList(id)
  <2>1. BuildConfig(row) \in [Ids -> Opt]
    BY <1>0, TableTypes
  <2>2. h' \in [Ids -> Handler] /\ h'[id].snap \in [Ids -> Opt]
        /\ \A x \in Ids : x # id => h'[x] = h[x]
    BY ZenonT(40), <1>0, <1>4, <2>1 DEF RemoveList, Handler, Pcs
  <2> QED BY <1>4, <2>2 DEF RemoveList, TypeInv, TypeOK, SnapsOK, NoOrphans, Moved, kept, gost
<1>5. CASE RemoveWrite(id)
  <2>1. Moved(id, h') /\ failed' \in [Ids -> BOOLEAN]
    <3>1. h' = [h EXCEPT ![id].pc = "drop"]
      BY <1>5 DEF RemoveWrite, Goto
    <3>2. failed' \in [Ids -> BOOLEAN]
      BY <1>0, <1>5 DEF RemoveWrite, Goto
    <3> QED BY <3>1, <3>2, HandlerStep DEF Pcs
  <2>2. file' \in [Ids -> Opt]
    BY <1>5 DEF RemoveWrite, TypeInv, TypeOK, SnapsOK, NoOrphans
  <2> QED BY <1>5, <2>1, <2>2 DEF RemoveWrite, TypeInv, TypeOK, SnapsOK, NoOrphans, Moved, kept, gost
<1>6. CASE DropRow(id)
  <2>1. Moved(id, h')
    BY <1>0, <1>6, HandlerStep, IdleType DEF DropRow, Finish, Pcs
  <2>2. row' \in [Ids -> Opt]
    BY <1>0, <1>6 DEF DropRow, Opt
  <2> QED BY <1>6, <2>1, <2>2 DEF DropRow, Finish, TypeInv, TypeOK, SnapsOK, NoOrphans, Moved, gost
<1>7. CASE StoreFails(id)
  <2>1. Moved(id, h') /\ failed' \in [Ids -> BOOLEAN]
    BY <1>0, <1>7, HandlerStep, IdleType DEF StoreFails, Pcs
  <2> QED BY <1>7, <2>1 DEF StoreFails, TypeInv, TypeOK, SnapsOK, NoOrphans, Moved, kept, gost
<1> QED BY <1>1, <1>2, <1>3, <1>4, <1>5, <1>6, <1>7 DEF Remove

\* SaveNode and the start of ApplyNode.
LEMMA SaveTypes ==
    ASSUME TypeInv, NEW id \in Ids, NEW op \in Ops, NEW c \in Cfg, SaveAndApply(id, op, c)
    PROVE  TypeInv' /\ Moved(id, h')
<1>0. h \in [Ids -> Handler] /\ row \in [Ids -> Opt]
  BY DEF TypeInv, TypeOK
<1> DEFINE next == [Idle EXCEPT !.pc = ApplyPc(c), !.op = op, !.cfg = c,
                        !.old = IF op = "update" THEN row[id] ELSE Nil]
<1>1. h' = [h EXCEPT ![id] = next]
  BY DEF SaveAndApply
<1>2. next \in Handler /\ next.pc \notin {"write", "rmWrite"}
  BY <1>0, IdleType DEF Handler, Idle, ApplyPc, Pcs, Opt
<1> HIDE DEF next
<1>3. Moved(id, h')
  BY <1>0, <1>1, <1>2 DEF Moved
<1>4. row' \in [Ids -> Opt] /\ used' \subseteq Ids
  BY <1>0 DEF SaveAndApply, TypeInv, TypeOK, Opt
<1> QED BY <1>3, <1>4 DEF SaveAndApply, TypeInv, TypeOK, SnapsOK, NoOrphans, Moved, gost

LEMMA HandlersTypes ==
    ASSUME TypeInv, NEW id \in Ids, Create(id) \/ Update(id) \/ Toggle(id) \/ Delete(id)
    PROVE  TypeInv' /\ Moved(id, h')
<1>0. h \in [Ids -> Handler] /\ row \in [Ids -> Opt]
  BY DEF TypeInv, TypeOK
<1>1. CASE Create(id)
  BY <1>1, SaveTypes DEF Create, Forms, Ops
<1>2. CASE Update(id)
  BY <1>2, SaveTypes DEF Update, Forms, Ops
<1>3. CASE Toggle(id)
  <2>1. PICK b \in BOOLEAN : SaveAndApply(id, "toggle", [row[id] EXCEPT !.on = b])
    BY <1>3 DEF Toggle
  <2>2. [row[id] EXCEPT !.on = b] \in Cfg
    BY <1>0, <1>3 DEF Toggle, Opt, Cfg
  <2> QED BY <2>1, <2>2, SaveTypes DEF Ops
<1>4. CASE Delete(id)
  <2> DEFINE next == [Idle EXCEPT !.op = "delete", !.cfg = row[id],
                 !.pc = IF row[id].mode = "reality" THEN "rmReality" ELSE "rmService"]
  <2>1. h' = [h EXCEPT ![id] = next]
    BY <1>4 DEF Delete
  <2>2. next \in Handler /\ next.pc \notin {"write", "rmWrite"}
    BY <1>0, IdleType DEF Handler, Idle, Pcs, Ops
  <2> HIDE DEF next
  <2>3. Moved(id, h')
    BY <1>0, <2>1, <2>2 DEF Moved
  <2> QED BY <1>4, <2>3 DEF Delete, TypeInv, TypeOK, SnapsOK, NoOrphans, Moved, gost, kept
<1> QED BY <1>1, <1>2, <1>3, <1>4

\* What a stop leaves of the processes: some of those that ran, none of them when there
\* were no orphans and the restart makes none.
LEMMA LeftTypes ==
    ASSUME TypeInv, NEW left \in Left
    PROVE  left \in [Ids -> Opt] /\ \A id \in Ids : left[id] \in {sb[id], Nil}
  BY DEF Left, TypeInv, TypeOK, Opt

LEMMA NoneLeft ==
    ASSUME TypeInv, NEW left \in Left, "orphan" \notin sc.env
    PROVE  \A id \in Ids : left[id] = Nil
  BY DEF Left, TypeInv, NoOrphans

LEMMA ProcessTypes ==
    ASSUME TypeInv, SyncList \/ SyncWrite \/ GostExit \/ GostStart \/ PanelRestart \/ BootFails
    PROVE  TypeInv'
<1>0. h \in [Ids -> Handler] /\ row \in [Ids -> Opt]
  BY DEF TypeInv, TypeOK
<1>1. CASE SyncList
  BY <1>0, <1>1, TableTypes DEF SyncList, TypeInv, TypeOK, SnapsOK, NoOrphans, gost, kept
<1>2. CASE SyncWrite
  BY <1>2 DEF SyncWrite, TypeInv, TypeOK, SnapsOK, NoOrphans, gost, kept
<1>3. CASE GostExit
  BY <1>0, <1>3, TableTypes DEF GostExit, TypeInv, TypeOK, SnapsOK, NoOrphans, kept
<1>4. CASE GostStart
  BY <1>4 DEF GostStart, TypeInv, TypeOK, SnapsOK, NoOrphans, kept
<1>5. CASE PanelRestart
  <2>1. PICK left \in Left, bad \in SUBSET Refused : Stopped /\ SyncReality(left, bad)
    BY <1>5 DEF PanelRestart
  <2>2. left \in [Ids -> Opt]
    BY LeftTypes
  <2>3. file' = BuildConfig(row)
    BY <1>5 DEF PanelRestart
  <2>4. sb' \in [Ids -> Opt]
    BY <1>0, <2>1, <2>2, ForTypes DEF SyncReality
  <2>5. NoOrphans'
    BY <2>1, NoneLeft DEF SyncReality, Stopped, NoOrphans
  <2>6. /\ panel' \in [started : BOOLEAN, orphans : SUBSET Ids]
        /\ failed' \in [Ids -> BOOLEAN] /\ fresh' \in [Ids -> BOOLEAN]
    BY <2>1 DEF SyncReality
  <2>7. TypeOK'
    BY <1>0, <2>1, <2>3, <2>4, <2>6, TableTypes, IdleType DEF Stopped, TypeInv, TypeOK
  <2> QED BY <1>0, <2>1, <2>5, <2>7, IdleType DEF Stopped, TypeInv, SnapsOK
<1>6. CASE BootFails
  <2>1. sb' \in [Ids -> Opt]
    BY <1>6, LeftTypes DEF BootFails
  <2>2. file' \in [Ids -> Opt]
    BY <1>0, <1>6, TableTypes DEF BootFails, TypeInv, TypeOK
  <2>3. NoOrphans'
    BY <1>6, NoneLeft DEF BootFails, Stopped, NoOrphans
  <2> QED BY <1>0, <1>6, <2>1, <2>2, <2>3, TableTypes, IdleType
         DEF BootFails, Stopped, TypeInv, TypeOK, SnapsOK
<1> QED BY <1>1, <1>2, <1>3, <1>4, <1>5, <1>6

LEMMA StepTypes == TypeInv /\ [Next]_vars => TypeInv'
<1> SUFFICES ASSUME TypeInv, [Next]_vars PROVE TypeInv'
  OBVIOUS
<1>1. CASE \E id \in Ids : Create(id) \/ Update(id) \/ Toggle(id) \/ Delete(id)
  BY <1>1, HandlersTypes
<1>2. CASE \E id \in Ids : Apply(id) \/ Remove(id) \/ StoreFails(id)
  BY <1>2, ApplyTypes, RemoveTypes
<1>3. CASE SyncList \/ SyncWrite \/ GostExit \/ GostStart \/ PanelRestart \/ BootFails
  BY <1>3, ProcessTypes
<1>4. CASE UNCHANGED vars
  BY <1>4 DEF vars, TypeInv, TypeOK, SnapsOK, NoOrphans, kept, gost
<1> QED BY <1>1, <1>2, <1>3, <1>4 DEF Next

\* Every variable has its type in every reachable state, whatever the scenario
\* (internal/controller/controller.go, internal/server/handlers_nodes.go).
THEOREM TypeCorrect == Spec => []TypeOK
<1>1. Spec => []TypeInv
  BY InitTypes, StepTypes, PTL DEF Spec
<1> QED BY <1>1, PTL DEF TypeInv

-----------------------------------------------------------------------------
(* A fresh node stays in sync.                                             *)

\* What a step of the handler of id may change: row, engines and its own state at
\* id only; to gost.yml it writes the configuration it holds, and what it is about to
\* write it has made from the rows.
StepOf(id) ==
    /\ sc' = sc /\ up' = up /\ sync' = sync
    /\ \A x \in Ids \ {id} :
          /\ h'[x] = h[x] /\ row'[x] = row[x] /\ failed'[x] = failed[x]
          /\ svc'[x] = svc[x] /\ lim'[x] = lim[x] /\ sb'[x] = sb[x]
          /\ x \in used <=> x \in used'
          /\ x \in panel'.orphans <=> x \in panel.orphans
    /\ \/ file' = file
       \/ h[id].pc \in {"write", "rmWrite"} /\ file' = h[id].snap
    /\ h'[id].pc \in {"write", "rmWrite"} => row' = row /\ h'[id].snap = BuildConfig(row)

LEMMA ApplyEffect ==
    ASSUME TypeInv, NEW id \in Ids, Apply(id)
    PROVE  StepOf(id)
<1>1. \A x \in Ids \ {id} : h'[x] = h[x] /\ svc'[x] = svc[x] /\ lim'[x] = lim[x]
  <2>1. \A x \in Ids \ {id} : svc'[x] = svc[x] /\ lim'[x] = lim[x]
    BY CallTypes DEF Apply, ApplyList, ApplyWrite, ApplyReality, Undo, gost
  <2> QED BY <2>1, ApplyTypes
<1>2. h \in [Ids -> Handler] /\ row \in [Ids -> Opt] /\ sb \in [Ids -> Opt]
        /\ failed \in [Ids -> BOOLEAN]
  BY DEF TypeInv, TypeOK
<1>3. \A x \in Ids \ {id} : failed'[x] = failed[x]
  BY <1>2 DEF Apply, ApplyLimits, ApplyService, ApplyList, ApplyWrite, ApplyReality, Undo,
       Goto, Finish, Abort
<1>4. CASE ApplyLimits(id) \/ ApplyService(id)
  <2>1. h'[id].pc \notin {"write", "rmWrite"}
    <3>1. Goto(id, "service") \/ Goto(id, "list") \/ Abort(id)
             \/ h' = [h EXCEPT ![id].pc = "service"]
      BY <1>4 DEF ApplyLimits, ApplyService
    <3>2. "service" \in Pcs \ {"write", "rmWrite"} /\ "list" \in Pcs \ {"write", "rmWrite"}
      BY DEF Pcs
    <3> QED BY <1>2, <3>1, <3>2, AbortTypes, HandlerStep DEF Goto, Moved
  <2> QED BY <1>1, <1>3, <1>4, <2>1 DEF ApplyLimits, ApplyService, kept, StepOf
<1>5. CASE ApplyList(id)
  <2>1. h'[id].snap = BuildConfig(row)
    BY <1>2, <1>5 DEF ApplyList, Handler
  <2> QED BY <1>1, <1>3, <1>5, <2>1 DEF ApplyList, kept, gost, StepOf
<1>6. CASE ApplyWrite(id)
  <2>1. h'[id].pc \notin {"write", "rmWrite"}
    BY <1>2, <1>6, AbortTypes, IdleType DEF ApplyWrite, Finish, Moved
  <2> QED BY <1>1, <1>3, <1>6, <2>1 DEF ApplyWrite, kept, gost, StepOf
<1>7. CASE ApplyReality(id)
  <2>1. h'[id].pc \notin {"write", "rmWrite"}
    BY <1>2, <1>7, AbortTypes, IdleType DEF ApplyReality, Finish, Moved
  <2>2. \A x \in Ids \ {id} :
            sb'[x] = sb[x] /\ (x \in panel'.orphans <=> x \in panel.orphans)
    <3>1. ForSingBox(h[id].cfg) \in Opt
      BY <1>2, ForTypes DEF Handler
    <3> QED BY <1>7, <3>1, PoolEffect DEF ApplyReality
  <2> QED BY <1>1, <1>3, <1>7, <2>1, <2>2 DEF ApplyReality, kept, gost, StepOf
<1>8. CASE Undo(id)
  <2>1. h'[id].pc \notin {"write", "rmWrite"}
    BY <1>2, <1>8 DEF Undo, Idle, ApplyPc, Handler
  <2>2. \A x \in Ids \ {id} : row'[x] = row[x]
    BY <1>2, <1>8 DEF Undo
  <2> QED BY <1>1, <1>3, <1>8, <2>1, <2>2 DEF Undo, gost, StepOf
<1> QED BY <1>4, <1>5, <1>6, <1>7, <1>8 DEF Apply

LEMMA RemoveEffect ==
    ASSUME TypeInv, NEW id \in Ids, Remove(id) \/ StoreFails(id)
    PROVE  StepOf(id)
<1>1. \A x \in Ids \ {id} : h'[x] = h[x] /\ svc'[x] = svc[x] /\ lim'[x] = lim[x]
  <2>1. \A x \in Ids \ {id} : svc'[x] = svc[x] /\ lim'[x] = lim[x]
    BY CallTypes DEF Remove, RemoveReality, RemoveList, RemoveWrite, DropRow, StoreFails, gost
  <2> QED BY <2>1, RemoveTypes
<1>2. h \in [Ids -> Handler] /\ row \in [Ids -> Opt] /\ sb \in [Ids -> Opt]
        /\ failed \in [Ids -> BOOLEAN]
  BY DEF TypeInv, TypeOK
<1>3. \A x \in Ids \ {id} : failed'[x] = failed[x]
  BY <1>2 DEF Remove, RemoveService, RemoveLimits, RemoveCall, RemoveReality, RemoveList,
       RemoveWrite, DropRow, StoreFails, Goto, Finish
<1>4. CASE RemoveService(id) \/ RemoveLimits(id)
  <2>1. h'[id].pc \notin {"write", "rmWrite"}
    BY <1>2, <1>4 DEF RemoveService, RemoveLimits, RemoveCall, Handler
  <2> QED BY <1>1, <1>3, <1>4, <2>1 DEF RemoveService, RemoveLimits, kept, StepOf
<1>5. CASE RemoveReality(id)
  <2>1. h'[id].pc \notin {"write", "rmWrite"}
    BY <1>2, <1>5 DEF RemoveReality, Goto, Handler
  <2>2. \A x \in Ids \ {id} :
            sb'[x] = sb[x] /\ (x \in panel'.orphans <=> x \in panel.orphans)
    BY <1>5, PoolEffect DEF RemoveReality, Opt
  <2> QED BY <1>1, <1>3, <1>5, <2>1, <2>2 DEF RemoveReality, kept, gost, StepOf
<1>6. CASE RemoveList(id)
  <2>1. h'[id].snap = BuildConfig(row)
    BY <1>2, <1>6 DEF RemoveList, Handler
  <2> QED BY <1>1, <1>3, <1>6, <2>1 DEF RemoveList, kept, gost, StepOf
<1>7. CASE RemoveWrite(id)
  <2>1. h'[id].pc \notin {"write", "rmWrite"}
    BY <1>2, <1>7 DEF RemoveWrite, Goto, Handler
  <2> QED BY <1>1, <1>3, <1>7, <2>1 DEF RemoveWrite, kept, gost, StepOf
<1>8. CASE DropRow(id)
  <2>1. h'[id].pc \notin {"write", "rmWrite"}
    BY <1>2, <1>8, IdleType DEF DropRow, Finish
  <2>2. \A x \in Ids \ {id} : row'[x] = row[x]
    BY <1>2, <1>8 DEF DropRow
  <2> QED BY <1>1, <1>3, <1>8, <2>1, <2>2 DEF DropRow, gost, StepOf
<1>9. CASE StoreFails(id)
  <2>1. h'[id].pc \notin {"write", "rmWrite"}
    BY <1>2, <1>9, IdleType DEF StoreFails
  <2> QED BY <1>1, <1>3, <1>9, <2>1 DEF StoreFails, kept, gost, StepOf
<1> QED BY <1>4, <1>5, <1>6, <1>7, <1>8, <1>9 DEF Remove

LEMMA HandlersEffect ==
    ASSUME TypeInv, NEW id \in Ids, Create(id) \/ Update(id) \/ Toggle(id) \/ Delete(id)
    PROVE  StepOf(id) /\ fresh' = [fresh EXCEPT ![id] = FALSE]
<1>1. Moved(id, h')
  BY HandlersTypes
<1>2. /\ fresh' = [fresh EXCEPT ![id] = FALSE]
      /\ \A x \in Ids \ {id} : row'[x] = row[x] /\ failed'[x] = failed[x]
      /\ \A x \in Ids \ {id} : x \in used <=> x \in used'
      /\ UNCHANGED <<sc, file, gost, sb, sync, panel>>
  BY DEF Create, Update, Toggle, Delete, SaveAndApply, TypeInv, TypeOK, kept
<1> QED BY <1>1, <1>2 DEF Moved, gost, StepOf

\* A step of the handler of id leaves the other nodes in order.
LEMMA OthersKept ==
    ASSUME IInv, NEW id \in Ids, StepOf(id),
           \A x \in Ids : fresh'[x] => fresh[x] /\ x # id
    PROVE  HealInv'
<1> SUFFICES ASSUME NEW x \in Ids, fresh'[x] PROVE FreshInv(x)'
  BY DEF HealInv
<1>0. row \in [Ids -> Opt]
  BY DEF IInv, TypeInv, TypeOK
<1>1. x # id /\ FreshInv(x)
  BY DEF IInv, HealInv
<1>2. h'[x].pc = "idle" /\ row'[x] = row[x]
  BY <1>1 DEF FreshInv, StepOf
<1>3. file'[x] = ForGost(row'[x])
  BY <1>1, <1>2 DEF FreshInv, StepOf
<1>4. \A y \in Ids : h'[y].pc \in {"write", "rmWrite"} => h'[y].snap[x] = ForGost(row'[x])
  BY <1>0, <1>1, <1>2, TableTypes DEF FreshInv, StepOf
<1>5. sync' # Nil => sync'[x] = ForGost(row'[x])
  BY <1>1, <1>2 DEF FreshInv, StepOf
<1>6. Repaired(x)'
  BY <1>1, <1>2 DEF FreshInv, Repaired, StepOf, InGost, InPool
<1> QED BY <1>2, <1>3, <1>4, <1>5, <1>6 DEF FreshInv

\* The handler at work on id is at work on a node that is not fresh.
LEMMA BusyNotFresh ==
    ASSUME IInv, NEW id \in Ids, Apply(id) \/ Remove(id) \/ StoreFails(id)
    PROVE  fresh' = fresh /\ ~fresh[id]
<1>1. h[id].pc # "idle" /\ fresh' = fresh
  BY DEF Apply, ApplyLimits, ApplyService, ApplyList, ApplyWrite, ApplyReality, Undo, Remove,
       RemoveService, RemoveLimits, RemoveReality, RemoveList, RemoveWrite, DropRow, RemoveCall,
       StoreFails
<1> QED BY <1>1 DEF IInv, HealInv, FreshInv

LEMMA InitHealed == Init => HealInv
  BY TableTypes, InitTypes, IdleType DEF Init, HealInv, FreshInv, Repaired, InGost, InPool, TypeInv, TypeOK

LEMMA HandlersHealed ==
    ASSUME IInv, NEW id \in Ids,
           Create(id) \/ Update(id) \/ Toggle(id) \/ Delete(id) \/ Apply(id) \/ Remove(id) \/ StoreFails(id)
    PROVE  HealInv'
<1>1. CASE Create(id) \/ Update(id) \/ Toggle(id) \/ Delete(id)
  <2>1. \A x \in Ids : fresh'[x] => fresh[x] /\ x # id
    BY <1>1, HandlersEffect DEF IInv, TypeInv, TypeOK
  <2> QED BY <1>1, <2>1, HandlersEffect, OthersKept DEF IInv
<1>2. CASE Apply(id) \/ Remove(id) \/ StoreFails(id)
  BY <1>2, BusyNotFresh, ApplyEffect, RemoveEffect, OthersKept DEF IInv
<1> QED BY <1>1, <1>2

LEMMA ProcessHealed ==
    ASSUME IInv, SyncList \/ SyncWrite \/ GostExit \/ GostStart \/ PanelRestart \/ BootFails
    PROVE  HealInv'
<1> SUFFICES ASSUME NEW x \in Ids, fresh'[x] PROVE FreshInv(x)'
  BY DEF HealInv
<1>0. h \in [Ids -> Handler] /\ row \in [Ids -> Opt] /\ (fresh[x] => FreshInv(x))
  BY DEF IInv, HealInv, TypeInv, TypeOK
<1>1. CASE SyncList
  BY <1>0, <1>1, TableTypes DEF SyncList, FreshInv, Repaired, InGost, InPool, kept, gost
<1>2. CASE SyncWrite
  <2>1. /\ file' \in {sync, file} /\ sync # Nil /\ sync' = Nil
        /\ panel'.orphans = panel.orphans
        /\ UNCHANGED <<row, up, svc, lim, sb, h, fresh>>
    BY <1>2 DEF SyncWrite, gost, IInv, TypeInv, TypeOK
  <2> QED BY <1>0, <2>1 DEF FreshInv, Repaired, InGost, InPool
<1>3. CASE GostExit
  BY <1>0, <1>3 DEF GostExit, FreshInv, Repaired, InGost, InPool, kept
<1>4. CASE GostStart
  BY <1>0, <1>4 DEF GostStart, FreshInv, Repaired, InGost, InPool, kept
<1>5. CASE PanelRestart
  <2>1. PICK left \in Left, bad \in SUBSET Refused : Stopped /\ SyncReality(left, bad)
    BY <1>5 DEF PanelRestart
  <2>2. x \notin bad /\ row' = row /\ up' = FALSE
    BY <2>1 DEF SyncReality, Stopped
  <2>3. h' = [id \in Ids |-> Idle] /\ sync' = Nil /\ file'[x] = ForGost(row[x])
    BY <1>0, <1>5, <2>1, TableTypes DEF PanelRestart, Stopped
  <2>4. InPool(x)' \/ (x \in panel'.orphans /\ ForSingBox(row'[x]) = Nil)
    BY <2>1, <2>2 DEF SyncReality, InPool
  <2> QED BY <2>2, <2>3, <2>4, IdleType DEF FreshInv, Repaired, InGost
<1>6. CASE BootFails
  BY <1>6 DEF BootFails
<1> QED BY <1>1, <1>2, <1>3, <1>4, <1>5, <1>6

LEMMA StepHealed == IInv /\ [Next]_vars => HealInv'
<1> SUFFICES ASSUME IInv, [Next]_vars PROVE HealInv'
  OBVIOUS
<1>1. CASE \E id \in Ids : Create(id) \/ Update(id) \/ Toggle(id) \/ Delete(id)
                               \/ Apply(id) \/ Remove(id) \/ StoreFails(id)
  BY <1>1, HandlersHealed
<1>3. CASE SyncList \/ SyncWrite \/ GostExit \/ GostStart \/ PanelRestart \/ BootFails
  BY <1>3, ProcessHealed
<1>4. CASE UNCHANGED vars
  BY <1>4 DEF vars, IInv, HealInv, FreshInv, Repaired, InGost, InPool, gost, kept
<1> QED BY <1>1, <1>3, <1>4 DEF Next

\* A start of the panel that meets no error with a node repairs it, up to a process that
\* outlived its panel and that no row wants; and until a handler touches the node
\* neither the handlers of other nodes, failing and overlapping at will, nor an exit
\* of gost take it out of sync again (Bootstrap and SyncConfigFile).
THEOREM HealedHolds == Spec => []Healed
<1>1. Init => IInv
  BY InitTypes, InitHealed DEF IInv
<1>2. IInv /\ [Next]_vars => IInv'
  BY StepTypes, StepHealed DEF IInv
<1>3. IInv => Healed
  BY DEF IInv, HealInv, FreshInv, Repaired, Healed
<1> QED BY <1>1, <1>2, <1>3, PTL DEF Spec

-----------------------------------------------------------------------------
(* Each engine carries the nodes it is to carry: what a step does to the   *)
(* node it is about.                                                       *)

\* The handler of id goes on to pc, or ends.
GoesTo(id, pc) ==
    h'[id].pc = pc /\ h'[id].op = h[id].op /\ h'[id].cfg = h[id].cfg /\ h'[id].old = h[id].old

Ends(id) == h'[id].pc = "idle" /\ h'[id].op = "none"

LEMMA GoesEffect ==
    ASSUME TypeInv, NEW id \in Ids, NEW pc \in Pcs
    PROVE  /\ h' = [h EXCEPT ![id].pc = pc] => GoesTo(id, pc)
           /\ h' = [h EXCEPT ![id] = Idle] => Ends(id)
<1>1. h \in [Ids -> Handler]
  BY DEF TypeInv, TypeOK
<1> QED BY <1>1 DEF GoesTo, Ends, Idle, Handler

LEMMA AbortEffect ==
    ASSUME TypeInv, NEW id \in Ids, Abort(id)
    PROVE  /\ failed'[id]
           /\ \/ /\ h[id].op = "create"
                 /\ GoesTo(id, IF h[id].cfg.mode = "reality" THEN "rmReality" ELSE "rmService")
              \/ h[id].op = "update" /\ GoesTo(id, "undo")
              \/ Ends(id)
<1>1. failed'[id]
  BY DEF Abort, TypeInv, TypeOK
<1>2. CASE h[id].op = "create"
  <2> DEFINE pc == IF h[id].cfg.mode = "reality" THEN "rmReality" ELSE "rmService"
  <2>1. h' = [h EXCEPT ![id].pc = pc] /\ pc \in Pcs
    BY <1>2 DEF Abort, Pcs
  <2> HIDE DEF pc
  <2>2. GoesTo(id, pc)
    BY <2>1, GoesEffect
  <2> QED BY <1>1, <1>2, <2>2 DEF pc
<1>3. CASE h[id].op = "update"
  BY <1>1, <1>3, GoesEffect DEF Abort, Pcs
<1>4. CASE h[id].op \notin {"create", "update"}
  BY <1>1, <1>4, GoesEffect DEF Abort, Pcs
<1> QED BY <1>2, <1>3, <1>4

\* The configuration of a node is on its way to gost, or to the pool, never to both.
LEMMA OneEngine ==
    ASSUME NEW c \in Opt
    PROVE  /\ c = Nil => ForGost(c) = Nil /\ ForSingBox(c) = Nil
           /\ c # Nil /\ c.mode = "reality" => ForGost(c) = Nil
           /\ c # Nil /\ c.mode = "gost" => ForSingBox(c) = Nil
           /\ c # Nil => c.mode = "gost" \/ c.mode = "reality"
  BY DEF ForGost, ForSingBox, Opt, Cfg

\* A node stays where it is as long as its row keeps the engine and only that engine
\* is told about it.
LEMMA PlaceKept ==
    ASSUME TypeInv, NEW id \in Ids, StepOf(id), PlaceOK(id),
           row'[id] # Nil => id \in used',
           id \in used => id \in used',
           RunsOn(id, "gost")' => RunsOn(id, "gost") \/ id \notin used,
           RunsOn(id, "reality")' => RunsOn(id, "reality") \/ id \notin used,
           RunsOn(id, "reality")' \/ id \notin used' => svc'[id] = svc[id] /\ lim'[id] = lim[id],
           RunsOn(id, "gost")' \/ id \notin used' => sb'[id] = sb[id]
    PROVE  PlaceOK(id)'
<1>0. row \in [Ids -> Opt]
  BY DEF TypeInv, TypeOK
<1>1. ASSUME id \notin used' \/ RunsOn(id, "reality")'
      PROVE  NotInGost(id)'
  <2>1. NotInGost(id) /\ ForGost(row[id]) = Nil
    BY <1>0, <1>1, OneEngine DEF PlaceOK, RunsOn
  <2>2. svc'[id] = Nil /\ lim'[id] = Nil /\ file'[id] = Nil /\ (sync' # Nil => sync'[id] = Nil)
    BY <1>1, <2>1 DEF NotInGost, StepOf
  <2>3. \A x \in Ids : h'[x].pc \in {"write", "rmWrite"} => h'[x].snap[id] = Nil
    BY <1>0, <2>1, TableTypes DEF NotInGost, StepOf
  <2> QED BY <2>2, <2>3 DEF NotInGost
<1>2. ASSUME id \notin used' \/ RunsOn(id, "gost")'
      PROVE  sb'[id] = Nil
  BY <1>2 DEF PlaceOK
<1> QED BY <1>1, <1>2 DEF PlaceOK

\* A node whose own engine carries it, and that the other engine does not know, is in
\* sync.
LEMMA PlacedInSync ==
    ASSUME TypeInv, NEW id \in Ids, PlaceOK(id)
    PROVE  /\ RunsOn(id, "gost") /\ svc[id] = ForGost(row[id]) /\ lim[id] = ForGost(row[id])
                 => InSync(id)
           /\ RunsOn(id, "reality") /\ sb[id] = ForSingBox(row[id]) => InSync(id) /\ Filed(id)
  BY OneEngine DEF PlaceOK, RunsOn, InSync, InGost, InPool, Filed, NotInGost, TypeInv, TypeOK

\* A node in its place, with a handler that works on what is there.
Placed(id) == PlaceOK(id) /\ WorkOK(id)

\* The calls of ApplyNode: each that meets no error brings its part of gost to the
\* row; one that does goes the way of Abort.
LEMMA ApplyOwn ==
    ASSUME TypeInv, NEW id \in Ids, Apply(id), Placed(id)
    PROVE  /\ Placed(id)'
           /\ ServedOK(id) /\ "orphan" \notin sc.env => ServedOK(id)'
           /\ FileOK(id) /\ OneWriter => FileOK(id)'
<1>0. /\ StepOf(id) /\ h[id] \in Handler /\ row[id] \in Opt /\ failed \in [Ids -> BOOLEAN]
      /\ lim \in [Ids -> Opt] /\ svc \in [Ids -> Opt] /\ sb \in [Ids -> Opt] /\ row \in [Ids -> Opt]
  BY ApplyEffect DEF TypeInv, TypeOK
<1>1. h[id].pc \in ApplyPcs /\ row[id] = h[id].cfg /\ row[id] \in Cfg /\ id \in used
        /\ PlaceOK(id) /\ WorkOK(id) /\ row[id] # Nil
  <2>1. h[id].pc \in ApplyPcs
    BY DEF Apply, ApplyLimits, ApplyService, ApplyList, ApplyWrite, ApplyReality, Undo, ApplyPcs
  <2>2. row[id] = h[id].cfg /\ row[id] # Nil
    BY <2>1 DEF Placed, WorkOK, ApplyPcs
  <2> QED BY <1>0, <2>1, <2>2 DEF Placed, PlaceOK, Opt
<1>2. used' = used
  BY DEF Apply, ApplyLimits, ApplyService, ApplyList, ApplyWrite, ApplyReality, Undo, kept
<1>3. ASSUME row' = row,
             \/ GoesTo(id, "service") /\ h[id].pc = "limits"
             \/ GoesTo(id, "list") /\ h[id].pc = "service"
             \/ GoesTo(id, "write") /\ h[id].pc = "list"
             \/ Ends(id)
             \/ Abort(id)
      PROVE  WorkOK(id)'
  <2>1. CASE Abort(id)
    <3>1. RunsOn(id, "gost") \/ RunsOn(id, "reality")
      BY <1>1 DEF RunsOn, Cfg
    <3> QED BY <1>0, <1>1, <1>3, <2>1, <3>1, AbortEffect
            DEF WorkOK, GoesTo, Ends, RunsOn, GostPcs, PoolPcs, ApplyPcs
  <2> QED BY <1>1, <1>3, <2>1 DEF WorkOK, GoesTo, Ends, RunsOn, GostPcs, PoolPcs, ApplyPcs
<1>4. CASE ApplyLimits(id)
  <2>1. /\ row' = row /\ sb' = sb /\ svc' = svc /\ file' = file /\ h[id].pc = "limits"
        /\ RunsOn(id, "gost") /\ RunsOn(id, "gost")'
    BY <1>1, <1>4 DEF ApplyLimits, kept, WorkOK, GostPcs, RunsOn
  <2>2. \/ GoesTo(id, "service") /\ up /\ failed' = failed /\ lim'[id] = ForGost(row[id])
        \/ GoesTo(id, "service") /\ failed'[id]
        \/ Abort(id) /\ failed'[id]
    BY <1>0, <1>1, <1>4, GoesEffect, AbortEffect DEF ApplyLimits, Goto, Pcs
  <2>3. PlaceOK(id)'
    BY <1>0, <1>1, <1>2, <2>1, PlaceKept DEF PlaceOK, RunsOn
  <2>4. WorkOK(id)'
    BY <1>3, <2>1, <2>2
  <2>5. ServedOK(id)'
    BY <1>0, <2>1, <2>2 DEF ServedOK, GoesTo, StepOf
  <2>6. FileOK(id) => FileOK(id)'
    BY <2>1, <2>2, AbortEffect DEF FileOK, GoesTo, Ends, ApplyPcs
  <2> QED BY <2>3, <2>4, <2>5, <2>6 DEF Placed
<1>5. CASE ApplyService(id)
  <2>1. /\ row' = row /\ sb' = sb /\ lim' = lim /\ file' = file /\ h[id].pc = "service"
        /\ RunsOn(id, "gost") /\ RunsOn(id, "gost")'
    BY <1>1, <1>5 DEF ApplyService, kept, WorkOK, GostPcs, RunsOn
  <2>2. \/ GoesTo(id, "list") /\ up /\ failed' = failed /\ svc'[id] = ForGost(row[id])
        \/ Abort(id) /\ failed'[id]
    BY <1>0, <1>1, <1>5, GoesEffect, AbortEffect DEF ApplyService, Goto, Pcs
  <2>3. PlaceOK(id)'
    BY <1>0, <1>1, <1>2, <2>1, PlaceKept DEF PlaceOK, RunsOn
  <2>4. WorkOK(id)'
    BY <1>3, <2>1, <2>2
  <2>5. ServedOK(id) => ServedOK(id)'
    BY <1>0, <2>1, <2>2 DEF ServedOK, GoesTo, StepOf
  <2>6. FileOK(id) => FileOK(id)'
    BY <2>1, <2>2, AbortEffect DEF FileOK, GoesTo, Ends, ApplyPcs
  <2> QED BY <2>3, <2>4, <2>5, <2>6 DEF Placed
<1>6. CASE ApplyList(id)
  <2>1. /\ row' = row /\ sb' = sb /\ lim' = lim /\ svc' = svc /\ file' = file /\ h[id].pc = "list"
        /\ RunsOn(id, "gost") /\ RunsOn(id, "gost")' /\ failed' = failed
    BY <1>1, <1>6 DEF ApplyList, kept, gost, WorkOK, GostPcs, RunsOn
  <2>2. GoesTo(id, "write")
    BY <1>6 DEF ApplyList, GoesTo, TypeInv, TypeOK, Handler
  <2>3. PlaceOK(id)'
    BY <1>0, <1>1, <1>2, <2>1, PlaceKept DEF PlaceOK, RunsOn
  <2>4. WorkOK(id)'
    BY <1>3, <2>1, <2>2
  <2>5. ServedOK(id) => ServedOK(id)'
    BY <1>0, <2>1, <2>2 DEF ServedOK, GoesTo, StepOf
  <2>6. FileOK(id) => FileOK(id)'
    BY <2>1, <2>2 DEF FileOK, GoesTo, ApplyPcs
  <2> QED BY <2>3, <2>4, <2>5, <2>6 DEF Placed
<1>7. CASE ApplyWrite(id)
  <2>1. /\ row' = row /\ sb' = sb /\ lim' = lim /\ svc' = svc /\ h[id].pc = "write"
        /\ RunsOn(id, "gost") /\ RunsOn(id, "gost")'
    BY <1>1, <1>7 DEF ApplyWrite, kept, gost, WorkOK, GostPcs, RunsOn
  <2>2. \/ Ends(id) /\ failed' = failed /\ file' = h[id].snap
        \/ Abort(id) /\ failed'[id]
    BY <1>0, <1>7, GoesEffect, AbortEffect DEF ApplyWrite, Finish, Pcs
  <2>3. PlaceOK(id)'
    BY <1>0, <1>1, <1>2, <2>1, PlaceKept DEF PlaceOK, RunsOn
  <2>4. WorkOK(id)'
    BY <1>3, <2>1, <2>2
  <2>5. ServedOK(id) => ServedOK(id)'
    <3> SUFFICES ASSUME ServedOK(id), ~failed'[id] PROVE ServedOK(id)'
      BY DEF ServedOK
    <3>1. Ends(id) /\ up /\ svc[id] = ForGost(row[id]) /\ lim[id] = ForGost(row[id])
      BY <2>1, <2>2 DEF ServedOK
    <3>2. InSync(id)' /\ up'
      BY <1>0, <1>1, <2>1, <3>1, PlacedInSync DEF InSync, InGost, InPool, StepOf
    <3> QED BY <3>1, <3>2 DEF ServedOK, Ends
  <2>6. FileOK(id) /\ OneWriter => FileOK(id)'
    BY <1>0, <2>1, <2>2, TableTypes, AbortEffect DEF FileOK, OneWriter, GoesTo, Ends, ApplyPcs
  <2> QED BY <2>3, <2>4, <2>5, <2>6 DEF Placed
<1>8. CASE ApplyReality(id)
  <2>1. /\ row' = row /\ lim' = lim /\ svc' = svc /\ file' = file /\ h[id].pc = "reality"
        /\ RunsOn(id, "reality") /\ RunsOn(id, "reality")'
    BY <1>1, <1>8 DEF ApplyReality, kept, gost, WorkOK, PoolPcs, RunsOn
  <2>2. \/ /\ Ends(id) /\ failed' = failed
           /\ "orphan" \notin sc.env => sb'[id] = ForSingBox(row[id])
        \/ Abort(id) /\ failed'[id]
    <3>1. CASE PoolSets(id, ForSingBox(h[id].cfg)) /\ Finish(id)
      <4>1. ForSingBox(row[id]) \in Opt
        BY <1>0, ForTypes
      <4>2. "orphan" \notin sc.env => sb'[id] = ForSingBox(row[id])
        BY <1>1, <3>1, <4>1, PoolEffect DEF TypeInv, NoOrphans
      <4> QED BY <3>1, <4>2, GoesEffect DEF Finish, Pcs
    <3>2. CASE Abort(id)
      BY <3>2, AbortEffect
    <3> QED BY <1>8, <3>1, <3>2 DEF ApplyReality
  <2>3. PlaceOK(id)'
    BY <1>0, <1>1, <1>2, <2>1, PlaceKept DEF PlaceOK, RunsOn
  <2>4. WorkOK(id)'
    BY <1>3, <2>1, <2>2
  <2>5. ServedOK(id) /\ "orphan" \notin sc.env => ServedOK(id)'
    <3> SUFFICES ASSUME ServedOK(id), "orphan" \notin sc.env, ~failed'[id] PROVE ServedOK(id)'
      BY DEF ServedOK
    <3>0. TypeInv'
      BY ApplyTypes
    <3>1. Ends(id) /\ sb'[id] = ForSingBox(row'[id])
      BY <2>1, <2>2 DEF ServedOK
    <3>2. RunsOn(id, "reality")' /\ row'[id] \in Opt
      BY <1>0, <2>1
    <3>3. ForGost(row'[id]) = Nil
      BY <3>2, OneEngine DEF RunsOn
    <3>4. NotInGost(id)'
      BY <2>3, <3>2 DEF PlaceOK
    <3>5. InSync(id)' /\ Filed(id)'
      BY <3>1, <3>3, <3>4 DEF NotInGost, InSync, InGost, InPool, Filed
    <3> QED BY <3>1, <3>5 DEF ServedOK, Ends
  <2>6. FileOK(id) => FileOK(id)'
    <3>1. file'[id] = Nil /\ ForGost(row'[id]) = Nil
      BY <1>0, <1>1, <2>1, OneEngine DEF PlaceOK, NotInGost, RunsOn
    <3> QED BY <2>2, <3>1, AbortEffect DEF FileOK, GoesTo, Ends, ApplyPcs
  <2> QED BY <2>3, <2>4, <2>5, <2>6 DEF Placed
<1>9. CASE Undo(id)
  <2>1. /\ lim' = lim /\ svc' = svc /\ file' = file /\ sb' = sb /\ h[id].pc = "undo"
        /\ row'[id] = h[id].old /\ h[id].old \in Cfg /\ h[id].old # Nil
        /\ h[id].old.mode = row[id].mode
    BY <1>0, <1>1, <1>9 DEF Undo, gost, WorkOK, Handler, Opt
  <2>2. /\ h'[id].pc = ApplyPc(h[id].old) /\ h'[id].op = "undo" /\ h'[id].cfg = h[id].old
    BY <1>9 DEF Undo, Idle, TypeInv, TypeOK
  <2>3. PlaceOK(id)'
    BY <1>0, <1>1, <1>2, <2>1, PlaceKept DEF PlaceOK, RunsOn
  <2>4. WorkOK(id)'
    BY <2>1, <2>2 DEF WorkOK, RunsOn, ApplyPc, Cfg, GostPcs, PoolPcs, ApplyPcs
  <2>5. ServedOK(id)'
    BY <2>2 DEF ServedOK, ApplyPc
  <2>6. FileOK(id)'
    BY <2>2 DEF FileOK, ApplyPc, ApplyPcs
  <2> QED BY <2>3, <2>4, <2>5, <2>6 DEF Placed
<1> QED BY <1>4, <1>5, <1>6, <1>7, <1>8, <1>9 DEF Apply

\* The calls of RemoveNode, and the row that goes last.  A RemoveNode that met no
\* error has taken the node out of gost, or has stopped its process.
LEMMA RemoveOwn ==
    ASSUME TypeInv, NEW id \in Ids, Remove(id), Placed(id)
    PROVE  /\ Placed(id)'
           /\ ServedOK(id) /\ "orphan" \notin sc.env => ServedOK(id)'
           /\ ~FileOK(id)
<1>0. /\ StepOf(id) /\ row[id] \in Opt /\ failed \in [Ids -> BOOLEAN] /\ row \in [Ids -> Opt]
      /\ lim \in [Ids -> Opt] /\ svc \in [Ids -> Opt] /\ sb \in [Ids -> Opt] /\ TypeInv'
      /\ h \in [Ids -> Handler]
  BY RemoveEffect, RemoveTypes DEF TypeInv, TypeOK
<1>1. /\ h[id].pc \in {"rmService", "rmLimits", "rmReality", "rmList", "rmWrite", "drop"}
      /\ used' = used
  BY DEF Remove, RemoveService, RemoveLimits, RemoveReality, RemoveList, RemoveWrite, DropRow,
       RemoveCall, kept
<1>2. row[id] # Nil /\ id \in used /\ PlaceOK(id) /\ WorkOK(id)
  BY <1>1 DEF Placed, PlaceOK, WorkOK
<1>3. ~FileOK(id)
  BY <1>1 DEF FileOK, ApplyPcs
<1>4. CASE RemoveService(id)
  <2>1. /\ row' = row /\ sb' = sb /\ lim' = lim /\ file' = file
        /\ RunsOn(id, "gost") /\ RunsOn(id, "gost")' /\ GoesTo(id, "rmLimits")
    BY <1>2, <1>4, GoesEffect
       DEF RemoveService, RemoveCall, kept, WorkOK, GostPcs, RunsOn, Pcs
  <2>2. ~failed'[id] => up /\ svc'[id] = Nil
    BY <1>0, <1>4 DEF RemoveService, RemoveCall
  <2>3. PlaceOK(id)'
    BY <1>0, <1>1, <1>2, <2>1, PlaceKept DEF PlaceOK, RunsOn
  <2>4. WorkOK(id)'
    BY <1>2, <1>4, <2>1 DEF WorkOK, GoesTo, GostPcs, PoolPcs, ApplyPcs, RemoveService, RemoveCall
  <2>5. ServedOK(id)'
    BY <1>0, <2>1, <2>2 DEF ServedOK, GoesTo, StepOf
  <2> QED BY <1>3, <2>3, <2>4, <2>5 DEF Placed
<1>5. CASE RemoveLimits(id)
  <2>1. /\ row' = row /\ sb' = sb /\ svc' = svc /\ file' = file /\ h[id].pc = "rmLimits"
        /\ RunsOn(id, "gost") /\ RunsOn(id, "gost")' /\ GoesTo(id, "rmList")
    BY <1>2, <1>5, GoesEffect
       DEF RemoveLimits, RemoveCall, kept, WorkOK, GostPcs, RunsOn, Pcs
  <2>2. ~failed'[id] => ~failed[id] /\ up /\ lim'[id] = Nil
    BY <1>0, <1>5 DEF RemoveLimits, RemoveCall
  <2>3. PlaceOK(id)'
    BY <1>0, <1>1, <1>2, <2>1, PlaceKept DEF PlaceOK, RunsOn
  <2>4. WorkOK(id)'
    BY <1>2, <2>1 DEF WorkOK, GoesTo, GostPcs, PoolPcs, ApplyPcs
  <2>5. ServedOK(id) => ServedOK(id)'
    BY <1>0, <2>1, <2>2 DEF ServedOK, GoesTo, StepOf
  <2> QED BY <1>3, <2>3, <2>4, <2>5 DEF Placed
<1>6. CASE RemoveReality(id)
  <2>1. /\ row' = row /\ svc' = svc /\ lim' = lim /\ file' = file /\ h[id].pc = "rmReality"
        /\ RunsOn(id, "reality") /\ RunsOn(id, "reality")' /\ GoesTo(id, "drop")
    BY <1>0, <1>2, <1>6, GoesEffect
       DEF RemoveReality, Goto, kept, gost, WorkOK, PoolPcs, RunsOn, Pcs
  <2>2. ~RunsOn(id, "gost")'
    BY <2>1 DEF RunsOn
  <2>3. PlaceOK(id)'
    BY <1>0, <1>1, <1>2, <2>1, <2>2, PlaceKept DEF PlaceOK
  <2>4. WorkOK(id)'
    BY <1>2, <2>1 DEF WorkOK, GoesTo, GostPcs, PoolPcs, ApplyPcs
  <2>5. "orphan" \notin sc.env => ServedOK(id)'
    <3>1. "orphan" \notin sc.env => sb'[id] = Nil
      BY <1>6, PoolEffect DEF RemoveReality, TypeInv, NoOrphans, Opt
    <3> QED BY <2>1, <2>2, <3>1 DEF ServedOK, GoesTo
  <2> QED BY <1>3, <2>3, <2>4, <2>5 DEF Placed
<1>7. CASE RemoveList(id)
  <2>1. /\ row' = row /\ sb' = sb /\ svc' = svc /\ lim' = lim /\ file' = file /\ failed' = failed
        /\ RunsOn(id, "gost") /\ RunsOn(id, "gost")' /\ h[id].pc = "rmList"
    BY <1>2, <1>7 DEF RemoveList, kept, gost, WorkOK, GostPcs, RunsOn
  <2>2. GoesTo(id, "rmWrite")
    BY <1>0, <1>7 DEF RemoveList, GoesTo, Handler
  <2>3. PlaceOK(id)'
    BY <1>0, <1>1, <1>2, <2>1, PlaceKept DEF PlaceOK, RunsOn
  <2>4. WorkOK(id)'
    BY <1>2, <2>1, <2>2 DEF WorkOK, GoesTo, GostPcs, PoolPcs, ApplyPcs
  <2>5. ServedOK(id) => ServedOK(id)'
    BY <1>0, <2>1, <2>2 DEF ServedOK, GoesTo, StepOf
  <2> QED BY <1>3, <2>3, <2>4, <2>5 DEF Placed
<1>8. CASE RemoveWrite(id)
  <2>1. /\ row' = row /\ sb' = sb /\ svc' = svc /\ lim' = lim /\ h[id].pc = "rmWrite"
        /\ RunsOn(id, "gost") /\ RunsOn(id, "gost")'
    BY <1>2, <1>8 DEF RemoveWrite, kept, gost, WorkOK, GostPcs, RunsOn
  <2>2. GoesTo(id, "drop") /\ (~failed'[id] => ~failed[id])
    BY <1>0, <1>8, GoesEffect DEF RemoveWrite, Goto, Pcs
  <2>3. PlaceOK(id)'
    BY <1>0, <1>1, <1>2, <2>1, PlaceKept DEF PlaceOK, RunsOn
  <2>4. WorkOK(id)'
    BY <1>2, <2>1, <2>2 DEF WorkOK, GoesTo, GostPcs, PoolPcs, ApplyPcs
  <2>5. ServedOK(id) => ServedOK(id)'
    BY <1>0, <2>1, <2>2 DEF ServedOK, GoesTo, StepOf, RunsOn
  <2> QED BY <1>3, <2>3, <2>4, <2>5 DEF Placed
<1>9. CASE DropRow(id)
  <2>1. /\ row'[id] = Nil /\ sb' = sb /\ svc' = svc /\ lim' = lim /\ file' = file
        /\ h[id].pc = "drop" /\ Ends(id) /\ failed' = failed
    BY <1>0, <1>9, GoesEffect DEF DropRow, Finish, gost, Pcs
  <2>2. PlaceOK(id)'
    BY <1>1, <1>2, <2>1 DEF PlaceOK, RunsOn
  <2>3. WorkOK(id)'
    BY <2>1 DEF WorkOK, Ends, GostPcs, PoolPcs, ApplyPcs
  <2>4. ServedOK(id) => ServedOK(id)'
    <3> SUFFICES ASSUME ServedOK(id), ~failed'[id] PROVE ServedOK(id)'
      BY DEF ServedOK
    <3>1. RunsOn(id, "gost") \/ RunsOn(id, "reality")
      BY <1>0, <1>2, OneEngine DEF RunsOn
    <3>2. ForGost(row'[id]) = Nil /\ ForSingBox(row'[id]) = Nil
      BY <2>1 DEF ForGost, ForSingBox
    <3>3. CASE RunsOn(id, "gost")
      BY <1>0, <1>2, <2>1, <3>2, <3>3 DEF ServedOK, PlaceOK, InSync, InGost, InPool, Ends, StepOf
    <3>4. CASE RunsOn(id, "reality")
      <4>1. NotInGost(id) /\ sb[id] = Nil
        BY <1>2, <2>1, <3>4 DEF ServedOK, PlaceOK
      <4>2. \A x \in Ids : h'[x].pc \in {"write", "rmWrite"} => h'[x].snap[id] = Nil
        <5> SUFFICES ASSUME NEW x \in Ids, h'[x].pc \in {"write", "rmWrite"}
                     PROVE  h'[x].snap[id] = Nil
          OBVIOUS
        <5>1. x # id
          BY <2>1 DEF Ends
        <5>2. h'[x] = h[x]
          BY <1>0, <5>1 DEF StepOf
        <5> QED BY <4>1, <5>2 DEF NotInGost
      <4>3. Filed(id)' /\ InSync(id)'
        BY <1>0, <2>1, <3>2, <4>1, <4>2 DEF NotInGost, Filed, InSync, InGost, InPool, StepOf
      <4> QED BY <2>1, <4>3 DEF ServedOK, Ends
    <3> QED BY <3>1, <3>3, <3>4
  <2> QED BY <1>3, <2>2, <2>3, <2>4 DEF Placed
<1> QED BY <1>3, <1>4, <1>5, <1>6, <1>7, <1>8, <1>9 DEF Remove

\* The store refuses: the row stays, and it is known that something failed.
LEMMA StoreOwn ==
    ASSUME TypeInv, NEW id \in Ids, StoreFails(id), Placed(id)
    PROVE  /\ Placed(id)' /\ ServedOK(id)'
           /\ FileOK(id) => FileOK(id)'
<1>1. /\ row' = row /\ sb' = sb /\ svc' = svc /\ lim' = lim /\ file' = file /\ used' = used
      /\ Ends(id) /\ failed'[id] /\ StepOf(id)
  BY GoesEffect, RemoveEffect DEF StoreFails, kept, gost, TypeInv, TypeOK, Pcs
<1>2. PlaceOK(id)'
  BY <1>1, PlaceKept DEF PlaceOK, RunsOn, Placed
<1>3. WorkOK(id)'
  BY <1>1 DEF WorkOK, Ends, GostPcs, PoolPcs, ApplyPcs
<1> QED BY <1>1, <1>2, <1>3 DEF Placed, ServedOK, FileOK, Ends

\* A handler that begins works on the row it has saved or found.
LEMMA HandlersOwn ==
    ASSUME TypeInv, NEW id \in Ids, Create(id) \/ Update(id) \/ Toggle(id) \/ Delete(id),
           Placed(id), "switch" \notin sc.env
    PROVE  /\ Placed(id)' /\ ServedOK(id)'
           /\ sc.env \cap {"create", "delete"} = {} => FileOK(id)'
<1>0. /\ StepOf(id) /\ row[id] \in Opt /\ failed \in [Ids -> BOOLEAN] /\ row \in [Ids -> Opt]
      /\ PlaceOK(id) /\ h \in [Ids -> Handler]
  BY HandlersEffect DEF TypeInv, TypeOK, Placed
<1>1. ASSUME NEW op \in {"create", "update", "toggle"}, NEW c \in Cfg, SaveAndApply(id, op, c),
             IF op = "create" THEN id \notin used ELSE row[id] # Nil /\ c.mode = row[id].mode
      PROVE  Placed(id)' /\ ServedOK(id)' /\ (op # "create" => FileOK(id)')
  <2>1. /\ row'[id] = c /\ c # Nil /\ id \in used' /\ svc' = svc /\ lim' = lim /\ sb' = sb
        /\ c.mode \in {"gost", "reality"}
    BY <1>0, <1>1, NilAssumption DEF SaveAndApply, gost, Cfg
  <2>2. /\ h'[id].pc = ApplyPc(c) /\ h'[id].op = op /\ h'[id].cfg = c
        /\ op = "update" => h'[id].old = row[id]
    BY <1>0, <1>1 DEF SaveAndApply, Idle
  <2>3. PlaceOK(id)'
    BY <1>0, <1>1, <2>1, PlaceKept DEF RunsOn
  <2>4. WorkOK(id)'
    BY <1>1, <2>1, <2>2 DEF WorkOK, RunsOn, ApplyPc, GostPcs, PoolPcs, ApplyPcs
  <2>5. ServedOK(id)'
    BY <2>2 DEF ServedOK, ApplyPc
  <2>6. op # "create" => FileOK(id)'
    BY <2>2 DEF FileOK, ApplyPc, ApplyPcs
  <2> QED BY <2>3, <2>4, <2>5, <2>6 DEF Placed
<1>2. CASE Create(id)
  <2>1. PICK c \in Cfg : SaveAndApply(id, "create", c)
    BY <1>2 DEF Create, Forms
  <2>2. id \notin used /\ "create" \in sc.env
    BY <1>2 DEF Create, Begin
  <2> QED BY <1>1, <2>1, <2>2
<1>3. CASE Update(id)
  <2>1. PICK c \in Cfg : SaveAndApply(id, "update", c) /\ row[id] # Nil /\ c.mode = row[id].mode
    BY <1>3 DEF Update, Forms
  <2> QED BY <1>1, <2>1
<1>4. CASE Toggle(id)
  <2>1. PICK b \in BOOLEAN : SaveAndApply(id, "toggle", [row[id] EXCEPT !.on = b])
    BY <1>4 DEF Toggle
  <2>2. /\ row[id] # Nil /\ [row[id] EXCEPT !.on = b] \in Cfg
        /\ [row[id] EXCEPT !.on = b].mode = row[id].mode
    BY <1>0, <1>4 DEF Toggle, Opt, Cfg
  <2> QED BY <1>1, <2>1, <2>2
<1>5. CASE Delete(id)
  <2>1. /\ row' = row /\ row[id] # Nil /\ used' = used /\ svc' = svc /\ lim' = lim /\ sb' = sb
        /\ "delete" \in sc.env
    BY <1>5 DEF Delete, kept, gost, Begin
  <2>2. h'[id].pc = IF row[id].mode = "reality" THEN "rmReality" ELSE "rmService"
    BY <1>0, <1>5 DEF Delete, Idle
  <2>3. h'[id].op = "delete"
    BY <1>0, <1>5 DEF Delete, Idle
  <2>4. PlaceOK(id)'
    BY <1>0, <2>1, PlaceKept DEF PlaceOK, RunsOn
  <2>5. WorkOK(id)'
    BY <1>0, <2>1, <2>2, <2>3, OneEngine DEF WorkOK, RunsOn, GostPcs, PoolPcs, ApplyPcs
  <2>6. ServedOK(id)'
    BY <2>2 DEF ServedOK
  <2> QED BY <2>1, <2>4, <2>5, <2>6 DEF Placed
<1> QED BY <1>2, <1>3, <1>4, <1>5

-----------------------------------------------------------------------------
(* What the step of one node's handler does to the others, and to the file.*)

\* A node is not told about by the handler of another.
LEMMA OthersPlaced ==
    ASSUME TypeInv, NEW id \in Ids, StepOf(id), NEW x \in Ids \ {id}, Placed(x)
    PROVE  Placed(x)'
<1>0. /\ h'[x] = h[x] /\ row'[x] = row[x] /\ (x \in used' <=> x \in used)
      /\ svc'[x] = svc[x] /\ lim'[x] = lim[x] /\ sb'[x] = sb[x]
      /\ row \in [Ids -> Opt] /\ PlaceOK(x) /\ WorkOK(x)
  BY DEF StepOf, TypeInv, TypeOK, Placed
<1>1. NotInGost(x) /\ (x \notin used \/ RunsOn(x, "reality")) => NotInGost(x)'
  <2> SUFFICES ASSUME NotInGost(x), x \notin used \/ RunsOn(x, "reality")
               PROVE  NotInGost(x)'
    OBVIOUS
  <2>1. ForGost(row[x]) = Nil
    BY <1>0, OneEngine DEF PlaceOK, RunsOn
  <2>2. file'[x] = Nil /\ (sync' # Nil => sync'[x] = Nil)
    BY DEF NotInGost, StepOf
  <2>3. \A y \in Ids : h'[y].pc \in {"write", "rmWrite"} => h'[y].snap[x] = Nil
    BY <1>0, <2>1, TableTypes DEF NotInGost, StepOf
  <2> QED BY <1>0, <2>2, <2>3 DEF NotInGost
<1>2. PlaceOK(x)'
  BY <1>0, <1>1 DEF PlaceOK, RunsOn
<1>3. WorkOK(x)'
  BY <1>0 DEF WorkOK, RunsOn
<1> QED BY <1>2, <1>3 DEF Placed

\* What a handler has done for its node stays done.
LEMMA OthersServed ==
    ASSUME TypeInv, NEW id \in Ids, StepOf(id), NEW x \in Ids \ {id}, ServedOK(x)
    PROVE  ServedOK(x)'
<1>0. /\ h'[x] = h[x] /\ row'[x] = row[x] /\ up' = up /\ failed'[x] = failed[x]
      /\ svc'[x] = svc[x] /\ lim'[x] = lim[x] /\ sb'[x] = sb[x]
      /\ row \in [Ids -> Opt]
  BY DEF StepOf, TypeInv, TypeOK
<1>1. Filed(x) => Filed(x)'
  <2> SUFFICES ASSUME Filed(x) PROVE Filed(x)'
    OBVIOUS
  <2>1. file'[x] = ForGost(row'[x]) /\ (sync' # Nil => sync'[x] = ForGost(row'[x]))
    BY <1>0 DEF Filed, StepOf
  <2>2. \A y \in Ids : h'[y].pc \in {"write", "rmWrite"} => h'[y].snap[x] = ForGost(row'[x])
    BY <1>0, TableTypes DEF Filed, StepOf
  <2> QED BY <2>1, <2>2 DEF Filed
<1>2. InSync(x)' <=> InSync(x)
  BY <1>0 DEF InSync, InGost, InPool
<1> QED BY <1>0, <1>1, <1>2 DEF ServedOK, RunsOn

\* The file stays right for the nodes nobody works on: what is written to it was made
\* from the rows of now.
LEMMA OthersFiled ==
    ASSUME TypeInv, NEW id \in Ids, StepOf(id), OneWriter, NEW x \in Ids \ {id}, FileOK(x)
    PROVE  FileOK(x)'
<1>0. h'[x] = h[x] /\ row'[x] = row[x] /\ failed'[x] = failed[x] /\ row \in [Ids -> Opt]
  BY DEF StepOf, TypeInv, TypeOK
<1>1. file'[x] = file[x] \/ file'[x] = ForGost(row[x])
  BY <1>0, TableTypes DEF StepOf, OneWriter
<1> QED BY <1>0, <1>1 DEF FileOK

LEMMA StillOneWriter ==
    ASSUME TypeInv, NEW id \in Ids, StepOf(id), OneWriter, h[id].pc # "idle" \/ Quiet
    PROVE  OneWriter'
<1>1. \A x \in Ids \ {id} : h[x].pc = "idle" /\ h'[x].pc = "idle"
  BY DEF OneWriter, StepOf, Quiet
<1>2. sync = Nil /\ sync' = Nil
  BY DEF OneWriter, StepOf, Quiet
<1>3. \A x \in Ids : h'[x].pc \in {"write", "rmWrite"} =>
          x = id /\ row' = row /\ h'[x].snap = BuildConfig(row)
  BY <1>1 DEF StepOf
<1>4. \A x \in Ids : h'[x].pc \in {"write", "rmWrite"} => h'[x].snap = BuildConfig(row')
  BY <1>3
<1> QED BY <1>1, <1>2, <1>4 DEF OneWriter

\* A step about one node keeps all of it.
LEMMA HandlersPlaced ==
    ASSUME TypeInv, NEW id \in Ids,
           Create(id) \/ Update(id) \/ Toggle(id) \/ Delete(id) \/ Apply(id) \/ Remove(id) \/ StoreFails(id),
           ModeInv, ServedInv, FileInv
    PROVE  (ModeInv /\ ServedInv /\ FileInv)'
<1>1. StepOf(id) /\ sc' = sc
  BY HandlersEffect, ApplyEffect, RemoveEffect DEF StepOf
<1>2. ASSUME "switch" \notin sc.env
      PROVE  /\ \A x \in Ids : Placed(x)
             /\ Placed(id)' /\ (ServedOK(id) /\ "orphan" \notin sc.env => ServedOK(id)')
  BY <1>2, ApplyOwn, RemoveOwn, StoreOwn, HandlersOwn DEF ModeInv, Placed
<1>3. ModeInv'
  BY <1>1, <1>2, OthersPlaced DEF ModeInv, Placed
<1>4. ServedInv'
  <2> SUFFICES ASSUME sc.env \cap {"crash", "switch", "orphan"} = {}, NEW x \in Ids PROVE ServedOK(x)'
    BY <1>1 DEF ServedInv
  <2>1. "switch" \notin sc.env /\ "orphan" \notin sc.env /\ \A y \in Ids : ServedOK(y)
    BY DEF ServedInv
  <2> QED BY <1>1, <1>2, <2>1, OthersServed
<1>5. FileInv'
  <2> SUFFICES ASSUME sc.env \cap {"overlap", "switch", "create", "delete"} = {}
               PROVE  OneWriter' /\ \A x \in Ids : FileOK(x)'
    BY <1>1 DEF FileInv
  <2>1. "switch" \notin sc.env /\ "overlap" \notin sc.env /\ OneWriter /\ \A x \in Ids : FileOK(x)
    BY DEF FileInv
  <2>2. FileOK(id)'
    BY <1>2, <2>1, ApplyOwn, RemoveOwn, StoreOwn, HandlersOwn
  <2>3. h[id].pc # "idle" \/ Quiet
    BY <2>1 DEF Create, Update, Toggle, Delete, Begin, Apply, ApplyLimits, ApplyService, ApplyList,
         ApplyWrite, ApplyReality, Undo, Remove, RemoveService, RemoveLimits, RemoveReality,
         RemoveList, RemoveWrite, DropRow, RemoveCall, StoreFails
  <2> QED BY <1>1, <2>1, <2>2, <2>3, OthersFiled, StillOneWriter
<1> QED BY <1>3, <1>4, <1>5

-----------------------------------------------------------------------------
(* gost, the panel and the other writer.                                   *)

LEMMA InitPlaced == Init => ModeInv /\ ServedInv /\ FileInv
<1> SUFFICES ASSUME Init PROVE ModeInv /\ ServedInv /\ FileInv
  OBVIOUS
<1>1. row \in [Ids -> Opt] /\ h = [id \in Ids |-> Idle] /\ sync = Nil
  BY InitTypes DEF Init, TypeInv, TypeOK
<1>2. \A id \in Ids : /\ h[id].pc = "idle" /\ h[id].op = "none"
                      /\ file[id] = ForGost(row[id]) /\ sb[id] = ForSingBox(row[id])
                      /\ svc[id] = Nil /\ lim[id] = Nil /\ (id \in used <=> row[id] # Nil)
  BY <1>1, TableTypes DEF Init, Idle, None
<1>3. \A id \in Ids : Placed(id)
  BY <1>1, <1>2, OneEngine DEF Placed, PlaceOK, WorkOK, NotInGost, RunsOn, GostPcs, PoolPcs, ApplyPcs
<1>4. \A id \in Ids : ServedOK(id)
  BY <1>1, <1>2 DEF ServedOK, InSync, InGost, InPool, Filed, Init
<1>5. OneWriter /\ \A id \in Ids : FileOK(id)
  BY <1>1, <1>2 DEF OneWriter, FileOK
<1> QED BY <1>3, <1>4, <1>5 DEF ModeInv, ServedInv, FileInv, Placed

\* Without a crash gost starts once in a life of the panel, and takes the nodes nobody
\* has touched from the file; one that was touched before is known to have failed.
LEMMA ProcessPlaced ==
    ASSUME TypeInv, ModeInv, ServedInv, FileInv,
           SyncList \/ SyncWrite \/ GostExit \/ GostStart \/ PanelRestart \/ BootFails
    PROVE  (ModeInv /\ ServedInv /\ FileInv)'
<1>0. row \in [Ids -> Opt] /\ sc' = sc /\ row' = row
  BY DEF TypeInv, TypeOK, SyncList, SyncWrite, GostExit, GostStart, PanelRestart, BootFails,
       Stopped, kept
<1>1. \A id \in Ids : BuildConfig(row)[id] = ForGost(row[id])
                        /\ SingBox(row)[id] = ForSingBox(row[id])
  BY <1>0, TableTypes
<1>2. CASE SyncList
  <2>1. /\ sync' = BuildConfig(row) /\ sync = Nil
        /\ UNCHANGED <<row, used, file, up, svc, lim, sb, h, failed, fresh>>
        /\ ("overlap" \in sc.env \/ Quiet)
    BY <1>2 DEF SyncList, kept, gost
  <2>2. ASSUME NEW id \in Ids, Placed(id) PROVE Placed(id)'
    <3>1. WorkOK(id)'
      BY <2>1, <2>2 DEF Placed, WorkOK, RunsOn
    <3>2. PlaceOK(id)'
      BY <1>0, <1>1, <2>1, <2>2, OneEngine DEF Placed, PlaceOK, NotInGost, RunsOn
    <3> QED BY <3>1, <3>2 DEF Placed
  <2>3. ASSUME NEW id \in Ids, ServedOK(id) PROVE ServedOK(id)'
    BY <1>1, <2>1, <2>3 DEF ServedOK, Filed, InSync, InGost, InPool, RunsOn
  <2>4. ASSUME Quiet, OneWriter PROVE OneWriter'
    BY <2>1, <2>4 DEF Quiet, OneWriter
  <2>5. ASSUME NEW id \in Ids, FileOK(id) PROVE FileOK(id)'
    BY <2>1, <2>5 DEF FileOK
  <2> QED BY <1>0, <2>1, <2>2, <2>3, <2>4, <2>5 DEF ModeInv, ServedInv, FileInv, Placed
<1>3. CASE SyncWrite
  <2>1. /\ sync # Nil /\ file' \in {sync, file} /\ sync' = Nil
        /\ UNCHANGED <<row, used, up, svc, lim, sb, h, failed, fresh>>
    BY <1>3 DEF SyncWrite, gost
  <2>2. ASSUME NEW id \in Ids, Placed(id) PROVE Placed(id)'
    BY <2>1, <2>2 DEF Placed, WorkOK, PlaceOK, NotInGost, RunsOn
  <2>3. ASSUME NEW id \in Ids, ServedOK(id) PROVE ServedOK(id)'
    BY <2>1, <2>3 DEF ServedOK, Filed, InSync, InGost, InPool, RunsOn
  <2>4. ASSUME OneWriter PROVE OneWriter'
    BY <2>1, <2>4 DEF OneWriter
  <2>5. ASSUME NEW id \in Ids, FileOK(id), OneWriter PROVE FileOK(id)'
    BY <1>1, <2>1, <2>5 DEF FileOK, OneWriter
  <2> QED BY <1>0, <2>2, <2>3, <2>4, <2>5 DEF ModeInv, ServedInv, FileInv, Placed
<1>4. CASE GostExit
  <2>1. /\ UNCHANGED <<row, used, file, sb, h, sync, failed, fresh>> /\ "crash" \in sc.env
        /\ \A id \in Ids : svc'[id] = Nil /\ lim'[id] = Nil
    BY <1>4 DEF GostExit, kept, None
  <2>2. ASSUME NEW id \in Ids, Placed(id) PROVE Placed(id)'
    BY <2>1, <2>2 DEF Placed, WorkOK, PlaceOK, NotInGost, RunsOn
  <2>3. OneWriter => OneWriter'
    BY <2>1 DEF OneWriter
  <2>4. ASSUME NEW id \in Ids, FileOK(id) PROVE FileOK(id)'
    BY <2>1, <2>4 DEF FileOK
  <2> QED BY <1>0, <2>1, <2>2, <2>3, <2>4 DEF ModeInv, ServedInv, FileInv, Placed
<1>5. CASE GostStart
  <2>1. /\ UNCHANGED <<row, used, file, sb, h, sync, failed, fresh>>
        /\ ~up /\ up' /\ svc' = file /\ lim' = file
    BY <1>5 DEF GostStart, kept
  <2>2. ASSUME NEW id \in Ids, Placed(id) PROVE Placed(id)'
    BY <2>1, <2>2 DEF Placed, WorkOK, PlaceOK, NotInGost, RunsOn
  <2>3. ASSUME NEW id \in Ids, ServedOK(id) PROVE ServedOK(id)'
    BY <2>1, <2>3 DEF ServedOK, Filed, InSync, InGost, InPool, RunsOn
  <2>4. OneWriter => OneWriter'
    BY <2>1 DEF OneWriter
  <2>5. ASSUME NEW id \in Ids, FileOK(id) PROVE FileOK(id)'
    BY <2>1, <2>5 DEF FileOK
  <2> QED BY <1>0, <2>2, <2>3, <2>4, <2>5 DEF ModeInv, ServedInv, FileInv, Placed
<1>6. CASE PanelRestart
  <2>0. PICK left \in Left, bad \in SUBSET Refused : Stopped /\ SyncReality(left, bad)
    BY <1>6 DEF PanelRestart
  <2>1. /\ used' = used /\ up' = FALSE /\ sync' = Nil /\ row' = row
        /\ \A id \in Ids : /\ file'[id] = ForGost(row[id]) /\ svc'[id] = Nil /\ lim'[id] = Nil
                           /\ h'[id].pc = "idle" /\ h'[id].op = "none"
    BY <1>1, <1>6, <2>0 DEF PanelRestart, Stopped, None, Idle
  <2>2. \A id \in Ids : sb'[id] \in {ForSingBox(row[id]), Nil, sb[id]}
    BY <2>0, LeftTypes DEF SyncReality
  <2>3. ASSUME NEW id \in Ids, Placed(id) PROVE Placed(id)'
    <3>1. PlaceOK(id)'
      BY <1>0, <2>1, <2>2, <2>3, OneEngine DEF Placed, PlaceOK, NotInGost, RunsOn
    <3>2. WorkOK(id)'
      BY <2>1 DEF WorkOK, GostPcs, PoolPcs, ApplyPcs
    <3> QED BY <3>1, <3>2 DEF Placed
  <2>4. ASSUME NEW id \in Ids, "orphan" \notin sc.env PROVE ServedOK(id)'
    <3> SUFFICES ASSUME ~failed'[id] PROVE ServedOK(id)'
      BY DEF ServedOK
    <3>1. sb'[id] = ForSingBox(row[id])
      BY <2>0, <2>4, NoneLeft DEF SyncReality
    <3> QED BY <2>1, <3>1 DEF ServedOK, Filed, InSync, InGost, InPool
  <2>5. OneWriter'
    BY <2>1 DEF OneWriter
  <2>6. ASSUME NEW id \in Ids PROVE FileOK(id)'
    BY <2>1 DEF FileOK
  <2> QED BY <1>0, <2>1, <2>3, <2>4, <2>5, <2>6 DEF ModeInv, ServedInv, FileInv, Placed
<1>7. CASE BootFails
  <2>1. /\ used' = used /\ up' = FALSE /\ sync' = Nil /\ row' = row
        /\ \A id \in Ids : /\ file'[id] \in {file[id], ForGost(row[id])} /\ failed'[id]
                           /\ svc'[id] = Nil /\ lim'[id] = Nil
                           /\ h'[id].pc = "idle" /\ h'[id].op = "none"
    BY <1>1, <1>7 DEF BootFails, Stopped, None, Idle
  <2>2. \A id \in Ids : sb'[id] \in {Nil, sb[id]}
    BY <1>7, LeftTypes DEF BootFails
  <2>3. ASSUME NEW id \in Ids, Placed(id) PROVE Placed(id)'
    <3>1. PlaceOK(id)'
      BY <1>0, <2>1, <2>2, <2>3, OneEngine DEF Placed, PlaceOK, NotInGost, RunsOn
    <3>2. WorkOK(id)'
      BY <2>1 DEF WorkOK, GostPcs, PoolPcs, ApplyPcs
    <3> QED BY <3>1, <3>2 DEF Placed
  <2>4. OneWriter' /\ \A id \in Ids : ServedOK(id)' /\ FileOK(id)'
    BY <2>1 DEF OneWriter, ServedOK, FileOK, ApplyPcs
  <2> QED BY <1>0, <2>1, <2>3, <2>4 DEF ModeInv, ServedInv, FileInv, Placed
<1> QED BY <1>2, <1>3, <1>4, <1>5, <1>6, <1>7

LEMMA UnchangedPlaced ==
    ASSUME ModeInv, ServedInv, FileInv, UNCHANGED vars
    PROVE  (ModeInv /\ ServedInv /\ FileInv)'
<1>1. /\ sc' = sc /\ row' = row /\ used' = used /\ file' = file /\ up' = up /\ svc' = svc
      /\ lim' = lim /\ sb' = sb /\ h' = h /\ sync' = sync /\ failed' = failed
  BY DEF vars
<1>2. ModeInv'
  BY <1>1 DEF ModeInv, PlaceOK, WorkOK, NotInGost, RunsOn
<1>3. ServedInv'
  BY <1>1 DEF ServedInv, ServedOK, InSync, InGost, InPool, Filed, RunsOn
<1>4. FileInv'
  BY <1>1 DEF FileInv, OneWriter, FileOK
<1> QED BY <1>2, <1>3, <1>4

LEMMA PlacedHolds == Spec => [](TypeInv /\ ModeInv /\ ServedInv /\ FileInv)
<1>1. Init => TypeInv /\ ModeInv /\ ServedInv /\ FileInv
  BY InitTypes, InitPlaced
<1>2. TypeInv /\ ModeInv /\ ServedInv /\ FileInv /\ [Next]_vars
        => (TypeInv /\ ModeInv /\ ServedInv /\ FileInv)'
  <2> SUFFICES ASSUME TypeInv, ModeInv, ServedInv, FileInv, [Next]_vars
               PROVE  (ModeInv /\ ServedInv /\ FileInv)'
    BY StepTypes
  <2>1. CASE \E id \in Ids : Create(id) \/ Update(id) \/ Toggle(id) \/ Delete(id)
                                \/ Apply(id) \/ Remove(id) \/ StoreFails(id)
    BY <2>1, HandlersPlaced
  <2>2. CASE SyncList \/ SyncWrite \/ GostExit \/ GostStart \/ PanelRestart \/ BootFails
    BY <2>2, ProcessPlaced
  <2>3. CASE UNCHANGED vars
    BY <2>3, UnchangedPlaced
  <2> QED BY <2>1, <2>2, <2>3 DEF Next
<1> QED BY <1>1, <1>2, PTL DEF Spec

\* Unless gost exits or an edit changes the engine of a node: a handler that has met no
\* error, be it that of an update taken back, leaves both engines with exactly what
\* the row says, however handlers of other nodes overlap and fail (ApplyNode,
\* RemoveNode, handleUpdateNode).
THEOREM AppliedServedHolds == Spec => []AppliedServed
<1>1. ServedInv => AppliedServed
  BY DEF ServedInv, ServedOK, AppliedServed, ApplySyncs
<1> QED BY <1>1, PlacedHolds, PTL

\* When one writer of gost.yml is at work at a time and the set of nodes stays the same,
\* the file holds what the rows say once nobody is at work, crashes of gost, failed
\* calls and restarts of the panel included (SyncConfigFile).
THEOREM FileSettledHolds == Spec => []FileSettled
<1>1. FileInv => FileSettled
  BY DEF FileInv, FileOK, FileSettled, Quiet
<1> QED BY <1>1, PlacedHolds, PTL
=============================================================================

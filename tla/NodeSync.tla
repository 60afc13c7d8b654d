------------------------------ MODULE NodeSync ------------------------------
(***************************************************************************)
(* Bringing the engines to what the database says (internal/controller/    *)
(* controller.go, internal/server/handlers_nodes.go).  The handlers save a *)
(* node and then apply it: limiters and services through the gost API, one *)
(* call after the other, and gost.yml last; a reality node is given to the *)
(* sing-box pool.  gost keeps its services in memory; when it starts it    *)
(* takes them from gost.yml.                                               *)
(*                                                                         *)
(* Handlers of different nodes overlap, one node has one handler at a time *)
(* (overlapping writers of one node are in TrafficAccounting).  Modes link *)
(* and gost are alike here.  The services of a node are one value, and so  *)
(* are its rate and connection limiters.                                   *)
(***************************************************************************)
EXTENDS FiniteSets

CONSTANTS
    Ids,        \* node ids
    Vers,       \* what a node's form can say besides mode and enabled
    Nil,
    Scenarios   \* what a behaviour starts from and meets, see Scenario

EnvEvents ==
    { "create", "update", "toggle", "delete",
      "switch",    \* an update may change the mode
      "sync",      \* gost.yml is rewritten for other reasons (log level, gost restart)
      "overlap",   \* handlers of different nodes overlap
      "fail",      \* a call of the gost API, a file operation or a write of the store fails
      "crash",     \* gost exits, and is started again
      "restart",   \* the panel, and the engines with it, restart
      "orphan" }   \* a restart leaves the sing-box processes running

\* A behaviour has one scenario throughout: env, what admin and environment do;
\* ids and vers, the nodes and the forms in it.
Scenario == [env : SUBSET EnvEvents, ids : SUBSET Ids, vers : SUBSET Vers]

ASSUME ScenariosAssumption == Scenarios \subseteq Scenario

Cfg == [mode : {"gost", "reality"}, on : BOOLEAN, ver : Vers]

ASSUME NilAssumption == Nil \notin Cfg /\ Nil \notin Ids

Opt == Cfg \cup {Nil}

VARIABLES
    sc,         \* the scenario, never changed
    row,        \* the nodes in the database
    used,       \* the ids ever given to a node
    file,       \* gost.yml: the configuration in it for each node
    up,         \* gost runs
    svc, lim,   \* the services and the limiters gost has for each node
    sb,         \* the sing-box process of each node
    h,          \* the handler under way for each node
    sync,       \* the other writer of gost.yml: Nil, or the nodes it has listed
    panel,      \* started: Manager.Start has been called; orphans: the nodes whose
                \* process an earlier panel left, and the pool does not know
    failed,     \* ghost: a step of the last ApplyNode or RemoveNode failed
    fresh       \* ghost: a start of the panel met no error with the node, and no
                \* handler has touched it since

vars == <<sc, row, used, file, up, svc, lim, sb, h, sync, panel, failed, fresh>>

kept == <<row, used, panel>>
gost == <<up, svc, lim>>

Pcs == {"idle", "limits", "service", "reality", "list", "write", "undo",
        "rmService", "rmLimits", "rmReality", "rmList", "rmWrite", "drop"}
Ops == {"none", "create", "update", "toggle", "undo", "delete"}

Idle == [pc |-> "idle", op |-> "none", cfg |-> Nil, old |-> Nil, snap |-> Nil]

\* What a form can say in this scenario.
Forms == {c \in Cfg : c.ver \in sc.vers}

\* What a part of the system has for a node whose configuration is c.
ForGost(c) == IF c # Nil /\ c.on /\ c.mode = "gost" THEN c ELSE Nil
ForSingBox(c) == IF c # Nil /\ c.on /\ c.mode = "reality" THEN c ELSE Nil

\* BuildConfig over all nodes of the database.
BuildConfig(nodes) == [id \in Ids |-> ForGost(nodes[id])]

\* What a table over the nodes holds when there is nothing in it.
None == [id \in Ids |-> Nil]

SingBox(nodes) == [id \in Ids |-> ForSingBox(nodes[id])]

\* After Bootstrap: everything follows from the database.
Init ==
    /\ sc \in Scenarios
    /\ row \in [Ids -> Forms \cup {Nil}] /\ \A id \in Ids \ sc.ids : row[id] = Nil
    /\ used = {id \in Ids : row[id] # Nil}
    /\ file = BuildConfig(row)
    /\ up = FALSE /\ svc = None /\ lim = None
    /\ sb = SingBox(row)
    /\ h = [id \in Ids |-> Idle] /\ sync = Nil
    /\ panel = [started |-> TRUE, orphans |-> {}]
    /\ failed = [id \in Ids |-> FALSE]
    /\ fresh = [id \in Ids |-> TRUE]

-----------------------------------------------------------------------------
(* ApplyNode, step by step.                                                *)

ApplyPc(c) == IF c.mode = "reality" THEN "reality" ELSE "limits"

\* A step of the handler of id that succeeded, and goes on to pc.
Goto(id, pc) ==
    /\ h' = [h EXCEPT ![id].pc = pc]
    /\ UNCHANGED failed

Finish(id) ==
    /\ h' = [h EXCEPT ![id] = Idle]
    /\ UNCHANGED failed

\* A call to gost fails when gost is down, and now and then; it may have had its
\* effect all the same.
CallFails == ~up \/ "fail" \in sc.env
Effect(tab, id, outcomes) ==
    \E c \in IF up THEN outcomes \cup {tab[id]} ELSE {tab[id]} : tab' = [tab EXCEPT ![id] = c]

\* ApplyNode returned an error: create removes the node again, update restores
\* the old row, toggle and the restoring ApplyNode leave everything as it is.
Abort(id) ==
    /\ failed' = [failed EXCEPT ![id] = TRUE]
    /\ h' = CASE h[id].op = "create" ->
                   [h EXCEPT ![id].pc = IF h[id].cfg.mode = "reality" THEN "rmReality"
                                                                     ELSE "rmService"]
              [] h[id].op = "update" -> [h EXCEPT ![id].pc = "undo"]
              [] OTHER -> [h EXCEPT ![id] = Idle]

\* Upserts abort on an error; the deletion of a limiter that is no longer
\* configured, all there is for a disabled node, does not.
ApplyLimits(id) ==
    /\ h[id].pc = "limits"
    /\ LET new == ForGost(h[id].cfg) IN
       \/ up /\ lim' = [lim EXCEPT ![id] = new] /\ Goto(id, "service")
       \/ CallFails /\ new # Nil /\ Effect(lim, id, {new}) /\ Abort(id)
       \/ /\ CallFails /\ Effect(lim, id, {new})
          /\ h' = [h EXCEPT ![id].pc = "service"]
          /\ failed' = [failed EXCEPT ![id] = TRUE]
    /\ UNCHANGED <<sc, kept, file, up, svc, sb, sync, fresh>>

\* Mutant: gost.yml is not rewritten after the calls.
ApplyServiceNoSync(id) ==
    /\ h[id].pc = "service"
    /\ up
    /\ svc' = [svc EXCEPT ![id] = ForGost(h[id].cfg)]
    /\ Finish(id)
    /\ UNCHANGED <<sc, kept, file, up, lim, sb, sync, fresh>>

\* CreateService or UpdateService, or DeleteService for a disabled node.  An
\* update that fails may have closed the old service already.
ApplyService(id) ==
    /\ h[id].pc = "service"
    /\ LET new == ForGost(h[id].cfg) IN
       \/ up /\ svc' = [svc EXCEPT ![id] = new] /\ Goto(id, "list")
       \/ CallFails /\ Effect(svc, id, {new, Nil}) /\ Abort(id)
    /\ UNCHANGED <<sc, kept, file, up, lim, sb, sync, fresh>>

\* Mutant: a configuration without any node is written.
ApplyListEmpty(id) ==
    /\ h[id].pc = "list"
    /\ h' = [h EXCEPT ![id].pc = "write"]
    /\ UNCHANGED <<sc, kept, file, gost, sb, sync, failed, fresh>>

\* SyncConfigFile: ListNodes, then WriteConfig.
ApplyList(id) ==
    /\ h[id].pc = "list"
    /\ h' = [h EXCEPT ![id].pc = "write", ![id].snap = BuildConfig(row)]
    /\ UNCHANGED <<sc, kept, file, gost, sb, sync, failed, fresh>>

ApplyWrite(id) ==
    /\ h[id].pc = "write"
    /\ \/ file' = h[id].snap /\ Finish(id)
       \/ "fail" \in sc.env /\ Abort(id) /\ UNCHANGED file
    /\ UNCHANGED <<sc, kept, gost, sb, sync, fresh>>

\* What the pool makes of the process of id: a new one takes the place of an orphan,
\* to stop one needs a handle to it.
PoolSets(id, c) ==
    IF c = Nil /\ id \in panel.orphans THEN UNCHANGED <<sb, panel>>
    ELSE /\ sb' = [sb EXCEPT ![id] = c]
         /\ panel' = [panel EXCEPT !.orphans = @ \ {id}]

\* applyReality: Pool.Apply, which fails on file operations only.
ApplyReality(id) ==
    /\ h[id].pc = "reality"
    /\ \/ PoolSets(id, ForSingBox(h[id].cfg)) /\ Finish(id)
       \/ "fail" \in sc.env /\ Abort(id) /\ UNCHANGED <<sb, panel>>
    /\ UNCHANGED <<sc, row, used, file, gost, sync, fresh>>

\* Mutant: the row is restored, the engines are not.
UndoRow(id) ==
    /\ h[id].pc = "undo"
    /\ row' = [row EXCEPT ![id] = h[id].old]
    /\ h' = [h EXCEPT ![id] = Idle]
    /\ failed' = [failed EXCEPT ![id] = FALSE]
    /\ UNCHANGED <<sc, used, file, gost, sb, sync, panel, fresh>>

\* The failed update: SaveNode(old), LoadNodes, ApplyNode(old).
Undo(id) ==
    /\ h[id].pc = "undo"
    /\ row' = [row EXCEPT ![id] = h[id].old]
    /\ h' = [h EXCEPT ![id] = [Idle EXCEPT !.pc = ApplyPc(h[id].old), !.op = "undo",
                                           !.cfg = h[id].old]]
    /\ failed' = [failed EXCEPT ![id] = FALSE]
    /\ UNCHANGED <<sc, used, file, gost, sb, sync, panel, fresh>>

\* The store refuses the old row, or the deletion: the new one stays, and the engines
\* as they are (create ignores the error, delete reports it).
StoreFails(id) ==
    /\ "fail" \in sc.env /\ h[id].pc \in {"undo", "drop"}
    /\ h' = [h EXCEPT ![id] = Idle]
    /\ failed' = [failed EXCEPT ![id] = TRUE]
    /\ UNCHANGED <<sc, kept, file, gost, sb, sync, fresh>>

Apply(id) ==
    ApplyLimits(id) \/ ApplyService(id) \/ ApplyList(id) \/ ApplyWrite(id) \/ ApplyReality(id)
    \/ Undo(id)

-----------------------------------------------------------------------------
(* RemoveNode goes on after an error; then the row is deleted.             *)

RemoveCall(id, pc, tab, next) ==
    /\ h[id].pc = pc
    /\ h' = [h EXCEPT ![id].pc = next]
    /\ \/ up /\ tab' = [tab EXCEPT ![id] = Nil] /\ UNCHANGED failed
       \/ CallFails /\ Effect(tab, id, {Nil}) /\ failed' = [failed EXCEPT ![id] = TRUE]

RemoveService(id) ==
    RemoveCall(id, "rmService", svc, "rmLimits") /\ UNCHANGED <<sc, kept, file, up, lim, sb, sync, fresh>>

RemoveLimits(id) ==
    RemoveCall(id, "rmLimits", lim, "rmList") /\ UNCHANGED <<sc, kept, file, up, svc, sb, sync, fresh>>

RemoveReality(id) ==
    /\ h[id].pc = "rmReality"
    /\ PoolSets(id, Nil)
    /\ Goto(id, "drop")
    /\ UNCHANGED <<sc, row, used, file, gost, sync, fresh>>

RemoveList(id) ==
    /\ h[id].pc = "rmList"
    /\ h' = [h EXCEPT ![id].pc = "rmWrite", ![id].snap = BuildConfig(row)]
    /\ UNCHANGED <<sc, kept, file, gost, sb, sync, failed, fresh>>

RemoveWrite(id) ==
    /\ h[id].pc = "rmWrite"
    /\ \/ file' = h[id].snap /\ Goto(id, "drop")
       \/ /\ "fail" \in sc.env /\ UNCHANGED file
          /\ h' = [h EXCEPT ![id].pc = "drop"] /\ failed' = [failed EXCEPT ![id] = TRUE]
    /\ UNCHANGED <<sc, kept, gost, sb, sync, fresh>>

DropRow(id) ==
    /\ h[id].pc = "drop"
    /\ row' = [row EXCEPT ![id] = Nil]
    /\ Finish(id)
    /\ UNCHANGED <<sc, used, file, gost, sb, sync, panel, fresh>>

Remove(id) ==
    RemoveService(id) \/ RemoveLimits(id) \/ RemoveReality(id) \/ RemoveList(id)
    \/ RemoveWrite(id) \/ DropRow(id)

-----------------------------------------------------------------------------
(* The handlers.                                                           *)

Quiet == sync = Nil /\ \A id \in Ids : h[id].pc = "idle"

Begin(id, op) == op \in sc.env /\ h[id].pc = "idle" /\ ("overlap" \in sc.env \/ Quiet)

\* SaveNode(c), then ApplyNode(c).
SaveAndApply(id, op, c) ==
    /\ row' = [row EXCEPT ![id] = c]
    /\ used' = used \cup {id}
    /\ h' = [h EXCEPT ![id] = [Idle EXCEPT !.pc = ApplyPc(c), !.op = op, !.cfg = c,
                 !.old = IF op = "update" THEN row[id] ELSE Nil]]
    /\ failed' = [failed EXCEPT ![id] = FALSE]
    /\ fresh' = [fresh EXCEPT ![id] = FALSE]
    /\ UNCHANGED <<sc, file, gost, sb, sync, panel>>

Create(id) ==
    /\ Begin(id, "create") /\ id \in sc.ids \ used      \* newID is random
    /\ \E c \in Forms : SaveAndApply(id, "create", c)

Update(id) ==
    /\ Begin(id, "update") /\ row[id] # Nil
    /\ \E c \in Forms :
          /\ "switch" \in sc.env \/ c.mode = row[id].mode
          /\ SaveAndApply(id, "update", c)

Toggle(id) ==
    /\ Begin(id, "toggle") /\ row[id] # Nil
    /\ \E b \in BOOLEAN : SaveAndApply(id, "toggle", [row[id] EXCEPT !.on = b])

Delete(id) ==
    /\ Begin(id, "delete") /\ row[id] # Nil
    /\ h' = [h EXCEPT ![id] = [Idle EXCEPT !.op = "delete", !.cfg = row[id],
                 !.pc = IF row[id].mode = "reality" THEN "rmReality" ELSE "rmService"]]
    /\ failed' = [failed EXCEPT ![id] = FALSE]
    /\ fresh' = [fresh EXCEPT ![id] = FALSE]
    /\ UNCHANGED <<sc, kept, file, gost, sb, sync>>

\* handleGostRestart and a new log level rewrite gost.yml as well.
SyncList ==
    /\ "sync" \in sc.env /\ sync = Nil /\ ("overlap" \in sc.env \/ Quiet)
    /\ sync' = BuildConfig(row)
    /\ UNCHANGED <<sc, kept, file, gost, sb, h, failed, fresh>>

SyncWrite ==
    /\ sync # Nil /\ sync' = Nil
    /\ \/ /\ file' = sync
          /\ \E b \in {panel.started, TRUE} : panel' = [panel EXCEPT !.started = b]
       \/ "fail" \in sc.env /\ UNCHANGED <<file, panel>>
    /\ UNCHANGED <<sc, row, used, gost, sb, h, failed, fresh>>

-----------------------------------------------------------------------------
(* gost and the panel as processes.                                        *)

GostExit ==
    /\ "crash" \in sc.env /\ up
    /\ up' = FALSE
    /\ svc' = None /\ lim' = None
    /\ UNCHANGED <<sc, kept, file, sb, h, sync, failed, fresh>>

GostStart ==
    /\ ~up /\ panel.started
    /\ up' = TRUE
    /\ svc' = file /\ lim' = file
    /\ UNCHANGED <<sc, kept, file, sb, h, sync, failed, fresh>>

\* A stop anywhere, that of gost included: what is left of the sing-box processes.
Left ==
    {[id \in Ids |-> IF id \in panel.orphans THEN sb[id] ELSE Nil]}
        \cup IF "orphan" \in sc.env THEN {sb} ELSE {}

Stopped ==
    /\ "restart" \in sc.env
    /\ up' = FALSE /\ svc' = None /\ lim' = None
    /\ h' = [id \in Ids |-> Idle] /\ sync' = Nil
    /\ UNCHANGED <<sc, row, used>>

\* syncReality: an enabled node gets a process of its own, and an error with one node
\* (bad) is logged.  Nobody looks after the processes of the others.
SyncReality(left, bad) ==
    LET served == {id \in Ids \ bad : ForSingBox(row[id]) # Nil} IN
    /\ sb' = [id \in Ids |-> IF id \in served THEN ForSingBox(row[id]) ELSE left[id]]
    /\ panel' = [started |-> TRUE, orphans |-> {id \in Ids \ served : left[id] # Nil}]
    /\ failed' = [id \in Ids |-> id \in bad]
    /\ fresh' = [id \in Ids |-> id \notin bad]

Refused == IF "fail" \in sc.env THEN {id \in Ids : row[id] # Nil /\ row[id].mode = "reality"} ELSE {}

\* Mutant: gost is started from the gost.yml that is there.
PanelRestartOldFile ==
    /\ Stopped /\ UNCHANGED file
    /\ \E left \in Left, bad \in SUBSET Refused : SyncReality(left, bad)

\* Bootstrap after the stop: SyncConfigFile, syncReality, Start.
PanelRestart ==
    /\ Stopped /\ file' = BuildConfig(row)
    /\ \E left \in Left, bad \in SUBSET Refused : SyncReality(left, bad)

\* Bootstrap returns early when gost.yml cannot be written, or the nodes cannot be
\* read after it was; main logs it and serves.  The cache is empty until somebody
\* lists the nodes, a subscription say.
BootFails ==
    /\ "fail" \in sc.env /\ Stopped
    /\ file' \in {file, BuildConfig(row)}
    /\ sb' \in Left
    /\ panel' = [started |-> FALSE, orphans |-> {id \in Ids : sb'[id] # Nil}]
    /\ failed' = [id \in Ids |-> TRUE]
    /\ fresh' = [id \in Ids |-> FALSE]

Next ==
    \/ \E id \in Ids : \/ Create(id) \/ Update(id) \/ Toggle(id) \/ Delete(id)
                       \/ Apply(id) \/ Remove(id) \/ StoreFails(id)
    \/ SyncList \/ SyncWrite \/ GostExit \/ GostStart \/ PanelRestart \/ BootFails

Spec == Init /\ [][Next]_vars

-----------------------------------------------------------------------------
(* Properties.                                                             *)

Handler == [pc : Pcs, op : Ops, cfg : Opt, old : Opt, snap : [Ids -> Opt] \cup {Nil}]

TypeOK ==
    /\ sc \in Scenarios
    /\ row \in [Ids -> Opt] /\ used \subseteq Ids /\ file \in [Ids -> Opt]
    /\ up \in BOOLEAN
    /\ svc \in [Ids -> Opt] /\ lim \in [Ids -> Opt] /\ sb \in [Ids -> Opt]
    /\ h \in [Ids -> Handler]
    /\ sync \in [Ids -> Opt] \cup {Nil}
    /\ panel \in [started : BOOLEAN, orphans : SUBSET Ids]
    /\ failed \in [Ids -> BOOLEAN] /\ fresh \in [Ids -> BOOLEAN]

\* gost carries exactly what the database says of id, and so does the pool.
InGost(id) == up => svc[id] = ForGost(row[id]) /\ lim[id] = ForGost(row[id])
InPool(id) == sb[id] = ForSingBox(row[id])
InSync(id) == InGost(id) /\ InPool(id)

\* ApplyNode brings a node to the engines (the code's comment says so): when the
\* last ApplyNode or RemoveNode of a node met no error, be it the one that restored
\* the old row, the engines carry what the row says, whatever failed before it.
ApplySyncs == \A id \in Ids : h[id].pc = "idle" /\ ~failed[id] => InSync(id)

\* What holds of it: it is so unless gost exits, an edit changes the engine of a node,
\* or a process outlives its panel (handleCreateNode, handleUpdateNode,
\* handleToggleNode, handleDeleteNode).
AppliedServed == sc.env \cap {"crash", "switch", "orphan"} = {} => ApplySyncs

\* Once nobody is at work gost.yml holds what the database says of every node that
\* was applied without an error, so gost can exit at any time, provided that one
\* writes at a time and that no node is added or removed (SyncConfigFile).
FileSettled ==
    sc.env \cap {"overlap", "switch", "create", "delete"} = {} /\ Quiet =>
        \A id \in Ids : ~failed[id] => file[id] = ForGost(row[id])

\* A start of the panel that met no error with a node puts right what went wrong with
\* it before, and other nodes' handlers, failing or overlapping, do not spoil it again
\* (Bootstrap): all of it.
AllHealed == \A id \in Ids : fresh[id] => InSync(id)

\* What holds of it: a process that outlived its panel is replaced where the row wants
\* one (syncReality, reapOrphan); where it wants none, the process may stay.
Healed ==
    \A id \in Ids : fresh[id] =>
        /\ InGost(id)
        /\ InPool(id) \/ (id \in panel.orphans /\ ForSingBox(row[id]) = Nil)
=============================================================================

----------------------------- MODULE SingboxPool -----------------------------
(***************************************************************************)
(* The sing-box pool (internal/singbox/singbox.go) and who uses it: the    *)
(* node handlers, the sampler, which pauses and revives reality nodes, and *)
(* main.  One node is modelled; nodes share nothing but the lock around    *)
(* the map.  An instance is an object of the pool; restart hands it to a   *)
(* new goroutine (supervise) with a stop channel of its own; the goroutine *)
(* starts processes and waits for them.                                    *)
(***************************************************************************)
EXTENDS Naturals, FiniteSets

CONSTANTS
    Vers,       \* what a node's form can say besides enabled
    Insts,      \* instance objects
    Gos,        \* goroutines, each with its stop channel
    Procs,      \* sing-box processes
    Nil,
    Scenarios   \* what a behaviour meets, see Scenario

EnvEvents ==
    { "toggle", "update", "delete",
      "quota",     \* the quota is used up, or a new window begins
      "exit",      \* a sing-box exits by itself
      "kill",      \* the panel ends without StopAll: killed, or restarted by exec
      "stop",      \* the panel ends as main does it
      "late",      \* the sampler goes on while main stops
      "fail",      \* a sing-box cannot be started
      "overlap",   \* handlers run during a pass
      "window" }   \* a stop falls between supervise's look at its channel and the
                   \* publication of the process it then starts

\* A behaviour has one scenario throughout; at most max events happen in it.
Scenario == [env : SUBSET EnvEvents, max : Nat]

ASSUME ScenariosAssumption == Scenarios \subseteq Scenario

Blank == "blank"        \* the configuration without credentials that pauses a node

Node == [on : BOOLEAN, ver : Vers]

ASSUME NilAssumption ==
    /\ Nil \notin Node \cup Insts \cup Gos \cup Procs \cup Vers \cup {Blank}
    /\ Blank \notin Vers

VARIABLES
    sc,         \* the scenario, never changed
    events,     \* how many events have happened
    panel,      \* "up", "leaving" once main calls StopAll, "stopped", or "killed"
    want,       \* the node in the database, Nil once deleted
    blocked,    \* the traffic of the window has reached the quota
    conf,       \* config.json, Nil if there is none
    pool,       \* Pool.inst: the instance of the node, or Nil
    cmd, stop,  \* fields of the instances
    closed,     \* the stop channels that are closed
    go,         \* the goroutines running supervise
    proc,       \* the processes: what they do, and with which configuration
    call,       \* the call into the pool of each caller
    pass        \* the sampler's pass: its object of the node, and Stats

vars == <<sc, events, panel, want, blocked, conf, pool, cmd, stop, closed, go, proc, call, pass>>

instances == <<pool, cmd, stop>>
world == <<sc, events, panel, want, blocked>>

Callers == {"handler", "sampler"}
CallPcs == {"idle", "conf", "look", "halt", "wait", "go", "unmap", "rmdir", "drop"}
CallOps == {"none", "apply", "boot", "remove", "stopAll"}
GoPcs == {"none", "init", "begin", "check", "reap", "start", "publish", "wait"}
ProcSts == {"none", "starting", "listening", "closing"}

NoCall == [pc |-> "idle", op |-> "none", inst |-> Nil, cfg |-> Nil, on |-> FALSE,
           changed |-> FALSE, took |-> Nil]
NoGo == [pc |-> "none", inst |-> Nil, proc |-> Nil]
NoProc == [st |-> "none", ver |-> Nil]
NoPass == [pc |-> "idle", held |-> Nil, same |-> FALSE, running |-> FALSE]

\* Mutant: the arguments are swapped.
ApplyingSwapped(op, c) == [NoCall EXCEPT !.pc = "conf", !.op = op, !.cfg = c.on, !.on = c.ver]

\* Pool.Apply(c.ver, c.on) has been called, by op.
Applying(op, c) == [NoCall EXCEPT !.pc = "conf", !.op = op, !.cfg = c.ver, !.on = c.on]

Init ==
    /\ sc \in Scenarios
    /\ events = 0
    /\ panel = "up"
    /\ want \in Node /\ blocked = FALSE
    /\ conf = Nil /\ pool = Nil
    /\ cmd = [i \in Insts |-> Nil] /\ stop = [i \in Insts |-> Nil]
    /\ closed = {}
    /\ go = [k \in Gos |-> NoGo]
    /\ proc = [p \in Procs |-> NoProc]
    /\ call = [w \in Callers |-> IF w = "handler" THEN Applying("boot", want) ELSE NoCall]
    /\ pass = NoPass

\* What happens in the environment: at most sc.max times.
Event(kind) == kind \in sc.env /\ events < sc.max /\ events' = events + 1

\* Which unused object, goroutine or process is taken next does not matter.
Any(S) == CHOOSE x \in S : TRUE

FreeInsts == {i \in Insts : /\ pool # i
                            /\ \A k \in Gos : go[k].inst # i
                            /\ \A w \in Callers : call[w].inst # i}
FreeGos == {k \in Gos : go[k] = NoGo /\ k \notin closed /\ \A i \in Insts : stop[i] # k}
FreeProcs == {p \in Procs : /\ proc[p] = NoProc
                            /\ \A k \in Gos : go[k].proc # p
                            /\ \A i \in Insts : cmd[i] # p
                            /\ \A w \in Callers : call[w].took # p}

\* Who holds the node's ports.
Holders == {p \in Procs : proc[p].st \in {"listening", "closing"}}
Alive == {p \in Procs : proc[p].st # "none"}

-----------------------------------------------------------------------------
(* Pool.Apply, Pool.Remove and Pool.StopAll, by caller w.                  *)

Return(w) ==
    /\ call' = [call EXCEPT ![w] = NoCall]
    /\ UNCHANGED <<panel, go, pass>>

\* The program ends, and with it everything but the processes.
PanelGone(how) ==
    /\ panel' = how
    /\ call' = [w \in Callers |-> NoCall]
    /\ go' = [k \in Gos |-> NoGo]
    /\ pass' = NoPass

\* Mutant: an instance is restarted only if it is dead.
ChangedNever(w) == FALSE

\* Does the file differ from what Apply was given?
Changed(w) == conf # call[w].cfg

\* Under the lock of the pool: find or create the instance, write the file if new.
WriteConf(w) ==
    /\ call[w].pc = "conf"
    /\ LET i == IF pool = Nil THEN Any(FreeInsts) ELSE pool IN
         /\ pool # Nil \/ FreeInsts # {}
         /\ pool' = i
         /\ IF pool = Nil THEN cmd' = [cmd EXCEPT ![i] = Nil] /\ stop' = [stop EXCEPT ![i] = Nil]
                          ELSE UNCHANGED <<cmd, stop>>
         /\ conf' = call[w].cfg
         /\ call' = [call EXCEPT ![w].pc = "look", ![w].inst = i,
                                 ![w].changed = Changed(w)]
    /\ UNCHANGED <<world, closed, go, proc, pass>>

\* !enabled stops the process; changed || isDead() restarts it.
Look(w) ==
    /\ call[w].pc = "look"
    /\ IF ~call[w].on \/ call[w].changed \/ cmd[call[w].inst] = Nil
         THEN call' = [call EXCEPT ![w].pc = "halt"] /\ UNCHANGED <<panel, go, pass>>
         ELSE Return(w)
    /\ UNCHANGED <<sc, events, want, blocked, conf, instances, closed, proc>>

\* What a signal does: a process that listens shuts down, one that does not yet dies.
Signalled(p) ==
    IF p = Nil \/ proc[p].st \in {"none", "closing"} THEN proc
    ELSE [proc EXCEPT ![p] = IF @.st = "listening" THEN [@ EXCEPT !.st = "closing"] ELSE NoProc]

InWindow(i) == \E k \in Gos : go[k].inst = i /\ go[k].pc \in {"init", "reap", "start", "publish"}

\* Mutant: the field is cleared, the channel stays open.
CloseNothing(i) == closed

CloseStop(i) == closed \cup ({stop[i]} \ {Nil})

\* stopProcess: close the channel, take the process, signal it.
Halt(w) ==
    /\ call[w].pc = "halt"
    /\ LET i == call[w].inst IN
         /\ "window" \in sc.env \/ ~InWindow(i)
         /\ closed' = CloseStop(i)
         /\ stop' = [stop EXCEPT ![i] = Nil]
         /\ cmd' = [cmd EXCEPT ![i] = Nil]
         /\ proc' = Signalled(cmd[i])
         /\ call' = [call EXCEPT ![w].pc = "wait", ![w].took = cmd[i]]
    /\ UNCHANGED <<world, conf, pool, go, pass>>

\* Mutant: it does not wait for the process it has signalled.
EndedAtOnce(w) == TRUE

Ended(w) == call[w].took # Nil => proc[call[w].took] = NoProc

\* It waits for the process to end, and kills it after five seconds (see Close).
WaitGone(w) ==
    /\ call[w].pc = "wait"
    /\ Ended(w)
    /\ CASE call[w].op = "remove" -> /\ call' = [call EXCEPT ![w].pc = "rmdir", ![w].took = Nil]
                                     /\ UNCHANGED <<panel, go, pass>>
         [] call[w].op = "stopAll" -> Return(w)
         [] OTHER -> IF call[w].on THEN /\ call' = [call EXCEPT ![w].pc = "go", ![w].took = Nil]
                                        /\ UNCHANGED <<panel, go, pass>>
                                   ELSE Return(w)
    /\ UNCHANGED <<sc, events, want, blocked, conf, instances, closed, proc>>

\* restart: go i.supervise().
Spawn(w) ==
    /\ call[w].pc = "go" /\ FreeGos # {}
    /\ go' = [go EXCEPT ![Any(FreeGos)] = [NoGo EXCEPT !.pc = "init", !.inst = call[w].inst]]
    /\ call' = [call EXCEPT ![w] = NoCall]
    /\ UNCHANGED <<world, conf, instances, closed, proc, pass>>

\* Remove: out of the map first.
Unmap(w) ==
    /\ call[w].pc = "unmap"
    /\ pool' = Nil
    /\ call' = [call EXCEPT ![w].pc = IF pool = Nil THEN "drop" ELSE "halt", ![w].inst = pool]
    /\ UNCHANGED <<world, conf, cmd, stop, closed, go, proc, pass>>

RemoveDir(w) ==
    /\ call[w].pc = "rmdir"
    /\ conf' = Nil
    /\ call' = [call EXCEPT ![w].pc = "drop"]
    /\ UNCHANGED <<world, instances, closed, go, proc, pass>>

\* handleDeleteNode: DeleteNode and LoadNodes after RemoveNode.
DropRow(w) ==
    /\ call[w].pc = "drop"
    /\ want' = Nil
    /\ Return(w)
    /\ UNCHANGED <<sc, events, blocked, conf, instances, closed, proc>>

Step(w) ==
    WriteConf(w) \/ Look(w) \/ Halt(w) \/ WaitGone(w) \/ Spawn(w)
    \/ Unmap(w) \/ RemoveDir(w) \/ DropRow(w)

-----------------------------------------------------------------------------
(* supervise, and the processes it starts.                                 *)

Goto(k, pc) == go' = [go EXCEPT ![k].pc = pc]

\* Its channel replaces whatever was in the field.
GoInit(k) ==
    /\ go[k].pc = "init"
    /\ stop' = [stop EXCEPT ![go[k].inst] = k]
    /\ Goto(k, "begin")
    /\ UNCHANGED <<world, conf, pool, cmd, closed, proc, call, pass>>

\* Mutant: it never looks at its channel.
ToldNothing(k) == FALSE

ToldToStop(k) == k \in closed

\* At the head of the loop; later also after a process has ended, and during the
\* backoff ("check").
GoCheck(k) ==
    /\ go[k].pc \in {"begin", "check"}
    /\ IF ToldToStop(k) THEN go' = [go EXCEPT ![k] = NoGo] /\ closed' = closed \ {k}
                        ELSE Goto(k, "reap") /\ UNCHANGED closed
    /\ UNCHANGED <<world, conf, instances, proc, call, pass>>

\* Mutant: only the pid file is looked at.
NoOrphans == {}

\* reapOrphan: the pid file never finds anyone, as the arguments in cmdline are not
\* separated by blanks; whoever holds the API port is killed.
Orphans == Holders

GoReap(k) ==
    /\ go[k].pc = "reap"
    /\ proc' = [p \in Procs |-> IF p \in Orphans THEN NoProc ELSE proc[p]]
    /\ Goto(k, "start")
    /\ UNCHANGED <<world, conf, instances, closed, call, pass>>

\* cmd.Start; the process reads its configuration.
GoStart(k) ==
    /\ go[k].pc = "start" /\ FreeProcs # {}
    /\ LET p == Any(FreeProcs) IN
         /\ proc' = [proc EXCEPT ![p] = [st |-> "starting", ver |-> conf]]
         /\ go' = [go EXCEPT ![k].pc = "publish", ![k].proc = p]
    /\ UNCHANGED <<world, conf, instances, closed, call, pass>>

GoStartFails(k) ==
    /\ go[k].pc = "start" /\ Event("fail")
    /\ Goto(k, "check")
    /\ UNCHANGED <<sc, panel, want, blocked, conf, instances, closed, proc, call, pass>>

GoPublish(k) ==
    /\ go[k].pc = "publish"
    /\ cmd' = [cmd EXCEPT ![go[k].inst] = go[k].proc]
    /\ Goto(k, "wait")
    /\ UNCHANGED <<world, conf, pool, stop, closed, proc, call, pass>>

\* The process has ended: the field is cleared if it is still this process.
GoWait(k) ==
    /\ go[k].pc = "wait" /\ proc[go[k].proc] = NoProc
    /\ cmd' = [cmd EXCEPT ![go[k].inst] = IF @ = go[k].proc THEN Nil ELSE @]
    /\ go' = [go EXCEPT ![k].pc = "check", ![k].proc = Nil]
    /\ UNCHANGED <<world, conf, pool, stop, closed, proc, call, pass>>

Supervise(k) ==
    \/ GoInit(k) \/ GoCheck(k) \/ GoReap(k) \/ GoStart(k) \/ GoStartFails(k)
    \/ GoPublish(k) \/ GoWait(k)

\* A sing-box comes up, unless its ports are taken or its configuration is no good.
Bind(p) ==
    /\ proc[p].st = "starting"
    /\ proc' = [proc EXCEPT ![p] = IF Holders = {} /\ proc[p].ver \in Vers
                                     THEN [@ EXCEPT !.st = "listening"] ELSE NoProc]
    /\ UNCHANGED <<world, conf, instances, closed, go, call, pass>>

\* The end of its shutdown, or stopProcess's kill.
Close(p) ==
    /\ proc[p].st = "closing"
    /\ proc' = [proc EXCEPT ![p] = NoProc]
    /\ UNCHANGED <<world, conf, instances, closed, go, call, pass>>

-----------------------------------------------------------------------------
(* The handlers and the sampler.                                           *)

Idle(w) == call[w] = NoCall

MayCall ==
    /\ panel = "up" /\ Idle("handler")
    /\ "overlap" \in sc.env \/ (pass = NoPass /\ Idle("sampler"))

MayHandle == MayCall /\ want # Nil

\* The row is saved and the cache loaded again: the pass keeps an older object.
SaveAndApply(c) ==
    /\ want' = c
    /\ call' = [call EXCEPT !["handler"] = Applying("apply", c)]
    /\ UNCHANGED <<sc, panel, blocked, conf, instances, closed, go, proc>>

\* handleToggleNode changes the object of the cache in place.
Toggle ==
    /\ Event("toggle") /\ MayHandle
    /\ LET c == [want EXCEPT !.on = ~@] IN
         /\ SaveAndApply(c)
         /\ pass' = [pass EXCEPT !.held = IF pass.same THEN c ELSE @, !.same = FALSE]

Update ==
    /\ Event("update") /\ MayHandle
    /\ \E c \in Node : SaveAndApply(c)
    /\ pass' = [pass EXCEPT !.same = FALSE]

Delete ==
    /\ Event("delete") /\ MayHandle
    /\ call' = [call EXCEPT !["handler"] = [NoCall EXCEPT !.pc = "unmap", !.op = "remove"]]
    /\ UNCHANGED <<sc, panel, want, blocked, conf, instances, closed, go, proc, pass>>

\* Nothing cancels the ticker before main returns.
Ticking == panel = "up" \/ (panel = "leaving" /\ "late" \in sc.env)

\* sampleReality: the nodes of the cache, then the Stats of all of them.  Passes are
\* seconds apart, longer than supervise takes from its start to a process.
PassNodes ==
    /\ Ticking /\ pass = NoPass /\ Idle("sampler") /\ want # Nil
    /\ "overlap" \in sc.env \/ Idle("handler") \/ panel = "leaving"
    /\ call["handler"].op # "boot"
    /\ \A k \in Gos : go[k].pc \in {"none", "check", "wait"}
    /\ pass' = [NoPass EXCEPT !.pc = "stats", !.held = want, !.same = TRUE]
    /\ UNCHANGED <<world, conf, instances, closed, go, proc, call>>

\* Running: the instance has a process, and someone answers on its API port.
Running == pool # Nil /\ cmd[pool] # Nil /\ \E p \in Procs : proc[p].st = "listening"

PassStats ==
    /\ pass.pc = "stats"
    /\ pass' = [pass EXCEPT !.pc = "decide", !.running = Running]
    /\ UNCHANGED <<world, conf, instances, closed, go, proc, call>>

\* Mutant: a node beyond its quota is left running.
WantedUnpaused == IF ~blocked /\ pass.held.on /\ ~pass.running THEN pass.held ELSE Nil

\* What the pass asks of the pool: pause, revive, or Nil.
Wanted ==
    IF blocked /\ pass.running THEN [on |-> FALSE, ver |-> Blank]
    ELSE IF ~blocked /\ pass.held.on /\ ~pass.running THEN pass.held
    ELSE Nil

PassDecide ==
    /\ pass.pc = "decide"
    /\ pass' = NoPass
    /\ call' = [call EXCEPT !["sampler"] = IF Wanted = Nil THEN NoCall ELSE Applying("apply", Wanted)]
    /\ UNCHANGED <<world, conf, instances, closed, go, proc>>

Sampler == PassNodes \/ PassStats \/ PassDecide

-----------------------------------------------------------------------------
(* The environment and the panel.                                          *)

Quota ==
    /\ Event("quota")
    /\ blocked' = ~blocked
    /\ UNCHANGED <<sc, panel, want, conf, instances, closed, go, proc, call, pass>>

Exit(p) ==
    /\ Event("exit") /\ proc[p].st = "listening"
    /\ proc' = [proc EXCEPT ![p] = NoProc]
    /\ UNCHANGED <<sc, panel, want, blocked, conf, instances, closed, go, call, pass>>

\* The end of main: StopAll, once the HTTP server is down and the last sample taken,
\* which is none at all if a pass is running.
StopPanel ==
    /\ Event("stop") /\ panel = "up" /\ Idle("handler")
    /\ {"overlap", "late"} \cap sc.env # {} \/ (pass = NoPass /\ Idle("sampler"))
    /\ panel' = "leaving"
    /\ call' = IF pool = Nil THEN call
               ELSE [call EXCEPT !["handler"] =
                         [NoCall EXCEPT !.pc = "halt", !.op = "stopAll", !.inst = pool]]
    /\ UNCHANGED <<sc, want, blocked, conf, instances, closed, go, proc, pass>>

\* After StopAll it posts a message and stops gost, which takes its time, and returns.
MainReturns ==
    /\ panel = "leaving" /\ Idle("handler")
    /\ PanelGone("stopped")
    /\ UNCHANGED <<sc, events, want, blocked, conf, instances, closed, proc>>

\* The processes outlive the panel; restartPanel's exec does the same.
KillPanel ==
    /\ Event("kill") /\ panel \in {"up", "leaving"}
    /\ PanelGone("killed")
    /\ UNCHANGED <<sc, want, blocked, conf, instances, closed, proc>>

\* Bootstrap: syncReality applies the node of the database.
Boot ==
    /\ panel \in {"stopped", "killed"}
    /\ panel' = "up"
    /\ pool' = Nil
    /\ cmd' = [i \in Insts |-> Nil] /\ stop' = [i \in Insts |-> Nil]
    /\ closed' = {}
    /\ call' = [call EXCEPT !["handler"] = IF want = Nil THEN NoCall ELSE Applying("boot", want)]
    /\ UNCHANGED <<sc, events, want, blocked, conf, go, proc, pass>>

Next ==
    \/ \E w \in Callers : Step(w)
    \/ \E k \in Gos : Supervise(k)
    \/ \E p \in Procs : Bind(p) \/ Close(p) \/ Exit(p)
    \/ Sampler
    \/ Toggle \/ Update \/ Delete
    \/ Quota \/ StopPanel \/ MainReturns \/ KillPanel \/ Boot

Spec == Init /\ [][Next]_vars

\* Goroutines, callers and main run, a stop gets its turn between two windows, processes
\* come up and end, the ticker ticks on.
Fairness ==
    /\ \A w \in Callers : WF_vars(Step(w)) /\ SF_vars(Halt(w))
    /\ \A k \in Gos : WF_vars(Supervise(k))
    /\ \A p \in Procs : WF_vars(Bind(p)) /\ WF_vars(Close(p))
    /\ WF_vars(PassStats \/ PassDecide) /\ SF_vars(PassNodes)
    /\ WF_vars(MainReturns) /\ WF_vars(Boot)

FairSpec == Spec /\ Fairness

-----------------------------------------------------------------------------
(* Properties.                                                             *)

TypeOK ==
    /\ sc \in Scenarios
    /\ events \in 0..sc.max
    /\ panel \in {"up", "leaving", "stopped", "killed"}
    /\ want \in Node \cup {Nil} /\ blocked \in BOOLEAN
    /\ conf \in Vers \cup {Blank, Nil}
    /\ pool \in Insts \cup {Nil}
    /\ cmd \in [Insts -> Procs \cup {Nil}] /\ stop \in [Insts -> Gos \cup {Nil}]
    /\ closed \subseteq Gos
    /\ go \in [Gos -> [pc : GoPcs, inst : Insts \cup {Nil}, proc : Procs \cup {Nil}]]
    /\ proc \in [Procs -> [st : ProcSts, ver : Vers \cup {Blank, Nil}]]
    /\ call \in [Callers -> [pc : CallPcs, op : CallOps, inst : Insts \cup {Nil},
                 cfg : Vers \cup {Blank, Nil}, on : BOOLEAN, changed : BOOLEAN,
                 took : Procs \cup {Nil}]]
    /\ pass \in [pc : {"idle", "stats", "decide"}, held : Node \cup {Nil}, same : BOOLEAN,
                 running : BOOLEAN]

\* Nobody is at work on the node in a panel that serves.
Quiet == panel = "up" /\ \A w \in Callers : Idle(w)

\* Scenarios without the races that break a promise below.
Serial == sc.env \cap {"overlap", "window", "late"} = {}

\* A switch or a deletion brings the instance up or takes it away at once (the
\* change log says so): once it has returned a disabled or deleted node has no process.
Reclaimed == Quiet /\ (want = Nil \/ ~want.on) => Alive = {}

\* What holds of it: it is so when handlers and passes take turns, no stop falls in
\* supervise's window, and no panel was killed (stopProcess, Remove).
ReclaimedSerial == Serial /\ "kill" \notin sc.env => Reclaimed

\* Never do two goroutines supervise a node that nobody has told to stop: they
\* would kill each other's processes for ever (restart, supervise).
OneSupervisor ==
    Serial => Cardinality({k \in Gos : go[k].pc # "none" /\ k \notin closed}) <= 1

\* Once an Apply has returned, no process serves an older configuration (Apply's
\* comparison of the file, and the restart).
NoOldConf ==
    Serial /\ "kill" \notin sc.env /\ Quiet /\ want # Nil =>
        \A p \in Procs : proc[p].st = "listening" => proc[p].ver = want.ver

\* When main has returned no sing-box is left.  The code breaks it: a pass that
\* StopAll overtakes, or one that begins after it, finds an enabled node without a
\* process and revives it (main, sampleReality).
NothingLeft == panel = "stopped" /\ "kill" \notin sc.env => Alive = {}

\* What holds of it: it is so if the sampler is at rest from StopAll to the end of
\* main, whatever supervise was about, a backoff or a start (StopAll, stopProcess).
StopAllClean == Serial => NothingLeft

\* The node has what it should have: a process with its configuration that the pool
\* knows of, or none while it is disabled or beyond its quota.
Settled ==
    IF want = Nil \/ ~want.on \/ blocked THEN sc.env \cap {"kill", "late"} # {} \/ Alive = {}
    ELSE /\ Running
         /\ proc[cmd[pool]].st = "listening" /\ proc[cmd[pool]].ver = want.ver

\* However edits, quotas, exits, failed starts, and stopped or killed panels alternate,
\* when they are over the node settles: orphans are reaped, those too that a pass
\* started behind StopAll's back, and paused nodes revived.
Settles == sc.env \cap {"overlap", "window"} = {} => <>[]Settled
=============================================================================

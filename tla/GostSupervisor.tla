--------------------------- MODULE GostSupervisor ---------------------------
(***************************************************************************)
(* The gost process and its keeper (internal/gostmgr/manager.go).  A       *)
(* supervise goroutine starts gost, waits for it, and starts it again      *)
(* after a pause; Stop sets a flag and terminates the process it finds in  *)
(* m.cmd; Restart is Stop, clearing the flag, and Start, which launches a  *)
(* further supervise goroutine.                                            *)
(*                                                                         *)
(* A goroutine is named by the context it was given: Root for the one of   *)
(* Bootstrap, the request for one launched by handleGostRestart.  A        *)
(* process is a member of Procs; a dead one nobody refers to is used again.*)
(***************************************************************************)
EXTENDS Naturals, FiniteSets

CONSTANTS
    Procs,      \* operating system processes
    Reqs,       \* requests of the admin to restart gost, one call of Restart each
    Root,       \* the context of main
    Nil,        \* no process
    Scenarios   \* what a behaviour meets, see Scenario

EnvEvents ==
    { "crash",       \* gost exits by itself
      "startFail",   \* cmd.Start returns an error
      "shutdown",    \* main is told to stop
      "disconnect",  \* the client of a restart request goes away early
      "timeout" }    \* Stop's five seconds, or WaitReady's twenty, run out

Ctxs == Reqs \cup {Root}

\* A behaviour has one scenario throughout: env, what the environment may do, and
\* reqs, the requests that may come.
Scenario == [env : SUBSET EnvEvents, reqs : SUBSET Reqs]

ASSUME ScenariosAssumption == Scenarios \subseteq Scenario
ASSUME NamesAssumption == Root \notin Reqs /\ Nil \notin Procs

VARIABLES
    sc,         \* the scenario, never changed
    alive,      \* running gost processes
    dying,      \* processes that were sent SIGTERM or SIGKILL
    cmd,        \* m.cmd
    stopping,   \* m.stopping
    cancelled,  \* contexts that are done
    sup,        \* the supervise goroutines
    call        \* main and the restart handlers

vars == <<sc, alive, dying, cmd, stopping, cancelled, sup, call>>

SupPcs == {"none", "check", "start", "publish", "wait", "clear", "decide", "backoff", "done"}
CallPcs == {"idle", "boot", "serving", "flag", "find", "term", "clearFlag", "launch", "ready",
            "done", "failed", "closing", "exited"}

Init ==
    /\ sc \in Scenarios
    /\ alive = {} /\ dying = {}
    /\ cmd = Nil
    /\ stopping = FALSE
    /\ cancelled = {}
    /\ sup = [c \in Ctxs |-> [pc |-> "none", proc |-> Nil]]
    /\ call = [c \in Ctxs |-> [pc |-> IF c = Root THEN "boot" ELSE "idle", proc |-> Nil]]

\* Once main has ended, nothing of the panel runs.
Running == call[Root].pc # "exited"

-----------------------------------------------------------------------------
(* The gost processes (external).                                          *)

InUse == {cmd} \cup {sup[c].proc : c \in Ctxs} \cup {call[c].proc : c \in Ctxs}

ProcExit(p) ==
    /\ p \in alive /\ (p \in dying \/ "crash" \in sc.env)
    /\ alive' = alive \ {p}
    /\ dying' = dying \ {p}
    /\ UNCHANGED <<sc, cmd, stopping, cancelled, sup, call>>

-----------------------------------------------------------------------------
(* supervise.                                                              *)

GoTo(c, pc) == sup' = [sup EXCEPT ![c].pc = pc]

\* Mutant: the flag is not looked at.
QuitContext(c) == c \in cancelled

Quit(c) == stopping \/ c \in cancelled

SupCheck(c) ==
    /\ sup[c].pc = "check"
    /\ GoTo(c, IF Quit(c) THEN "done" ELSE "start")
    /\ UNCHANGED <<sc, alive, dying, cmd, stopping, cancelled, call>>

SupStart(c) ==
    /\ sup[c].pc = "start"
    /\ \E p \in Procs \ (alive \cup InUse) :
          /\ alive' = alive \cup {p}
          /\ sup' = [sup EXCEPT ![c] = [pc |-> "publish", proc |-> p]]
    /\ UNCHANGED <<sc, dying, cmd, stopping, cancelled, call>>

SupStartFail(c) ==
    /\ "startFail" \in sc.env /\ sup[c].pc = "start"
    /\ GoTo(c, "clear")
    /\ UNCHANGED <<sc, alive, dying, cmd, stopping, cancelled, call>>

SupPublish(c) ==
    /\ sup[c].pc = "publish"
    /\ cmd' = sup[c].proc
    /\ GoTo(c, "wait")
    /\ UNCHANGED <<sc, alive, dying, stopping, cancelled, call>>

\* Mutant: the goroutine gives up on a process that still runs.
SupNoWait(c) ==
    /\ sup[c].pc = "wait"
    /\ GoTo(c, "clear")
    /\ UNCHANGED <<sc, alive, dying, cmd, stopping, cancelled, call>>

\* cmd.Wait returns.
SupWait(c) ==
    /\ sup[c].pc = "wait" /\ sup[c].proc \notin alive
    /\ GoTo(c, "clear")
    /\ UNCHANGED <<sc, alive, dying, cmd, stopping, cancelled, call>>

\* Mutant: m.cmd keeps the process that has exited.
SupNoClear(c) ==
    /\ sup[c].pc = "clear"
    /\ sup' = [sup EXCEPT ![c] = [pc |-> "decide", proc |-> Nil]]
    /\ UNCHANGED <<sc, alive, dying, cmd, stopping, cancelled, call>>

SupClear(c) ==
    /\ sup[c].pc = "clear"
    /\ cmd' = Nil
    /\ sup' = [sup EXCEPT ![c] = [pc |-> "decide", proc |-> Nil]]
    /\ UNCHANGED <<sc, alive, dying, stopping, cancelled, call>>

SupDecide(c) ==
    /\ sup[c].pc = "decide"
    /\ GoTo(c, IF Quit(c) THEN "done" ELSE "backoff")
    /\ UNCHANGED <<sc, alive, dying, cmd, stopping, cancelled, call>>

\* Mutant: the goroutine gives up after the pause.
SupGiveUp(c) ==
    /\ sup[c].pc = "backoff"
    /\ GoTo(c, "done")
    /\ UNCHANGED <<sc, alive, dying, cmd, stopping, cancelled, call>>

\* The pause ends, or the context does.
SupBackoff(c) ==
    /\ sup[c].pc = "backoff"
    /\ \/ GoTo(c, "check")
       \/ c \in cancelled /\ GoTo(c, "done")
    /\ UNCHANGED <<sc, alive, dying, cmd, stopping, cancelled, call>>

Supervise(c) ==
    SupCheck(c) \/ SupStart(c) \/ SupStartFail(c) \/ SupPublish(c) \/ SupWait(c) \/ SupClear(c)
    \/ SupDecide(c) \/ SupBackoff(c)

-----------------------------------------------------------------------------
(* Stop, Start and Restart, called by main and by handleGostRestart.       *)

At(c, pc) == call[c].pc = pc
CallTo(c, pc) == call' = [call EXCEPT ![c].pc = pc]

\* SIGTERM or SIGINT, or the panel is to execute itself again: main calls Stop.
Shutdown ==
    /\ "shutdown" \in sc.env /\ At(Root, "serving")
    /\ CallTo(Root, "flag")
    /\ UNCHANGED <<sc, alive, dying, cmd, stopping, cancelled, sup>>

RestartBegin(c) ==
    /\ c \in sc.reqs /\ At(c, "idle") /\ At(Root, "serving")
    /\ CallTo(c, "flag")
    /\ UNCHANGED <<sc, alive, dying, cmd, stopping, cancelled, sup>>

StopFlag(c) ==
    /\ At(c, "flag")
    /\ stopping' = TRUE
    /\ CallTo(c, "find")
    /\ UNCHANGED <<sc, alive, dying, cmd, cancelled, sup>>

AfterStop(c) == IF c = Root THEN "closing" ELSE "clearFlag"

\* Mutant: whatever carries the process id is signalled, gost or not.
StopFindStale(c) ==
    /\ At(c, "find")
    /\ call' = [call EXCEPT ![c] = [pc |-> "term", proc |-> cmd]]
    /\ dying' = dying \cup {cmd}
    /\ UNCHANGED <<sc, alive, cmd, stopping, cancelled, sup>>

\* No process in m.cmd: Stop is done.  Otherwise it is terminated.
StopFind(c) ==
    /\ At(c, "find")
    /\ IF cmd = Nil
       THEN CallTo(c, AfterStop(c)) /\ UNCHANGED dying
       ELSE /\ call' = [call EXCEPT ![c] = [pc |-> "term", proc |-> cmd]]
            /\ dying' = dying \cup ({cmd} \cap alive)
    /\ UNCHANGED <<sc, alive, cmd, stopping, cancelled, sup>>

\* Mutant: Stop does not wait for the process it has signalled.
StopReturnEarly(c) ==
    /\ At(c, "term")
    /\ call' = [call EXCEPT ![c] = [pc |-> AfterStop(c), proc |-> IF c = Root THEN @.proc ELSE Nil]]
    /\ UNCHANGED <<sc, alive, dying, cmd, stopping, cancelled, sup>>

\* The process is gone, or it is killed after five seconds and not waited for.  Of main
\* the process it has found is remembered, for LeftBehind.
StopReturn(c) ==
    /\ At(c, "term")
    /\ call[c].proc \notin alive \/ "timeout" \in sc.env
    /\ call' = [call EXCEPT ![c] = [pc |-> AfterStop(c), proc |-> IF c = Root THEN @.proc ELSE Nil]]
    /\ UNCHANGED <<sc, alive, dying, cmd, stopping, cancelled, sup>>

\* Main closes the database and returns, or executes the panel anew; the goroutines
\* run until then.
Exit(c) ==
    /\ At(c, "closing")
    /\ CallTo(c, "exited")
    /\ UNCHANGED <<sc, alive, dying, cmd, stopping, cancelled, sup>>

ClearFlag(c) ==
    /\ At(c, "clearFlag")
    /\ stopping' = FALSE
    /\ CallTo(c, "launch")
    /\ UNCHANGED <<sc, alive, dying, cmd, cancelled, sup>>

\* Start: CompareAndSwap(false, false) succeeds whenever no Stop is in force.
Start(c) ==
    /\ \/ At(c, "launch") /\ CallTo(c, "ready")
       \/ At(c, "boot") /\ CallTo(c, "serving")
    /\ IF stopping THEN UNCHANGED sup ELSE GoTo(c, "check")
    /\ UNCHANGED <<sc, alive, dying, cmd, stopping, cancelled>>

\* WaitReady finds a gost that answers, be it one that is about to go; or its context or its
\* time is over, and the answer is an error.  The handler returns, which ends the context.
RequestEnd(c) ==
    /\ At(c, "ready")
    /\ \/ alive # {} /\ c \notin cancelled /\ CallTo(c, "done")
       \/ (c \in cancelled \/ "timeout" \in sc.env) /\ CallTo(c, "failed")
    /\ cancelled' = cancelled \cup {c}
    /\ UNCHANGED <<sc, alive, dying, cmd, stopping, sup>>

Disconnect(c) ==
    /\ "disconnect" \in sc.env /\ call[c].pc \notin {"idle", "done", "failed"} /\ c # Root
    /\ cancelled' = cancelled \cup {c}
    /\ UNCHANGED <<sc, alive, dying, cmd, stopping, sup, call>>

Call(c) ==
    StopFlag(c) \/ StopFind(c) \/ StopReturn(c) \/ Exit(c) \/ ClearFlag(c) \/ Start(c) \/ RequestEnd(c)

Next ==
    \/ \E p \in Procs : ProcExit(p)
    \/ Running /\ (Shutdown \/ \E c \in Ctxs : Supervise(c) \/ Call(c))
    \/ Running /\ \E c \in Reqs : RestartBegin(c) \/ Disconnect(c)

Spec == Init /\ [][Next]_vars

\* Goroutines run; a signalled process dies; gost can be started now and then.
Fairness ==
    /\ \A p \in Procs : WF_vars(p \in dying /\ ProcExit(p))
    /\ \A c \in Ctxs : WF_vars(Running /\ Supervise(c)) /\ SF_vars(Running /\ SupStart(c))
    /\ \A c \in Ctxs : WF_vars(Running /\ Call(c))

FairSpec == Spec /\ Fairness

-----------------------------------------------------------------------------
(* Properties.                                                             *)

TypeOK ==
    /\ sc \in Scenarios
    /\ alive \subseteq Procs /\ dying \subseteq alive
    /\ cmd \in Procs \cup {Nil}
    /\ stopping \in BOOLEAN
    /\ cancelled \subseteq Reqs
    /\ sup \in [Ctxs -> [pc : SupPcs, proc : Procs \cup {Nil}]]
    /\ call \in [Ctxs -> [pc : CallPcs, proc : Procs \cup {Nil}]]

\* There is never a second gost process (Start is idempotent, its comment says): the
\* ports and the API of the two would collide, and Stop sees one of them only.
SingleGost == Cardinality(alive) <= 1

\* What holds of it: without restarts by the admin there is only one.
OneGost == sc.reqs = {} => SingleGost

\* Stop stops gost, its comment says: none runs on when the panel has ended.
NoneLeft == call[Root].pc = "exited" => alive \subseteq dying

\* A process between cmd.Start and m.cmd = cmd Stop does not find; once it has found one,
\* none is left that was not signalled, whatever the goroutine does while Stop waits or
\* gives up waiting, and while main ends (supervise, Stop).
LeftBehind == NoneLeft \/ call[Root].proc = Nil

\* What holds of it: without restarts, what Stop finds in m.cmd is the process the
\* goroutine waits for, neither an exited one nor, while it waits, none at all (Stop,
\* Status); and a Stop that has found a process leaves none behind (main).
Stoppable == sc.reqs = {} =>
    /\ \A c \in Ctxs : sup[c].pc = "wait" => cmd = sup[c].proc
    /\ cmd # Nil => \E c \in Ctxs : sup[c].pc \in {"wait", "clear"} /\ cmd = sup[c].proc
    /\ LeftBehind

\* The manager keeps gost up (manager.go, package comment): a gost that exits is
\* started again for as long as the panel serves.
KeptUp == call[Root].pc = "serving" /\ alive = {} ~> alive # {} \/ call[Root].pc # "serving"

\* What holds of it: so it is when nobody asks for a restart, however often gost
\* exits or fails to start.
RunsAgain ==
    call[Root].pc = "serving" /\ alive = {} /\ sc.reqs = {} ~> alive # {} \/ call[Root].pc # "serving"

\* All restarts so far were answered with ok, at least one was, and the panel serves.
RestartedWell ==
    /\ call[Root].pc = "serving"
    /\ \E c \in Reqs : At(c, "done")
    /\ \A c \in Reqs : call[c].pc \in {"idle", "done"}

\* After restarts that were all answered with ok gost runs, however they overlapped and however
\* often gost failed to start, as long as it does not exit by itself and Stop's five seconds
\* suffice (Restart, handleGostRestart).
RestartRuns ==
    RestartedWell /\ sc.env \cap {"crash", "timeout"} = {} ~> alive # {} \/ ~ RestartedWell

\* The same of every restart that has ended: the goroutine it has started lives with the
\* request, and a client that goes away leaves no gost.
RestartRunsAlways ==
    (call[Root].pc = "serving" /\ \A c \in Reqs : call[c].pc \in {"idle", "done", "failed"})
        ~> (alive # {} \/ \E c \in Reqs : At(c, "flag"))
=============================================================================

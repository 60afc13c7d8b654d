------------------------- MODULE SingboxPoolProofs --------------------------
(***************************************************************************)
(* SingboxPool is type correct under every interference; and when handlers,*)
(* passes and the end of main take turns and no stop falls in supervise's window, at most  *)
(* one goroutine nobody has told to stop supervises the node, a disabled   *)
(* or deleted node has no process, no process serves an older              *)
(* configuration, and main leaves nothing behind.                          *)
(***************************************************************************)
EXTENDS SingboxPool, FiniteSetTheorems, TLAPS

GoType == [pc : GoPcs, inst : Insts \cup {Nil}, proc : Procs \cup {Nil}]
ProcType == [st : ProcSts, ver : Vers \cup {Blank, Nil}]
CallType == [pc : CallPcs, op : CallOps, inst : Insts \cup {Nil}, cfg : Vers \cup {Blank, Nil},
             on : BOOLEAN, changed : BOOLEAN, took : Procs \cup {Nil}]
PassType == [pc : {"idle", "stats", "decide"}, held : Node \cup {Nil}, same : BOOLEAN, running : BOOLEAN]

\* A call that looks at an instance has one.
CallInv ==
    \A w \in Callers :
        /\ call[w].pc = "idle" => call[w] = NoCall
        /\ call[w].pc \in {"look", "halt", "wait", "go"} => call[w].inst \in Insts

\* A goroutine has its instance, and from the start of a process to its end that process.
GoInv ==
    \A k \in Gos :
        /\ go[k].pc = "none" => go[k] = NoGo
        /\ go[k].pc # "none" => go[k].inst \in Insts
        /\ go[k].proc # Nil <=> go[k].pc \in {"publish", "wait"}

PassInv == IF pass.pc = "idle" THEN pass = NoPass ELSE pass.held \in Node

TypeInv == TypeOK /\ CallInv /\ GoInv /\ PassInv

-----------------------------------------------------------------------------
(* When handlers and passes take turns *)

Busy(w) == call[w].pc # "idle"
Live(k) == go[k].pc # "none" /\ k \notin closed
Serves == panel \in {"up", "leaving"}

\* main stops the pool while nobody else is at work, and is alone until it ends.
TurnInv ==
    /\ \A v, w \in Callers : Busy(v) /\ Busy(w) => v = w
    /\ pass # NoPass => (\A w \in Callers : ~ Busy(w)) /\ pass.held = want /\ panel = "up"
    /\ ~ Serves => (\A w \in Callers : ~ Busy(w)) /\ pass = NoPass /\ \A k \in Gos : go[k] = NoGo
    /\ \A w \in Callers : Busy(w) /\ panel = "leaving" => w = "handler" /\ call[w].op = "stopAll"

\* Nobody is at work in a panel that has stopped the pool, or is gone.
Left == panel # "up" /\ \A w \in Callers : ~ Busy(w)

\* The instance a call works on is the one in the map, unless it removes it.
InstOK(c) ==
    /\ c.op \in {"apply", "boot"} => /\ c.pc \in {"conf", "look", "halt", "wait", "go"}
                                     /\ c.pc # "conf" => c.inst = pool
    /\ c.op = "stopAll" => c.pc \in {"halt", "wait"} /\ c.inst = pool
    /\ c.op = "remove" => /\ c.pc \in {"unmap", "halt", "wait", "rmdir", "drop"}
                          /\ c.pc # "unmap" => pool = Nil
    /\ c.op = "none" => c.pc = "idle"

InstInv == \A w \in Callers : InstOK(call[w])

OneLive == \A j, k \in Gos : Live(j) /\ Live(k) => j = k

\* Its instance is the node's, or the one a call that removes the node is about to halt.
LivePlace ==
    \A k \in Gos : Live(k) =>
        \/ go[k].inst = pool
        \/ \E w \in Callers : call[w].pc = "halt" /\ call[w].op = "remove" /\ call[w].inst = go[k].inst

\* Whoever halts the instance finds its channel, and finds no other.
LiveChannel == \A k \in Gos : Live(k) /\ go[k].pc # "init" => stop[go[k].inst] = k

ChannelLive ==
    Serves => \A i \in Insts : stop[i] # Nil =>
                        Live(stop[i]) /\ go[stop[i]].pc # "init" /\ go[stop[i]].inst = i

\* A call that has halted the instance leaves nobody live until it starts the next,
\* and StopAll leaves nobody live at all.
Halted == {"wait", "go", "rmdir", "drop"}
NoneLive == Left \/ (\E w \in Callers : call[w].pc \in Halted) => \A k \in Gos : ~ Live(k)

\* One that was told to stop starts nothing more.
Told == {"begin", "check", "wait"}
ToldInv == \A k \in Gos : k \in closed /\ go[k].pc # "none" => go[k].pc \in Told

LiveInv == OneLive /\ LivePlace /\ LiveChannel /\ ChannelLive /\ NoneLive /\ ToldInv

SupInv == TurnInv /\ InstInv /\ LiveInv

\* The arguments of a call are what the row says, and the file is what the call was given.
ArgOK(c) ==
    c.op \in {"apply", "boot"} =>
        /\ c.on => want # Nil /\ want.on /\ want.ver = c.cfg
        /\ c.pc # "conf" => conf = c.cfg
        /\ c.pc = "go" => c.on

ArgInv == \A w \in Callers : ArgOK(call[w])

Wanting == want # Nil /\ want.on /\ conf = want.ver
LiveWanted == (\A w \in Callers : ~ Busy(w)) => \A k \in Gos : Live(k) => Wanting

\* Every process belongs to one goroutine, and the pool knows of it.
Up(p) == proc[p].st # "none"
HasUp(k) == go[k].proc # Nil /\ Up(go[k].proc)

Owned == \A p \in Procs : Up(p) => \E k \in Gos : go[k].proc = p
OneOwner == \A j, k \in Gos : go[j].proc = go[k].proc /\ go[j].proc # Nil => j = k
Shown == \A k \in Gos : Live(k) /\ go[k].pc = "wait" => cmd[go[k].inst] = go[k].proc

\* The process of a goroutine that was told to stop is being waited for.
Awaited == \A k \in Gos : k \in closed /\ HasUp(k) => \E w \in Callers : call[w].pc = "wait" /\ call[w].took = go[k].proc

\* The process of another one serves the file, or is about to be stopped.
Stopping(c) == c.pc = "halt" \/ (c.pc = "look" /\ c.changed)
Current == \A k \in Gos : Live(k) /\ HasUp(k) => proc[go[k].proc].ver = conf \/ \E w \in Callers : Stopping(call[w])

NoneLeft == Left => \A p \in Procs : ~ Up(p)

ProcInv == Owned /\ OneOwner /\ Shown /\ Awaited /\ Current /\ NoneLeft

NodeInv == ArgInv /\ LiveWanted /\ ProcInv

IInv == TypeInv /\ (Serial => SupInv) /\ (Serial /\ "kill" \notin sc.env => NodeInv)

-----------------------------------------------------------------------------
(* Types *)

CallOK(c) ==
    /\ c \in CallType
    /\ c.pc = "idle" => c = NoCall
    /\ c.pc \in {"look", "halt", "wait", "go"} => c.inst \in Insts

GoOK(g) ==
    /\ g \in GoType
    /\ g.pc = "none" => g = NoGo
    /\ g.pc # "none" => g.inst \in Insts
    /\ g.proc # Nil <=> g.pc \in {"publish", "wait"}

PassOK(x) ==
    /\ x \in PassType
    /\ IF x.pc = "idle" THEN x = NoPass ELSE x.held \in Node

WorldOK ==
    /\ sc \in Scenarios
    /\ events \in 0..sc.max
    /\ panel \in {"up", "leaving", "stopped", "killed"}
    /\ want \in Node \cup {Nil} /\ blocked \in BOOLEAN
    /\ conf \in Vers \cup {Blank, Nil}
    /\ closed \subseteq Gos

InstancesOK ==
    /\ pool \in Insts \cup {Nil}
    /\ cmd \in [Insts -> Procs \cup {Nil}] /\ stop \in [Insts -> Gos \cup {Nil}]

CallsOK == call \in [Callers -> CallType] /\ \A w \in Callers : CallOK(call[w])

GosOK == go \in [Gos -> GoType] /\ \A k \in Gos : GoOK(go[k])

ProcsOK == proc \in [Procs -> ProcType]

LEMMA TypeParts ==
  TypeInv <=> WorldOK /\ InstancesOK /\ CallsOK /\ GosOK /\ ProcsOK /\ PassOK(pass)
  <1>1. CallsOK <=> call \in [Callers -> CallType] /\ CallInv
    BY DEF CallsOK, CallOK, CallInv
  <1>2. GosOK <=> go \in [Gos -> GoType] /\ GoInv
    BY DEF GosOK, GoOK, GoInv
  <1>3. PassOK(pass) <=> pass \in PassType /\ PassInv
    BY DEF PassOK, PassInv
  <1>4. TypeOK <=> /\ WorldOK /\ InstancesOK /\ ProcsOK /\ pass \in PassType
                   /\ call \in [Callers -> CallType] /\ go \in [Gos -> GoType]
    BY DEF TypeOK, WorldOK, InstancesOK, ProcsOK, CallType, GoType, ProcType, PassType
  <1> QED BY <1>1, <1>2, <1>3, <1>4 DEF TypeInv

LEMMA NilFacts ==
  /\ Nil \notin Insts /\ Nil \notin Gos /\ Nil \notin Procs /\ Nil \notin Node
  /\ Nil \notin Vers /\ Nil # Blank /\ Blank \notin Vers
  BY NilAssumption

LEMMA NoneOK ==
  /\ CallOK(NoCall) /\ NoCall.pc = "idle" /\ NoCall.op = "none" /\ NoCall.inst = Nil
  /\ GoOK(NoGo) /\ NoGo.pc = "none" /\ NoGo.proc = Nil /\ NoGo.inst = Nil
  /\ NoProc \in ProcType /\ NoProc.st = "none"
  /\ PassOK(NoPass) /\ NoPass.pc = "idle"
  <1>1. NoCall \in CallType BY DEF NoCall, CallType, CallPcs, CallOps
  <1>2. NoGo \in GoType BY DEF NoGo, GoType, GoPcs
  <1>3. NoProc \in ProcType BY DEF NoProc, ProcType, ProcSts
  <1>4. NoPass \in PassType BY DEF NoPass, PassType
  <1> QED BY <1>1, <1>2, <1>3, <1>4 DEF CallOK, GoOK, PassOK, NoCall, NoGo, NoProc, NoPass

\* One call, one goroutine or one process changes.
LEMMA PutCall ==
  ASSUME CallsOK, NEW w \in Callers, NEW c, CallOK(c), call' = [call EXCEPT ![w] = c]
  PROVE  /\ CallsOK'
         /\ call'[w] = c
         /\ \A v \in Callers : v # w => call'[v] = call[v]
  BY DEF CallsOK, CallOK

LEMMA PutGo ==
  ASSUME GosOK, NEW k \in Gos, NEW g, GoOK(g), go' = [go EXCEPT ![k] = g]
  PROVE  /\ GosOK'
         /\ go'[k] = g
         /\ \A j \in Gos : j # k => go'[j] = go[j]
  BY DEF GosOK, GoOK

LEMMA PutProc ==
  ASSUME ProcsOK, NEW p \in Procs, NEW x \in ProcType, proc' = [proc EXCEPT ![p] = x]
  PROVE  /\ ProcsOK'
         /\ proc'[p] = x
         /\ \A q \in Procs : q # p => proc'[q] = proc[q]
  BY DEF ProcsOK

LEMMA Sets ==
  /\ {"idle", "conf", "look", "halt", "wait", "go", "unmap", "rmdir", "drop"} = CallPcs
  /\ {"none", "apply", "boot", "remove", "stopAll"} = CallOps
  /\ {"none", "init", "begin", "check", "reap", "start", "publish", "wait"} = GoPcs
  /\ {"none", "starting", "listening", "closing"} = ProcSts
  BY DEF CallPcs, CallOps, GoPcs, ProcSts

\* The argument of a call of Apply is a node, or the configuration that pauses one.
LEMMA ApplyingOK ==
  ASSUME NEW op \in {"apply", "boot"}, NEW c, c.on \in BOOLEAN, c.ver \in Vers \cup {Blank, Nil}
  PROVE  /\ CallOK(Applying(op, c))
         /\ Applying(op, c).pc = "conf" /\ Applying(op, c).op = op
         /\ Applying(op, c).cfg = c.ver
         /\ Applying(op, c).on = c.on
         /\ Applying(op, c).inst = Nil /\ Applying(op, c).took = Nil
  <1>1. NoCall \in CallType /\ NoCall.inst = Nil /\ NoCall.took = Nil BY NoneOK DEF CallOK, NoCall
  <1>2. PICK a : a = Applying(op, c) OBVIOUS
  <1> PICK v \in Vers \cup {Blank, Nil}, o \in BOOLEAN : v = c.ver /\ o = c.on
    OBVIOUS
  <1>3. a = [NoCall EXCEPT !.pc = "conf", !.op = op, !.cfg = v, !.on = o]
    BY <1>2 DEF Applying
  <1>4. "conf" \in CallPcs /\ op \in CallOps BY Sets
  <1>5. /\ a \in CallType
        /\ a.pc = "conf" /\ a.op = op /\ a.cfg = v
        /\ a.on = o
        /\ a.inst = NoCall.inst /\ a.took = NoCall.took
    <2> PICK x \in CallType : x = NoCall BY <1>1
    <2>1. a = [x EXCEPT !.pc = "conf", !.op = op, !.cfg = v, !.on = o] BY <1>3
    <2>2. a.on = o BY <1>4, <2>1 DEF CallType
    <2>3. a \in CallType BY <1>4, <2>1 DEF CallType
    <2> QED BY <1>1, <1>4, <2>1, <2>2, <2>3 DEF CallType
  <1>6. CallOK(a) BY <1>5 DEF CallOK
  <1> QED BY <1>1, <1>2, <1>5, <1>6

LEMMA AnyIn ==
  ASSUME NEW S, S # {} PROVE Any(S) \in S
  BY DEF Any

LEMMA GoneOK ==
  ASSUME NEW how \in {"stopped", "killed"}, PanelGone(how)
  PROVE  /\ panel' = how /\ pass' = NoPass
         /\ \A w \in Callers : call'[w] = NoCall
         /\ \A k \in Gos : go'[k] = NoGo
         /\ CallsOK' /\ GosOK' /\ PassOK(pass)'
  <1>1. /\ panel' = how /\ pass' = NoPass
        /\ call' = [w \in Callers |-> NoCall] /\ go' = [k \in Gos |-> NoGo]
    BY DEF PanelGone
  <1>2. NoCall \in CallType /\ NoGo \in GoType BY NoneOK DEF CallOK, GoOK
  <1>3. CallsOK' BY <1>1, <1>2, NoneOK DEF CallsOK, CallOK
  <1>4. GosOK' BY <1>1, <1>2, NoneOK DEF GosOK, GoOK
  <1> QED BY <1>1, <1>3, <1>4, NoneOK DEF PassOK

LEMMA ReturnOK ==
  ASSUME CallsOK, NEW w \in Callers, Return(w)
  PROVE  /\ CallsOK' /\ call'[w] = NoCall
         /\ \A v \in Callers : v # w => call'[v] = call[v]
         /\ panel' = panel /\ go' = go /\ pass' = pass
  BY PutCall, NoneOK DEF Return

LEMMA EventCounted ==
  ASSUME WorldOK, NEW kind, Event(kind), sc' = sc
  PROVE  events' \in 0..sc'.max
  <1>1. sc.max \in Nat BY ScenariosAssumption DEF WorldOK, Scenario
  <1> QED BY <1>1 DEF WorldOK, Event

-----------------------------------------------------------------------------
(* What each step of a call does, with the types after it *)

\* The call of w is c now, and nobody else's changed.
NowCall(w, c) == c \in CallType /\ call'[w] = c /\ \A v \in Callers : v # w => call'[v] = call[v]

LEMMA SameCall ==
  ASSUME NEW w \in Callers, NEW c, CallsOK, CallOK(c), call' = [call EXCEPT ![w] = c]
  PROVE  CallsOK' /\ NowCall(w, c)
  BY PutCall DEF NowCall, CallOK

LEMMA WriteConfEffect ==
  ASSUME TypeInv, NEW w \in Callers, WriteConf(w)
  PROVE  /\ TypeInv'
         /\ pool' \in Insts
         /\ pool # Nil => pool' = pool /\ UNCHANGED <<cmd, stop>>
         /\ pool = Nil => /\ pool' \in FreeInsts
                          /\ stop' = [stop EXCEPT ![pool'] = Nil]
         /\ \E c : /\ NowCall(w, c)
                   /\ c.pc = "look" /\ c.inst = pool' /\ c.op = call[w].op
                   /\ c.cfg = call[w].cfg /\ c.took = call[w].took
                   /\ c.on = call[w].on
                   /\ c.changed = Changed(w)
  <1> USE TypeParts, NilFacts
  <1>1. call[w] \in CallType /\ CallsOK /\ InstancesOK /\ WorldOK BY DEF CallsOK
  <1>2. PICK i \in Insts : /\ pool' = i
                           /\ \/ /\ pool = Nil /\ i \in FreeInsts
                                 /\ cmd' = [cmd EXCEPT ![i] = Nil] /\ stop' = [stop EXCEPT ![i] = Nil]
                              \/ pool = i /\ UNCHANGED <<cmd, stop>>
                           /\ call' = [call EXCEPT ![w].pc = "look", ![w].inst = i, ![w].changed = Changed(w)]
    <2>1. CASE pool = Nil
      <3>1. Any(FreeInsts) \in FreeInsts BY <2>1, AnyIn DEF WriteConf
      <3>2. Any(FreeInsts) \in Insts BY <3>1 DEF FreeInsts
      <3> QED BY <2>1, <3>1, <3>2 DEF WriteConf
    <2>2. CASE pool # Nil
      BY <1>1, <2>2 DEF WriteConf, InstancesOK
    <2> QED BY <2>1, <2>2
  <1>3. Changed(w) \in BOOLEAN BY DEF Changed
  <1>4. PICK c : c = [call[w] EXCEPT !.pc = "look", !.inst = i, !.changed = Changed(w)] OBVIOUS
  <1>5. call' = [call EXCEPT ![w] = c] BY <1>1, <1>2, <1>4 DEF CallsOK
  <1>6. /\ c \in CallType
        /\ c.pc = "look" /\ c.inst = i /\ c.op = call[w].op
        /\ c.cfg = call[w].cfg /\ c.took = call[w].took
        /\ c.on = call[w].on
        /\ c.changed = Changed(w)
    BY <1>1, <1>3, <1>4, Sets DEF CallType
  <1>7. CallsOK' /\ NowCall(w, c) BY <1>1, <1>5, <1>6, SameCall DEF CallOK
  <1>8. InstancesOK' BY <1>1, <1>2 DEF InstancesOK
  <1>9. conf' \in Vers \cup {Blank, Nil} BY <1>1 DEF WriteConf, CallType
  <1>10. WorldOK' BY <1>1, <1>9 DEF WorldOK, WriteConf, world
  <1>11. GosOK' /\ ProcsOK' /\ PassOK(pass)' BY DEF WriteConf, GosOK, ProcsOK
  <1>12. TypeInv' BY <1>7, <1>8, <1>10, <1>11, PTL
  <1> QED BY <1>2, <1>6, <1>7, <1>12

LEMMA LookEffect ==
  ASSUME TypeInv, NEW w \in Callers, Look(w)
  PROVE  /\ TypeInv'
         /\ UNCHANGED <<panel, go, pass>>
         /\ \E c : /\ NowCall(w, c)
                   /\ \/ c = NoCall /\ call[w].on /\ ~ call[w].changed
                      \/ /\ c.pc = "halt" /\ c.inst = call[w].inst /\ c.op = call[w].op
                         /\ c.cfg = call[w].cfg /\ c.took = call[w].took
                         /\ c.on = call[w].on
  <1> USE TypeParts, NilFacts
  <1>1. call[w] \in CallType /\ CallsOK /\ call[w].inst \in Insts BY DEF CallsOK, CallOK, Look
  <1>2. /\ CallsOK' /\ UNCHANGED <<panel, go, pass>>
        /\ \E c : /\ NowCall(w, c)
                  /\ \/ c = NoCall /\ call[w].on /\ ~ call[w].changed
                     \/ /\ c.pc = "halt" /\ c.inst = call[w].inst /\ c.op = call[w].op
                        /\ c.cfg = call[w].cfg /\ c.took = call[w].took
                        /\ c.on = call[w].on
    <2>1. CASE ~ (~ call[w].on \/ call[w].changed \/ cmd[call[w].inst] = Nil)
      <3>1. call' = [call EXCEPT ![w] = NoCall] /\ UNCHANGED <<panel, go, pass>>
        BY <2>1 DEF Look, Return
      <3>2. CallsOK' /\ NowCall(w, NoCall) BY <1>1, <3>1, NoneOK, SameCall
      <3> QED BY <2>1, <3>1, <3>2
    <2>2. CASE ~ call[w].on \/ call[w].changed \/ cmd[call[w].inst] = Nil
      <3>1. PICK c : c = [call[w] EXCEPT !.pc = "halt"] OBVIOUS
      <3>2. call' = [call EXCEPT ![w] = c] /\ UNCHANGED <<panel, go, pass>>
        BY <1>1, <2>2, <3>1 DEF CallsOK, Look
      <3>3. /\ c \in CallType
            /\ c.pc = "halt" /\ c.inst = call[w].inst /\ c.op = call[w].op
            /\ c.cfg = call[w].cfg /\ c.took = call[w].took
            /\ c.on = call[w].on
        BY <1>1, <3>1, Sets DEF CallType
      <3>4. CallsOK' /\ NowCall(w, c) BY <1>1, <3>2, <3>3, SameCall DEF CallOK
      <3> QED BY <3>2, <3>3, <3>4
    <2> QED BY <2>1, <2>2
  <1>3. WorldOK' /\ InstancesOK' BY <1>2 DEF WorldOK, InstancesOK, Look, instances
  <1>4. GosOK' /\ ProcsOK' /\ PassOK(pass)' BY <1>2 DEF Look, GosOK, ProcsOK
  <1>5. TypeInv' BY <1>2, <1>3, <1>4, PTL
  <1> QED BY <1>2, <1>5

\* No process comes, and none changes its configuration.
NoneCame == \A p \in Procs : proc'[p].st # "none" => proc[p].st # "none" /\ proc'[p].ver = proc[p].ver

LEMMA SignalledOK ==
  ASSUME ProcsOK, NEW p \in Procs \cup {Nil}, proc' = Signalled(p)
  PROVE  ProcsOK' /\ NoneCame
  <1>1. CASE p = Nil \/ proc[p].st \in {"none", "closing"}
    BY <1>1 DEF Signalled, ProcsOK, NoneCame
  <1>2. CASE p # Nil /\ proc[p].st \notin {"none", "closing"}
    <2>1. proc' = [proc EXCEPT ![p] = IF @.st = "listening" THEN [@ EXCEPT !.st = "closing"] ELSE NoProc]
      BY <1>2 DEF Signalled
    <2>2. p \in Procs /\ proc[p] \in ProcType BY <1>2 DEF ProcsOK
    <2>3. PICK x : x = [proc[p] EXCEPT !.st = "closing"] OBVIOUS
    <2>4. x \in ProcType /\ x.ver = proc[p].ver BY <2>2, <2>3, Sets DEF ProcType
    <2>5. PICK y \in ProcType : /\ proc' = [proc EXCEPT ![p] = y]
                                /\ y = x \/ y = NoProc
      <3>1. CASE proc[p].st = "listening"
        BY <2>1, <2>2, <2>3, <2>4, <3>1 DEF ProcsOK
      <3>2. CASE proc[p].st # "listening"
        BY <2>1, <2>2, <3>2, NoneOK DEF ProcsOK
      <3> QED BY <3>1, <3>2
    <2>6. ProcsOK' BY <2>2, <2>5, PutProc
    <2>7. NoneCame BY <1>2, <2>2, <2>4, <2>5, PutProc, NoneOK DEF NoneCame
    <2> QED BY <2>6, <2>7
  <1> QED BY <1>1, <1>2

LEMMA HaltEffect ==
  ASSUME TypeInv, NEW w \in Callers, Halt(w)
  PROVE  /\ TypeInv' /\ NoneCame
         /\ call[w].inst \in Insts
         /\ "window" \in sc.env \/ ~ InWindow(call[w].inst)
         /\ closed' = closed \cup ({stop[call[w].inst]} \ {Nil})
         /\ stop' = [stop EXCEPT ![call[w].inst] = Nil]
         /\ \E c : /\ NowCall(w, c)
                   /\ c.pc = "wait" /\ c.took = cmd[call[w].inst] /\ c.inst = call[w].inst
                   /\ c.op = call[w].op /\ c.cfg = call[w].cfg
                   /\ c.on = call[w].on
  <1> USE TypeParts, NilFacts
  <1>1. call[w] \in CallType /\ CallsOK /\ InstancesOK /\ WorldOK /\ ProcsOK BY DEF CallsOK
  <1>2. call[w].inst \in Insts BY DEF CallsOK, CallOK, Halt
  <1>3. PICK i \in Insts : i = call[w].inst BY <1>2
  <1>4. /\ "window" \in sc.env \/ ~ InWindow(i)
        /\ closed' = closed \cup ({stop[i]} \ {Nil})
        /\ stop' = [stop EXCEPT ![i] = Nil] /\ cmd' = [cmd EXCEPT ![i] = Nil]
        /\ proc' = Signalled(cmd[i])
        /\ call' = [call EXCEPT ![w].pc = "wait", ![w].took = cmd[i]]
    BY <1>3 DEF Halt, CloseStop
  <1>5. cmd[i] \in Procs \cup {Nil} /\ stop[i] \in Gos \cup {Nil} BY <1>1 DEF InstancesOK
  <1>6. PICK c : c = [call[w] EXCEPT !.pc = "wait", !.took = cmd[i]] OBVIOUS
  <1>7. call' = [call EXCEPT ![w] = c] BY <1>1, <1>4, <1>6 DEF CallsOK
  <1>8. /\ c \in CallType
        /\ c.pc = "wait" /\ c.took = cmd[i] /\ c.inst = i /\ c.op = call[w].op
        /\ c.cfg = call[w].cfg
        /\ c.on = call[w].on
    BY <1>1, <1>3, <1>5, <1>6, Sets DEF CallType
  <1>9. CallsOK' /\ NowCall(w, c) BY <1>1, <1>7, <1>8, SameCall DEF CallOK
  <1>10. ProcsOK' /\ NoneCame BY <1>1, <1>4, <1>5, SignalledOK
  <1>11. InstancesOK' BY <1>1, <1>4 DEF InstancesOK, Halt
  <1>12. WorldOK' BY <1>1, <1>4, <1>5 DEF WorldOK, Halt, world
  <1>13. GosOK' /\ PassOK(pass)' BY DEF Halt, GosOK
  <1>14. TypeInv' BY <1>9, <1>10, <1>11, <1>12, <1>13, PTL
  <1> QED BY <1>3, <1>4, <1>8, <1>9, <1>10, <1>14

\* The panel is gone: nothing of it is left.
Gone(how) ==
    /\ panel' = how /\ pass' = NoPass
    /\ \A w \in Callers : call'[w] = NoCall
    /\ \A k \in Gos : go'[k] = NoGo

LEMMA WaitGoneEffect ==
  ASSUME TypeInv, NEW w \in Callers, WaitGone(w)
  PROVE  /\ TypeInv'
         /\ UNCHANGED <<panel, go, pass>>
         /\ \E c : /\ NowCall(w, c)
                   /\ \/ c = NoCall
                      \/ /\ c.inst = call[w].inst /\ c.op = call[w].op /\ c.cfg = call[w].cfg
                         /\ c.on = call[w].on
                         /\ \/ c.pc = "rmdir" /\ c.op = "remove"
                            \/ c.pc = "go" /\ c.op \notin {"remove", "stopAll"} /\ c.on
  <1> USE TypeParts, NilFacts
  <1>1. call[w] \in CallType /\ CallsOK /\ InstancesOK /\ WorldOK /\ GosOK /\ PassOK(pass) BY DEF CallsOK
  <1>2. call[w].inst \in Insts BY DEF CallsOK, CallOK, WaitGone
  <1>3. ASSUME NEW pc \in {"rmdir", "go"}, call' = [call EXCEPT ![w].pc = pc, ![w].took = Nil]
        PROVE  /\ CallsOK'
               /\ \E c : /\ NowCall(w, c)
                         /\ c.pc = pc /\ c.inst = call[w].inst /\ c.op = call[w].op /\ c.cfg = call[w].cfg
                         /\ c.on = call[w].on
    <2>1. PICK c : c = [call[w] EXCEPT !.pc = pc, !.took = Nil] OBVIOUS
    <2>2. call' = [call EXCEPT ![w] = c] BY <1>1, <1>3, <2>1 DEF CallsOK
    <2>3. /\ c \in CallType
          /\ c.pc = pc /\ c.inst = call[w].inst /\ c.op = call[w].op /\ c.cfg = call[w].cfg
          /\ c.on = call[w].on
      BY <1>1, <2>1, Sets DEF CallType
    <2>4. CallsOK' /\ NowCall(w, c) BY <1>1, <1>2, <2>2, <2>3, SameCall DEF CallOK
    <2> QED BY <2>3, <2>4
  <1>4. /\ CallsOK' /\ GosOK' /\ PassOK(pass)' /\ UNCHANGED <<panel, go, pass>>
        /\ \E c : /\ NowCall(w, c)
                  /\ \/ c = NoCall
                     \/ /\ c.inst = call[w].inst /\ c.op = call[w].op /\ c.cfg = call[w].cfg
                        /\ c.on = call[w].on
                        /\ \/ c.pc = "rmdir" /\ c.op = "remove"
                           \/ c.pc = "go" /\ c.op \notin {"remove", "stopAll"} /\ c.on
    <2>1. CASE call[w].op = "remove"
      <3>1. /\ call' = [call EXCEPT ![w].pc = "rmdir", ![w].took = Nil]
            /\ UNCHANGED <<panel, go, pass>>
        BY <2>1 DEF WaitGone
      <3>2. GosOK' /\ PassOK(pass)' BY <1>1, <3>1 DEF GosOK
      <3> QED BY <1>1, <1>3, <2>1, <3>1, <3>2 DEF WorldOK
    <2>3. CASE call[w].op \notin {"remove", "stopAll"} /\ call[w].on
      <3>1. /\ call' = [call EXCEPT ![w].pc = "go", ![w].took = Nil]
            /\ UNCHANGED <<panel, go, pass>>
        BY <2>3 DEF WaitGone
      <3>2. GosOK' /\ PassOK(pass)' BY <1>1, <3>1 DEF GosOK
      <3> QED BY <1>1, <1>3, <2>3, <3>1, <3>2 DEF WorldOK
    <2>4. CASE call[w].op = "stopAll" \/ (call[w].op # "remove" /\ ~ call[w].on)
      <3>1. Return(w) BY <2>4 DEF WaitGone
      <3>2. call' = [call EXCEPT ![w] = NoCall] /\ UNCHANGED <<panel, go, pass>> BY <3>1 DEF Return
      <3>3. CallsOK' /\ NowCall(w, NoCall) BY <1>1, <3>2, NoneOK, SameCall
      <3>4. GosOK' /\ PassOK(pass)' BY <1>1, <3>2 DEF GosOK
      <3> QED BY <1>1, <2>4, <3>2, <3>3, <3>4 DEF WorldOK
    <2> QED BY <2>1, <2>3, <2>4
  <1>5. WorldOK' BY <1>1, <1>4 DEF WorldOK, WaitGone
  <1>6. InstancesOK' /\ ProcsOK' BY <1>1 DEF WaitGone, InstancesOK, ProcsOK, instances
  <1>7. TypeInv' BY <1>4, <1>5, <1>6, PTL
  <1> QED BY <1>4, <1>7

\* The goroutine k is g now, and no other changed.
NowGo(k, g) == g \in GoType /\ go'[k] = g /\ \A j \in Gos : j # k => go'[j] = go[j]

LEMMA SameGo ==
  ASSUME NEW k \in Gos, NEW g, GosOK, GoOK(g), go' = [go EXCEPT ![k] = g]
  PROVE  GosOK' /\ NowGo(k, g)
  BY PutGo DEF NowGo, GoOK

LEMMA SpawnEffect ==
  ASSUME TypeInv, NEW w \in Callers, Spawn(w)
  PROVE  /\ TypeInv' /\ NowCall(w, NoCall)
         /\ \E k \in FreeGos : \E g : NowGo(k, g) /\ g.pc = "init" /\ g.inst = call[w].inst /\ g.proc = Nil
  <1> USE TypeParts, NilFacts
  <1>1. CallsOK /\ GosOK BY DEF CallsOK
  <1>2. call[w].inst \in Insts BY DEF CallsOK, CallOK, Spawn
  <1>3. PICK k \in FreeGos : go' = [go EXCEPT ![k] = [NoGo EXCEPT !.pc = "init", !.inst = call[w].inst]]
    <2>1. Any(FreeGos) \in FreeGos BY AnyIn DEF Spawn
    <2> QED BY <2>1 DEF Spawn
  <1>4. PICK g : g = [NoGo EXCEPT !.pc = "init", !.inst = call[w].inst] OBVIOUS
  <1>5. g \in GoType /\ g.pc = "init" /\ g.inst = call[w].inst /\ g.proc = Nil
    <2>1. g = [pc |-> "init", inst |-> call[w].inst, proc |-> Nil] BY <1>4 DEF NoGo
    <2> QED BY <1>2, <2>1, Sets DEF GoType
  <1>6. k \in Gos BY DEF FreeGos
  <1>7. GosOK' /\ NowGo(k, g) BY <1>1, <1>2, <1>3, <1>4, <1>5, <1>6, SameGo DEF GoOK
  <1>8. CallsOK' /\ NowCall(w, NoCall) BY <1>1, NoneOK, SameCall DEF Spawn
  <1>9. WorldOK' /\ InstancesOK' /\ ProcsOK' /\ PassOK(pass)'
    BY DEF Spawn, WorldOK, InstancesOK, ProcsOK, world, instances
  <1>10. TypeInv' BY <1>7, <1>8, <1>9, PTL
  <1> QED BY <1>5, <1>7, <1>8, <1>10

LEMMA UnmapEffect ==
  ASSUME TypeInv, NEW w \in Callers, Unmap(w)
  PROVE  /\ TypeInv'
         /\ \E c : /\ NowCall(w, c)
                   /\ c.pc = IF pool = Nil THEN "drop" ELSE "halt"
                   /\ c.inst = pool /\ c.op = call[w].op
  <1> USE TypeParts, NilFacts
  <1>1. call[w] \in CallType /\ CallsOK /\ InstancesOK BY DEF CallsOK
  <1>2. PICK pc \in CallPcs : pc = IF pool = Nil THEN "drop" ELSE "halt" BY Sets
  <1>3. PICK c : c = [call[w] EXCEPT !.pc = pc, !.inst = pool] OBVIOUS
  <1>4. call' = [call EXCEPT ![w].pc = pc, ![w].inst = pool] BY <1>2 DEF Unmap
  <1>5. call' = [call EXCEPT ![w] = c] BY <1>1, <1>3, <1>4 DEF CallsOK
  <1>6. c \in CallType /\ c.pc = pc /\ c.inst = pool /\ c.op = call[w].op
    BY <1>1, <1>3 DEF CallType, InstancesOK
  <1>7. CallsOK' /\ NowCall(w, c)
    BY <1>1, <1>2, <1>5, <1>6, SameCall DEF CallOK, InstancesOK
  <1>8. InstancesOK' BY <1>1 DEF Unmap, InstancesOK
  <1>9. WorldOK' /\ GosOK' /\ ProcsOK' /\ PassOK(pass)'
    BY DEF Unmap, WorldOK, GosOK, ProcsOK, world
  <1>10. TypeInv' BY <1>7, <1>8, <1>9, PTL
  <1> QED BY <1>2, <1>6, <1>7, <1>10

LEMMA RemoveDirEffect ==
  ASSUME TypeInv, NEW w \in Callers, RemoveDir(w)
  PROVE  /\ TypeInv'
         /\ \E c : NowCall(w, c) /\ c.pc = "drop" /\ c.inst = call[w].inst /\ c.op = call[w].op
  <1> USE TypeParts, NilFacts
  <1>1. call[w] \in CallType /\ CallsOK BY DEF CallsOK
  <1>2. PICK c : c = [call[w] EXCEPT !.pc = "drop"] OBVIOUS
  <1>3. call' = [call EXCEPT ![w] = c] BY <1>1, <1>2 DEF CallsOK, RemoveDir
  <1>4. c \in CallType /\ c.pc = "drop" /\ c.inst = call[w].inst /\ c.op = call[w].op
    BY <1>1, <1>2, Sets DEF CallType
  <1>5. CallsOK' /\ NowCall(w, c) BY <1>1, <1>3, <1>4, SameCall DEF CallOK
  <1>6. InstancesOK' /\ WorldOK' /\ GosOK' /\ ProcsOK' /\ PassOK(pass)'
    BY DEF RemoveDir, InstancesOK, WorldOK, GosOK, ProcsOK, world, instances
  <1>7. TypeInv' BY <1>5, <1>6, PTL
  <1> QED BY <1>4, <1>5, <1>7

LEMMA DropRowEffect ==
  ASSUME TypeInv, NEW w \in Callers, DropRow(w)
  PROVE  TypeInv' /\ NowCall(w, NoCall) /\ UNCHANGED <<panel, go, pass>>
  <1> USE TypeParts, NilFacts
  <1>1. CallsOK BY DEF CallsOK
  <1>2. call' = [call EXCEPT ![w] = NoCall] /\ UNCHANGED <<panel, go, pass>> BY DEF DropRow, Return
  <1>3. CallsOK' /\ NowCall(w, NoCall) BY <1>1, <1>2, NoneOK, SameCall
  <1>4. InstancesOK' /\ WorldOK' /\ GosOK' /\ ProcsOK' /\ PassOK(pass)'
    BY <1>2 DEF DropRow, InstancesOK, WorldOK, GosOK, ProcsOK, instances
  <1>5. TypeInv' BY <1>3, <1>4, PTL
  <1> QED BY <1>2, <1>3, <1>5

-----------------------------------------------------------------------------
(* What each step of a goroutine or a process does *)

LEMMA GotoEffect ==
  ASSUME GosOK, NEW k \in Gos, NEW pc \in GoPcs \ {"none"}, go[k].pc # "none", Goto(k, pc),
         go[k].pc \in {"publish", "wait"} <=> pc \in {"publish", "wait"}
  PROVE  GosOK' /\ \E g : NowGo(k, g) /\ g.pc = pc /\ g.inst = go[k].inst /\ g.proc = go[k].proc
  <1>1. go[k] \in GoType /\ GoOK(go[k]) BY DEF GosOK
  <1>2. PICK g : g = [go[k] EXCEPT !.pc = pc] OBVIOUS
  <1>3. go' = [go EXCEPT ![k] = g] BY <1>1, <1>2 DEF GosOK, Goto
  <1>4. g \in GoType /\ g.pc = pc /\ g.inst = go[k].inst /\ g.proc = go[k].proc
    BY <1>1, <1>2 DEF GoType
  <1>5. GosOK' /\ NowGo(k, g) BY <1>1, <1>3, <1>4, SameGo DEF GoOK
  <1> QED BY <1>4, <1>5

LEMMA GoInitEffect ==
  ASSUME TypeInv, NEW k \in Gos, GoInit(k)
  PROVE  /\ TypeInv'
         /\ go[k].inst \in Insts /\ stop' = [stop EXCEPT ![go[k].inst] = k]
         /\ \E g : NowGo(k, g) /\ g.pc = "begin" /\ g.inst = go[k].inst /\ g.proc = go[k].proc
  <1> USE TypeParts, NilFacts
  <1>1. GosOK /\ InstancesOK /\ go[k].inst \in Insts BY DEF GosOK, GoOK, GoInit
  <1>2. GosOK' /\ \E g : NowGo(k, g) /\ g.pc = "begin" /\ g.inst = go[k].inst /\ g.proc = go[k].proc
    BY <1>1, GotoEffect, Sets DEF GoInit
  <1>3. PICK i \in Insts : i = go[k].inst BY <1>1
  <1>4. stop' = [stop EXCEPT ![i] = k] BY <1>3 DEF GoInit
  <1>5. InstancesOK' BY <1>1, <1>4 DEF GoInit, InstancesOK
  <1>6. WorldOK' /\ CallsOK' /\ ProcsOK' /\ PassOK(pass)' BY DEF GoInit, WorldOK, CallsOK, ProcsOK, world
  <1>7. TypeInv' BY <1>2, <1>5, <1>6, PTL
  <1> QED BY <1>1, <1>2, <1>3, <1>4, <1>7

LEMMA GoCheckEffect ==
  ASSUME TypeInv, NEW k \in Gos, GoCheck(k)
  PROVE  /\ TypeInv'
         /\ \/ k \in closed /\ NowGo(k, NoGo) /\ closed' = closed \ {k}
            \/ /\ k \notin closed /\ closed' = closed
               /\ \E g : NowGo(k, g) /\ g.pc = "reap" /\ g.inst = go[k].inst /\ g.proc = go[k].proc
  <1> USE TypeParts, NilFacts
  <1>1. GosOK /\ WorldOK BY DEF GosOK
  <1>2. /\ GosOK' /\ closed' \subseteq Gos
        /\ \/ k \in closed /\ NowGo(k, NoGo) /\ closed' = closed \ {k}
           \/ /\ k \notin closed /\ closed' = closed
              /\ \E g : NowGo(k, g) /\ g.pc = "reap" /\ g.inst = go[k].inst /\ g.proc = go[k].proc
    <2>1. CASE k \in closed
      <3>1. go' = [go EXCEPT ![k] = NoGo] /\ closed' = closed \ {k} BY <2>1 DEF GoCheck, ToldToStop
      <3>2. GosOK' /\ NowGo(k, NoGo) BY <1>1, <3>1, NoneOK, SameGo
      <3> QED BY <1>1, <2>1, <3>1, <3>2 DEF WorldOK
    <2>2. CASE k \notin closed
      <3>1. Goto(k, "reap") /\ closed' = closed BY <2>2 DEF GoCheck, ToldToStop
      <3>2. go[k].pc \in {"begin", "check"} BY DEF GoCheck
      <3> QED BY <1>1, <2>2, <3>1, <3>2, GotoEffect, Sets DEF WorldOK
    <2> QED BY <2>1, <2>2
  <1>3. WorldOK' BY <1>1, <1>2 DEF GoCheck, WorldOK, world
  <1>4. InstancesOK' /\ CallsOK' /\ ProcsOK' /\ PassOK(pass)'
    BY DEF GoCheck, InstancesOK, CallsOK, ProcsOK, instances
  <1>5. TypeInv' BY <1>2, <1>3, <1>4, PTL
  <1> QED BY <1>2, <1>5

LEMMA GoReapEffect ==
  ASSUME TypeInv, NEW k \in Gos, GoReap(k)
  PROVE  /\ TypeInv' /\ NoneCame
         /\ \E g : NowGo(k, g) /\ g.pc = "start" /\ g.inst = go[k].inst /\ g.proc = go[k].proc
  <1> USE TypeParts, NilFacts
  <1>1. GosOK /\ ProcsOK BY DEF GosOK
  <1>2. GosOK' /\ \E g : NowGo(k, g) /\ g.pc = "start" /\ g.inst = go[k].inst /\ g.proc = go[k].proc
    BY <1>1, GotoEffect, Sets DEF GoReap
  <1>3. ProcsOK' /\ NoneCame
    <2>1. proc' = [p \in Procs |-> IF p \in Orphans THEN NoProc ELSE proc[p]] BY DEF GoReap
    <2>2. \A p \in Procs : proc[p] \in ProcType BY <1>1 DEF ProcsOK
    <2> QED BY <2>1, <2>2, NoneOK DEF ProcsOK, NoneCame
  <1>4. InstancesOK' /\ WorldOK' /\ CallsOK' /\ PassOK(pass)'
    BY DEF GoReap, InstancesOK, WorldOK, CallsOK, instances, world
  <1>5. TypeInv' BY <1>2, <1>3, <1>4, PTL
  <1> QED BY <1>2, <1>3, <1>5

LEMMA GoStartEffect ==
  ASSUME TypeInv, NEW k \in Gos, GoStart(k)
  PROVE  /\ TypeInv'
         /\ \E p \in FreeProcs :
              /\ proc'[p].st # "none" /\ proc'[p].ver = conf
              /\ \A q \in Procs : q # p => proc'[q] = proc[q]
              /\ \E g : NowGo(k, g) /\ g.pc = "publish" /\ g.inst = go[k].inst /\ g.proc = p
  <1> USE TypeParts, NilFacts
  <1>1. GosOK /\ ProcsOK /\ WorldOK /\ go[k] \in GoType /\ GoOK(go[k]) BY DEF GosOK
  <1>2. PICK p \in FreeProcs : /\ proc' = [proc EXCEPT ![p] = [st |-> "starting", ver |-> conf]]
                               /\ go' = [go EXCEPT ![k].pc = "publish", ![k].proc = p]
    <2>1. Any(FreeProcs) \in FreeProcs BY AnyIn DEF GoStart
    <2> QED BY <2>1 DEF GoStart
  <1>3. p \in Procs BY DEF FreeProcs
  <1>4. PICK g : g = [go[k] EXCEPT !.pc = "publish", !.proc = p] OBVIOUS
  <1>5. go' = [go EXCEPT ![k] = g] BY <1>1, <1>2, <1>4 DEF GosOK
  <1>6. g \in GoType /\ g.pc = "publish" /\ g.inst = go[k].inst /\ g.proc = p
    BY <1>1, <1>3, <1>4, Sets DEF GoType
  <1>7. go[k].inst \in Insts BY <1>1 DEF GoStart, GoOK
  <1>8. GosOK' /\ NowGo(k, g) BY <1>1, <1>3, <1>5, <1>6, <1>7, SameGo DEF GoOK
  <1>9. PICK x : x = [st |-> "starting", ver |-> conf] OBVIOUS
  <1>10. x \in ProcType /\ x.st # "none" /\ x.ver = conf BY <1>1, <1>9, Sets DEF ProcType, WorldOK
  <1>11. ProcsOK' /\ proc'[p] = x /\ \A q \in Procs : q # p => proc'[q] = proc[q]
    BY <1>1, <1>2, <1>3, <1>9, <1>10, PutProc
  <1>12. InstancesOK' /\ WorldOK' /\ CallsOK' /\ PassOK(pass)'
    BY DEF GoStart, InstancesOK, WorldOK, CallsOK, instances, world
  <1>13. TypeInv' BY <1>8, <1>11, <1>12, PTL
  <1> QED BY <1>6, <1>8, <1>10, <1>11, <1>13

LEMMA GoStartFailsEffect ==
  ASSUME TypeInv, NEW k \in Gos, GoStartFails(k)
  PROVE  /\ TypeInv'
         /\ \E g : NowGo(k, g) /\ g.pc = "check" /\ g.inst = go[k].inst /\ g.proc = go[k].proc
  <1> USE TypeParts, NilFacts
  <1>1. GosOK /\ WorldOK BY DEF GosOK
  <1>2. GosOK' /\ \E g : NowGo(k, g) /\ g.pc = "check" /\ g.inst = go[k].inst /\ g.proc = go[k].proc
    BY <1>1, GotoEffect, Sets DEF GoStartFails
  <1>3. events' \in 0..sc'.max BY <1>1, EventCounted DEF GoStartFails
  <1>4. WorldOK' BY <1>1, <1>3 DEF WorldOK, GoStartFails
  <1>5. InstancesOK' /\ CallsOK' /\ ProcsOK' /\ PassOK(pass)'
    BY DEF GoStartFails, InstancesOK, CallsOK, ProcsOK, instances
  <1>6. TypeInv' BY <1>2, <1>4, <1>5, PTL
  <1> QED BY <1>2, <1>6

LEMMA GoPublishEffect ==
  ASSUME TypeInv, NEW k \in Gos, GoPublish(k)
  PROVE  /\ TypeInv'
         /\ go[k].inst \in Insts /\ cmd' = [cmd EXCEPT ![go[k].inst] = go[k].proc]
         /\ \E g : NowGo(k, g) /\ g.pc = "wait" /\ g.inst = go[k].inst /\ g.proc = go[k].proc
  <1> USE TypeParts, NilFacts
  <1>1. GosOK /\ InstancesOK /\ go[k].inst \in Insts /\ go[k].proc \in Procs \cup {Nil}
    BY DEF GosOK, GoOK, GoPublish, GoType
  <1>2. GosOK' /\ \E g : NowGo(k, g) /\ g.pc = "wait" /\ g.inst = go[k].inst /\ g.proc = go[k].proc
    BY <1>1, GotoEffect, Sets DEF GoPublish
  <1>3. PICK i \in Insts : i = go[k].inst BY <1>1
  <1>4. cmd' = [cmd EXCEPT ![i] = go[k].proc] BY <1>3 DEF GoPublish
  <1>5. InstancesOK' BY <1>1, <1>4 DEF GoPublish, InstancesOK
  <1>6. WorldOK' /\ CallsOK' /\ ProcsOK' /\ PassOK(pass)'
    BY DEF GoPublish, WorldOK, CallsOK, ProcsOK, world
  <1>7. TypeInv' BY <1>2, <1>5, <1>6, PTL
  <1> QED BY <1>1, <1>2, <1>3, <1>4, <1>7

LEMMA GoWaitEffect ==
  ASSUME TypeInv, NEW k \in Gos, GoWait(k)
  PROVE  /\ TypeInv'
         /\ \A i \in Insts : cmd[i] # go[k].proc => cmd'[i] = cmd[i]
         /\ \E g : NowGo(k, g) /\ g.pc = "check" /\ g.inst = go[k].inst /\ g.proc = Nil
  <1> USE TypeParts, NilFacts
  <1>1. GosOK /\ InstancesOK /\ go[k].inst \in Insts /\ go[k] \in GoType
    BY DEF GosOK, GoOK, GoWait
  <1>2. PICK i \in Insts : i = go[k].inst BY <1>1
  <1>3. cmd' = [cmd EXCEPT ![i] = IF @ = go[k].proc THEN Nil ELSE @] BY <1>2 DEF GoWait
  <1>4. PICK x \in Procs \cup {Nil} : cmd' = [cmd EXCEPT ![i] = x] /\ (cmd[i] # go[k].proc => x = cmd[i])
    BY <1>1, <1>3 DEF InstancesOK
  <1>5. InstancesOK' BY <1>1, <1>4 DEF GoWait, InstancesOK
  <1>6. \A j \in Insts : cmd[j] # go[k].proc => cmd'[j] = cmd[j] BY <1>1, <1>4 DEF InstancesOK
  <1>7. PICK g : g = [go[k] EXCEPT !.pc = "check", !.proc = Nil] OBVIOUS
  <1>8. go' = [go EXCEPT ![k] = g] BY <1>1, <1>7 DEF GosOK, GoWait
  <1>9. g \in GoType /\ g.pc = "check" /\ g.inst = go[k].inst /\ g.proc = Nil
    BY <1>1, <1>7, Sets DEF GoType
  <1>10. GosOK' /\ NowGo(k, g) BY <1>1, <1>8, <1>9, SameGo DEF GoOK
  <1>11. WorldOK' /\ CallsOK' /\ ProcsOK' /\ PassOK(pass)'
    BY DEF GoWait, WorldOK, CallsOK, ProcsOK, world
  <1>12. TypeInv' BY <1>5, <1>10, <1>11, PTL
  <1> QED BY <1>6, <1>9, <1>10, <1>12

LEMMA OneProcOK ==
  ASSUME ProcsOK, NEW p \in Procs, NEW x \in ProcType, proc' = [proc EXCEPT ![p] = x],
         x.st # "none" => proc[p].st # "none" /\ x.ver = proc[p].ver
  PROVE  ProcsOK' /\ NoneCame
  BY PutProc DEF NoneCame

LEMMA BindEffect ==
  ASSUME TypeInv, NEW p \in Procs, Bind(p) PROVE TypeInv' /\ NoneCame
  <1> USE TypeParts, NilFacts
  <1>1. ProcsOK /\ proc[p] \in ProcType BY DEF ProcsOK
  <1>2. PICK x : x = [proc[p] EXCEPT !.st = "listening"] OBVIOUS
  <1>3. x \in ProcType /\ x.ver = proc[p].ver BY <1>1, <1>2, Sets DEF ProcType
  <1>4. proc' = [proc EXCEPT ![p] = x] \/ proc' = [proc EXCEPT ![p] = NoProc]
    BY <1>1, <1>2 DEF Bind, ProcsOK
  <1>5. proc[p].st = "starting" BY DEF Bind
  <1>6. ProcsOK' /\ NoneCame BY <1>1, <1>3, <1>4, <1>5, NoneOK, OneProcOK
  <1>7. InstancesOK' /\ WorldOK' /\ CallsOK' /\ GosOK' /\ PassOK(pass)'
    BY DEF Bind, InstancesOK, WorldOK, CallsOK, GosOK, instances, world
  <1> QED BY <1>6, <1>7, PTL

LEMMA CloseEffect ==
  ASSUME TypeInv, NEW p \in Procs, Close(p) PROVE TypeInv' /\ NoneCame
  <1> USE TypeParts, NilFacts
  <1>1. ProcsOK' /\ NoneCame BY NoneOK, OneProcOK DEF Close
  <1>2. InstancesOK' /\ WorldOK' /\ CallsOK' /\ GosOK' /\ PassOK(pass)'
    BY DEF Close, InstancesOK, WorldOK, CallsOK, GosOK, instances, world
  <1> QED BY <1>1, <1>2, PTL

LEMMA ExitEffect ==
  ASSUME TypeInv, NEW p \in Procs, Exit(p) PROVE TypeInv' /\ NoneCame
  <1> USE TypeParts, NilFacts
  <1>1. ProcsOK' /\ NoneCame BY NoneOK, OneProcOK DEF Exit
  <1>2. WorldOK' BY EventCounted DEF Exit, WorldOK
  <1>3. InstancesOK' /\ CallsOK' /\ GosOK' /\ PassOK(pass)'
    BY DEF Exit, InstancesOK, CallsOK, GosOK, instances
  <1> QED BY <1>1, <1>2, <1>3, PTL

-----------------------------------------------------------------------------
(* What the handlers, the sampler, the environment and the panel do *)

LEMMA NodeOK ==
  ASSUME NEW c \in Node PROVE c.on \in BOOLEAN /\ c.ver \in Vers
  BY DEF Node

LEMMA NodeApplying ==
  ASSUME NEW c \in Node, NEW op \in {"apply", "boot"} PROVE CallOK(Applying(op, c))
  <1>1. c.on \in BOOLEAN BY NodeOK
  <1>2. c.ver \in Vers \cup {Blank, Nil} BY NodeOK
  <1> QED BY <1>1, <1>2, ApplyingOK

LEMMA ToggleEffect ==
  ASSUME TypeInv, Toggle
  PROVE  /\ TypeInv'
         /\ want' \in Node /\ NowCall("handler", Applying("apply", want'))
         /\ pass = NoPass => pass' = NoPass
  <1> USE TypeParts, NilFacts
  <1>1. want \in Node /\ CallsOK /\ PassOK(pass) /\ WorldOK BY DEF Toggle, MayHandle, WorldOK
  <1>2. PICK c : c = [want EXCEPT !.on = ~@] OBVIOUS
  <1>3. c \in Node BY <1>1, <1>2 DEF Node
  <1>4. SaveAndApply(c) /\ pass' = [pass EXCEPT !.held = IF pass.same THEN c ELSE @, !.same = FALSE]
    BY <1>2 DEF Toggle
  <1>5. CallsOK' /\ NowCall("handler", Applying("apply", c))
    BY <1>1, <1>3, <1>4, NodeApplying, SameCall DEF SaveAndApply, Callers
  <1>6. PassOK(pass)' /\ (pass = NoPass => pass' = NoPass)
    <2>1. PICK h \in Node \cup {Nil} : /\ h = IF pass.same THEN c ELSE pass.held
                                       /\ pass' = [pass EXCEPT !.held = h, !.same = FALSE]
      BY <1>1, <1>3, <1>4 DEF PassOK, PassType
    <2>2. CASE pass.pc = "idle"
      <3>1. pass = NoPass BY <1>1, <2>2 DEF PassOK
      <3>2. pass.same = FALSE /\ pass.held = Nil BY <3>1 DEF NoPass
      <3>3. h = Nil BY <2>1, <3>2
      <3>4. pass' \in PassType /\ pass'.pc = "idle" /\ pass'.held = Nil
        BY <1>1, <2>1, <2>2, <3>3 DEF PassOK, PassType
      <3>5. pass'.same = FALSE BY <1>1, <2>1 DEF PassOK, PassType
      <3>6. pass'.running = pass.running BY <1>1, <2>1 DEF PassOK, PassType
      <3>7. pass' = NoPass
        <4>1. pass.running = FALSE BY <3>1 DEF NoPass
        <4>2. pass' = [pc |-> pass'.pc, held |-> pass'.held, same |-> pass'.same, running |-> pass'.running]
          BY <3>4 DEF PassType
        <4> QED BY <3>4, <3>5, <3>6, <4>1, <4>2 DEF NoPass
      <3> QED BY <3>7, NoneOK DEF PassOK
    <2>3. CASE pass.pc # "idle"
      <3>1. h \in Node BY <1>1, <1>3, <2>1, <2>3 DEF PassOK
      <3>2. pass' \in PassType /\ pass'.pc = pass.pc /\ pass'.held = h
        BY <1>1, <2>1 DEF PassOK, PassType
      <3> QED BY <2>3, <3>1, <3>2, NoneOK DEF PassOK
    <2> QED BY <2>2, <2>3
  <1>7. events' \in 0..sc'.max BY <1>1, <1>4, EventCounted DEF Toggle, SaveAndApply
  <1>8. WorldOK' BY <1>1, <1>3, <1>4, <1>7 DEF WorldOK, SaveAndApply
  <1>9. InstancesOK' /\ GosOK' /\ ProcsOK'
    BY <1>4 DEF SaveAndApply, InstancesOK, GosOK, ProcsOK, instances
  <1>10. TypeInv' BY <1>5, <1>6, <1>8, <1>9, PTL
  <1> QED BY <1>3, <1>4, <1>5, <1>6, <1>10 DEF SaveAndApply

LEMMA UpdateEffect ==
  ASSUME TypeInv, Update
  PROVE  /\ TypeInv'
         /\ want' \in Node /\ NowCall("handler", Applying("apply", want'))
         /\ pass = NoPass => pass' = NoPass
  <1> USE TypeParts, NilFacts
  <1>1. CallsOK /\ PassOK(pass) /\ WorldOK BY DEF WorldOK
  <1>2. PICK c \in Node : SaveAndApply(c) BY DEF Update
  <1>3. pass' = [pass EXCEPT !.same = FALSE] BY DEF Update
  <1>4. CallsOK' /\ NowCall("handler", Applying("apply", c))
    BY <1>1, <1>2, NodeApplying, SameCall DEF SaveAndApply, Callers
  <1>5. /\ pass' \in PassType /\ pass'.pc = pass.pc /\ pass'.held = pass.held
        /\ pass'.running = pass.running
    BY <1>1, <1>3 DEF PassOK, PassType
  <1>6. pass = NoPass => pass' = NoPass
    <2>1. pass'.same = FALSE BY <1>1, <1>3 DEF PassOK, PassType
    <2>2. pass = NoPass => pass.running = FALSE /\ pass.pc = "idle" /\ pass.held = Nil BY DEF NoPass
    <2>3. pass' = [pc |-> pass'.pc, held |-> pass'.held, same |-> pass'.same, running |-> pass'.running]
      BY <1>5 DEF PassType
    <2> QED BY <1>5, <2>1, <2>2, <2>3 DEF NoPass
  <1>7. PassOK(pass)' BY <1>1, <1>5, <1>6 DEF PassOK
  <1>8. events' \in 0..sc'.max BY <1>1, <1>2, EventCounted DEF Update, SaveAndApply
  <1>9. WorldOK' BY <1>1, <1>2, <1>8 DEF WorldOK, SaveAndApply
  <1>10. InstancesOK' /\ GosOK' /\ ProcsOK'
    BY <1>2 DEF SaveAndApply, InstancesOK, GosOK, ProcsOK, instances
  <1>11. TypeInv' BY <1>4, <1>7, <1>9, <1>10, PTL
  <1> QED BY <1>2, <1>4, <1>6, <1>11 DEF SaveAndApply

LEMMA DeleteEffect ==
  ASSUME TypeInv, Delete
  PROVE  /\ TypeInv'
         /\ \E c : NowCall("handler", c) /\ c.pc = "unmap" /\ c.op = "remove"
  <1> USE TypeParts, NilFacts
  <1>1. CallsOK /\ WorldOK BY DEF WorldOK
  <1>2. PICK c : c = [NoCall EXCEPT !.pc = "unmap", !.op = "remove"] OBVIOUS
  <1>3. c \in CallType /\ c.pc = "unmap" /\ c.op = "remove"
    <2>1. NoCall \in CallType BY NoneOK DEF CallOK
    <2> QED BY <1>2, <2>1, Sets DEF CallType
  <1>4. call' = [call EXCEPT !["handler"] = c] BY <1>2 DEF Delete
  <1>5. CallsOK' /\ NowCall("handler", c) BY <1>1, <1>3, <1>4, SameCall DEF CallOK, Callers
  <1>6. WorldOK' BY <1>1, EventCounted DEF Delete, WorldOK
  <1>7. InstancesOK' /\ GosOK' /\ ProcsOK' /\ PassOK(pass)'
    BY DEF Delete, InstancesOK, GosOK, ProcsOK, instances
  <1>8. TypeInv' BY <1>5, <1>6, <1>7, PTL
  <1> QED BY <1>3, <1>5, <1>8

LEMMA PassNodesEffect ==
  ASSUME TypeInv, PassNodes
  PROVE  TypeInv' /\ pass'.held = want
  <1> USE TypeParts, NilFacts
  <1>1. want \in Node BY DEF PassNodes, WorldOK
  <1>2. PICK x : x = [NoPass EXCEPT !.pc = "stats", !.held = want, !.same = TRUE] OBVIOUS
  <1>3. x \in PassType /\ x.pc = "stats" /\ x.held = want
    <2>1. NoPass \in PassType BY NoneOK DEF PassOK
    <2> QED BY <1>1, <1>2, <2>1 DEF PassType
  <1>4. pass' = x BY <1>2 DEF PassNodes
  <1>5. PassOK(pass)' BY <1>1, <1>3, <1>4 DEF PassOK
  <1>6. InstancesOK' /\ WorldOK' /\ CallsOK' /\ GosOK' /\ ProcsOK'
    BY DEF PassNodes, InstancesOK, WorldOK, CallsOK, GosOK, ProcsOK, instances, world
  <1>7. TypeInv' BY <1>5, <1>6, PTL
  <1> QED BY <1>3, <1>4, <1>7

LEMMA PassStatsEffect ==
  ASSUME TypeInv, PassStats
  PROVE  TypeInv' /\ pass # NoPass /\ pass'.held = pass.held
  <1> USE TypeParts, NilFacts
  <1>1. PassOK(pass) /\ pass.pc = "stats" BY DEF PassStats
  <1>2. PICK b \in BOOLEAN : b = Running BY DEF Running
  <1>3. pass' = [pass EXCEPT !.pc = "decide", !.running = b] BY <1>2 DEF PassStats
  <1>4. pass' \in PassType /\ pass'.pc = "decide" /\ pass'.held = pass.held
    BY <1>1, <1>3 DEF PassOK, PassType
  <1>5. PassOK(pass)' BY <1>1, <1>4 DEF PassOK
  <1>6. InstancesOK' /\ WorldOK' /\ CallsOK' /\ GosOK' /\ ProcsOK'
    BY DEF PassStats, InstancesOK, WorldOK, CallsOK, GosOK, ProcsOK, instances, world
  <1>7. TypeInv' BY <1>5, <1>6, PTL
  <1> QED BY <1>1, <1>4, <1>7, NoneOK

\* What the pass asks for: nothing, the node as it holds it, or that it be paused.
LEMMA PassDecideEffect ==
  ASSUME TypeInv, PassDecide
  PROVE  /\ TypeInv' /\ pass # NoPass /\ pass' = NoPass
         /\ \/ NowCall("sampler", NoCall)
            \/ \E c : /\ NowCall("sampler", Applying("apply", c))
                      /\ c.on \in BOOLEAN /\ c.ver \in Vers \cup {Blank, Nil}
                      /\ c.on => c = pass.held
  <1> USE TypeParts, NilFacts
  <1>1. PassOK(pass) /\ pass.pc = "decide" /\ CallsOK /\ pass.held \in Node BY DEF PassDecide, PassOK
  <1>2. /\ CallsOK'
        /\ \/ NowCall("sampler", NoCall)
           \/ \E c : /\ NowCall("sampler", Applying("apply", c))
                     /\ c.on \in BOOLEAN /\ c.ver \in Vers \cup {Blank, Nil}
                     /\ c.on => c = pass.held
    <2>1. CASE Wanted = Nil
      <3>1. call' = [call EXCEPT !["sampler"] = NoCall] BY <2>1 DEF PassDecide
      <3> QED BY <1>1, <3>1, NoneOK, SameCall DEF Callers
    <2>2. CASE Wanted # Nil
      <3>1. PICK c : c = Wanted OBVIOUS
      <3>2. call' = [call EXCEPT !["sampler"] = Applying("apply", c)] BY <2>2, <3>1 DEF PassDecide
      <3>3. c = [on |-> FALSE, ver |-> Blank] \/ c = pass.held BY <2>2, <3>1 DEF Wanted
      <3>4. c.on \in BOOLEAN
        <4>1. CASE c = pass.held BY <1>1, <4>1, NodeOK
        <4>2. CASE c = [on |-> FALSE, ver |-> Blank]
          <5>1. c.on = FALSE BY <4>2
          <5> QED BY <5>1
        <4> QED BY <3>3, <4>1, <4>2
      <3>5. c.ver \in Vers \cup {Blank, Nil} BY <1>1, <3>3, NodeOK
      <3>6. c.on => c = pass.held BY <3>3
      <3>7. CallOK(Applying("apply", c)) BY <3>4, <3>5, ApplyingOK
      <3>8. CallsOK' /\ NowCall("sampler", Applying("apply", c))
        BY <1>1, <3>2, <3>7, SameCall DEF Callers
      <3> QED BY <3>4, <3>5, <3>6, <3>8
    <2> QED BY <2>1, <2>2
  <1>3. pass' = NoPass BY DEF PassDecide
  <1>4. PassOK(pass)' BY <1>3, NoneOK DEF PassOK
  <1>5. InstancesOK' /\ WorldOK' /\ GosOK' /\ ProcsOK'
    BY DEF PassDecide, InstancesOK, WorldOK, GosOK, ProcsOK, instances, world
  <1>6. TypeInv' BY <1>2, <1>4, <1>5, PTL
  <1> QED BY <1>1, <1>2, <1>3, <1>6, NoneOK

LEMMA QuotaEffect ==
  ASSUME TypeInv, Quota PROVE TypeInv'
  <1> USE TypeParts, NilFacts
  <1>1. WorldOK' BY EventCounted DEF Quota, WorldOK
  <1>2. InstancesOK' /\ CallsOK' /\ GosOK' /\ ProcsOK' /\ PassOK(pass)'
    BY DEF Quota, InstancesOK, CallsOK, GosOK, ProcsOK, instances
  <1> QED BY <1>1, <1>2, PTL

LEMMA StopPanelEffect ==
  ASSUME TypeInv, StopPanel
  PROVE  /\ TypeInv'
         /\ \/ pool = Nil /\ UNCHANGED call
            \/ \E c : NowCall("handler", c) /\ c.pc = "halt" /\ c.op = "stopAll" /\ c.inst = pool
  <1> USE TypeParts, NilFacts
  <1>1. CallsOK /\ WorldOK /\ InstancesOK BY DEF WorldOK
  <1>2. /\ CallsOK'
        /\ \/ pool = Nil /\ UNCHANGED call
           \/ \E c : NowCall("handler", c) /\ c.pc = "halt" /\ c.op = "stopAll" /\ c.inst = pool
    <2>1. CASE pool = Nil BY <1>1, <2>1 DEF StopPanel, CallsOK
    <2>2. CASE pool # Nil
      <3>1. PICK c : c = [NoCall EXCEPT !.pc = "halt", !.op = "stopAll", !.inst = pool] OBVIOUS
      <3>2. pool \in Insts BY <1>1, <2>2 DEF InstancesOK
      <3>3. c \in CallType /\ c.pc = "halt" /\ c.op = "stopAll" /\ c.inst = pool
        <4>1. NoCall \in CallType BY NoneOK DEF CallOK
        <4> QED BY <3>1, <3>2, <4>1, Sets DEF CallType
      <3>4. call' = [call EXCEPT !["handler"] = c] BY <2>2, <3>1 DEF StopPanel
      <3>5. CallsOK' /\ NowCall("handler", c)
        BY <1>1, <3>2, <3>3, <3>4, SameCall DEF CallOK, Callers
      <3> QED BY <3>3, <3>5
    <2> QED BY <2>1, <2>2
  <1>3. events' \in 0..sc'.max BY <1>1, EventCounted DEF StopPanel
  <1>4. WorldOK' BY <1>1, <1>3 DEF WorldOK, StopPanel
  <1>5. InstancesOK' /\ GosOK' /\ ProcsOK' /\ PassOK(pass)'
    BY DEF StopPanel, InstancesOK, GosOK, ProcsOK, instances
  <1>6. TypeInv' BY <1>2, <1>4, <1>5, PTL
  <1> QED BY <1>2, <1>6

LEMMA MainReturnsEffect ==
  ASSUME TypeInv, MainReturns
  PROVE  TypeInv' /\ Gone("stopped")
  <1> USE TypeParts, NilFacts
  <1>1. CallsOK' /\ GosOK' /\ PassOK(pass)' /\ Gone("stopped") BY GoneOK DEF MainReturns, Gone
  <1>2. WorldOK' BY <1>1 DEF WorldOK, MainReturns, Gone
  <1>3. InstancesOK' /\ ProcsOK' BY DEF MainReturns, InstancesOK, ProcsOK, instances
  <1>4. TypeInv' BY <1>1, <1>2, <1>3, PTL
  <1> QED BY <1>1, <1>4

LEMMA KillPanelEffect ==
  ASSUME TypeInv, KillPanel
  PROVE  TypeInv' /\ Gone("killed")
  <1> USE TypeParts, NilFacts
  <1>1. CallsOK' /\ GosOK' /\ PassOK(pass)' /\ Gone("killed") BY GoneOK DEF KillPanel, Gone
  <1>2. events' \in 0..sc'.max BY EventCounted DEF KillPanel
  <1>3. WorldOK' BY <1>1, <1>2 DEF WorldOK, KillPanel, Gone
  <1>4. InstancesOK' /\ ProcsOK' BY DEF KillPanel, InstancesOK, ProcsOK, instances
  <1>5. TypeInv' BY <1>1, <1>3, <1>4, PTL
  <1> QED BY <1>1, <1>5

LEMMA BootEffect ==
  ASSUME TypeInv, Boot
  PROVE  /\ TypeInv'
         /\ \A i \in Insts : stop'[i] = Nil
         /\ \/ NowCall("handler", NoCall) /\ want = Nil
            \/ want \in Node /\ NowCall("handler", Applying("boot", want))
  <1> USE TypeParts, NilFacts
  <1>1. CallsOK /\ WorldOK BY DEF WorldOK
  <1>2. /\ CallsOK'
        /\ \/ NowCall("handler", NoCall) /\ want = Nil
           \/ want \in Node /\ NowCall("handler", Applying("boot", want))
    <2>1. CASE want = Nil
      <3>1. call' = [call EXCEPT !["handler"] = NoCall] BY <2>1 DEF Boot
      <3> QED BY <1>1, <2>1, <3>1, NoneOK, SameCall DEF Callers
    <2>2. CASE want # Nil
      <3>1. call' = [call EXCEPT !["handler"] = Applying("boot", want)] BY <2>2 DEF Boot
      <3>2. want \in Node BY <1>1, <2>2 DEF WorldOK
      <3> QED BY <1>1, <3>1, <3>2, NodeApplying, SameCall DEF Callers
    <2> QED BY <2>1, <2>2
  <1>3. InstancesOK' /\ \A i \in Insts : stop'[i] = Nil BY DEF Boot, InstancesOK
  <1>4. WorldOK' BY <1>1 DEF Boot, WorldOK
  <1>5. GosOK' /\ ProcsOK' /\ PassOK(pass)' BY DEF Boot, GosOK, ProcsOK
  <1>6. TypeInv' BY <1>2, <1>3, <1>4, <1>5, PTL
  <1> QED BY <1>2, <1>3, <1>6

LEMMA StutterTyped ==
  ASSUME TypeInv, UNCHANGED vars PROVE TypeInv'
  BY DEF vars, TypeInv, TypeOK, CallInv, GoInv, PassInv

LEMMA InitTyped ==
  ASSUME Init
  PROVE  /\ TypeInv
         /\ want \in Node
         /\ call["handler"] = Applying("boot", want) /\ call["sampler"] = NoCall
  <1> USE TypeParts, NilFacts
  <1>1. want \in Node BY DEF Init
  <1>2. call["handler"] = Applying("boot", want) /\ call["sampler"] = NoCall BY DEF Init, Callers
  <1>3. CallOK(Applying("boot", want)) BY <1>1, NodeApplying
  <1>4. CallsOK BY <1>3, NoneOK DEF Init, CallsOK, CallOK
  <1>5. sc.max \in Nat BY ScenariosAssumption DEF Init, Scenario
  <1>6. WorldOK
    <2>1. events \in 0..sc.max BY <1>5 DEF Init
    <2>2. blocked \in BOOLEAN BY DEF Init
    <2> QED BY <1>1, <2>1, <2>2 DEF Init, WorldOK
  <1>7. InstancesOK BY DEF Init, InstancesOK
  <1>8. GosOK BY NoneOK DEF Init, GosOK, GoOK
  <1>9. ProcsOK /\ PassOK(pass) BY NoneOK DEF Init, ProcsOK
  <1> QED BY <1>1, <1>2, <1>4, <1>6, <1>7, <1>8, <1>9

LEMMA NextTyped ==
  ASSUME TypeInv, [Next]_vars PROVE TypeInv'
  <1>1. ASSUME NEW w \in Callers, Step(w) PROVE TypeInv'
    BY <1>1, WriteConfEffect, LookEffect, HaltEffect, WaitGoneEffect, SpawnEffect, UnmapEffect,
       RemoveDirEffect, DropRowEffect DEF Step
  <1>2. ASSUME NEW k \in Gos, Supervise(k) PROVE TypeInv'
    BY <1>2, GoInitEffect, GoCheckEffect, GoReapEffect, GoStartEffect, GoStartFailsEffect,
       GoPublishEffect, GoWaitEffect DEF Supervise
  <1>3. ASSUME NEW p \in Procs, Bind(p) \/ Close(p) \/ Exit(p) PROVE TypeInv'
    BY <1>3, BindEffect, CloseEffect, ExitEffect
  <1>4. ASSUME Sampler PROVE TypeInv'
    BY <1>4, PassNodesEffect, PassStatsEffect, PassDecideEffect DEF Sampler
  <1>5. ASSUME Toggle \/ Update \/ Delete \/ Quota \/ StopPanel \/ MainReturns \/ KillPanel \/ Boot PROVE TypeInv'
    BY <1>5, ToggleEffect, UpdateEffect, DeleteEffect, QuotaEffect, StopPanelEffect, MainReturnsEffect,
       KillPanelEffect, BootEffect
  <1> QED BY <1>1, <1>2, <1>3, <1>4, <1>5, StutterTyped DEF Next

\* The pool, its goroutines and its processes keep their types under every
\* interference of handlers, passes, stops and killed panels.
THEOREM TypeCorrect == Spec => []TypeOK
  <1>1. Init => TypeInv BY InitTyped
  <1>2. TypeInv /\ [Next]_vars => TypeInv' BY NextTyped
  <1>3. TypeInv => TypeOK BY DEF TypeInv
  <1> QED BY <1>1, <1>2, <1>3, PTL DEF Spec

-----------------------------------------------------------------------------
(* When handlers and passes take turns: who supervises *)

LEMMA ScenarioFixed ==
  ASSUME [Next]_vars PROVE sc' = sc
  <1>1. ASSUME NEW w \in Callers, Step(w) PROVE sc' = sc
    BY <1>1 DEF Step, WriteConf, Look, Halt, WaitGone, Spawn, Unmap, RemoveDir, DropRow, world
  <1>2. ASSUME NEW k \in Gos, Supervise(k) PROVE sc' = sc
    BY <1>2 DEF Supervise, GoInit, GoCheck, GoReap, GoStart, GoStartFails, GoPublish, GoWait, world
  <1>3. ASSUME NEW p \in Procs, Bind(p) \/ Close(p) \/ Exit(p) PROVE sc' = sc
    BY <1>3 DEF Bind, Close, Exit, world
  <1>4. ASSUME Sampler PROVE sc' = sc
    BY <1>4 DEF Sampler, PassNodes, PassStats, PassDecide, world
  <1>5. ASSUME Toggle \/ Update \/ Delete \/ Quota \/ StopPanel \/ MainReturns \/ KillPanel \/ Boot PROVE sc' = sc
    BY <1>5 DEF Toggle, Update, Delete, Quota, StopPanel, MainReturns, KillPanel, Boot, SaveAndApply
  <1> QED BY <1>1, <1>2, <1>3, <1>4, <1>5 DEF Next, vars

LEMMA SerialMeans ==
  Serial => "overlap" \notin sc.env /\ "window" \notin sc.env /\ "late" \notin sc.env
  BY DEF Serial

LEMMA CallFacts ==
  ASSUME TypeInv, NEW w \in Callers
  PROVE  call[w] \in CallType /\ CallOK(call[w]) /\ (~ Busy(w) => call[w] = NoCall)
  BY TypeParts DEF CallsOK, CallOK, Busy

LEMMA GoFacts ==
  ASSUME TypeInv, NEW k \in Gos
  PROVE  go[k] \in GoType /\ GoOK(go[k])
  BY TypeParts DEF GosOK

\* The caller that is at work is alone; once main stops the pool it is main.
LEMMA AloneFacts ==
  ASSUME TypeInv, TurnInv, InstInv, NEW w \in Callers, call[w].pc # "idle"
  PROVE  /\ pass = NoPass
         /\ \A v \in Callers : v # w => call[v] = NoCall
         /\ panel = "up" \/ (panel = "leaving" /\ w = "handler" /\ call[w].op = "stopAll")
         /\ call[w].pc \notin {"halt", "wait"} => panel = "up"
  <1>1. Busy(w) BY DEF Busy
  <1>2. pass = NoPass /\ \A v \in Callers : v # w => call[v] = NoCall BY <1>1, CallFacts DEF TurnInv
  <1>3. panel = "up" \/ (panel = "leaving" /\ w = "handler" /\ call[w].op = "stopAll") BY <1>1 DEF TurnInv, Serves
  <1>4. call[w].op = "stopAll" => call[w].pc \in {"halt", "wait"} BY DEF InstInv, InstOK
  <1> QED BY <1>2, <1>3, <1>4

LEMMA ServingFacts ==
  ASSUME TypeInv, TurnInv, NEW k \in Gos, go[k].pc # "none"
  PROVE  Serves
  BY NoneOK DEF TurnInv

\* Nothing has happened to the panel or to who is at work.
LEMMA SameLeft ==
  ASSUME UNCHANGED <<call, panel>> PROVE (Left' <=> Left) /\ (Serves' <=> Serves)
  BY DEF Left, Serves, Busy

LEMMA MayCallFacts ==
  ASSUME Serial, MayCall
  PROVE  /\ panel = "up" /\ pass = NoPass
         /\ \A v \in Callers : call[v] = NoCall
  BY SerialMeans DEF MayCall, Idle, Callers

LEMMA MovedTurn ==
  ASSUME NEW w \in Callers, NEW c, NowCall(w, c), \A v \in Callers : v # w => call[v] = NoCall,
         panel' = "up" \/ (panel' = "leaving" /\ (c.pc = "idle" \/ (w = "handler" /\ c.op = "stopAll"))), pass' = NoPass
  PROVE  TurnInv'
  BY NoneOK DEF NowCall, TurnInv, Busy, Serves

LEMMA MovedInst ==
  ASSUME NEW w \in Callers, NEW c, NowCall(w, c), \A v \in Callers : v # w => call[v] = NoCall,
         InstOK(c)'
  PROVE  InstInv'
  <1>1. InstOK(NoCall)' BY NoneOK DEF InstOK
  <1>2. ASSUME NEW v \in Callers PROVE InstOK(call[v])'
    <2>1. CASE v = w BY <2>1 DEF NowCall, InstOK
    <2>2. CASE v # w BY <1>1, <2>2 DEF NowCall, InstOK
    <2> QED BY <2>1, <2>2
  <1> QED BY <1>2 DEF InstInv

\* A call moves on, and the supervisors are left alone.
LEMMA CallMoved ==
  ASSUME TypeInv, SupInv, NEW w \in Callers, NEW c, NowCall(w, c),
         \A v \in Callers : v # w => call[v] = NoCall,
         InstOK(c)', call[w].pc # "halt",
         c.pc \in Halted \/ (c.pc = "idle" /\ panel # "up") => call[w].pc \in Halted,
         panel = "up" \/ (panel = "leaving" /\ (c.pc = "idle" \/ (w = "handler" /\ c.op = "stopAll"))),
         pass' = NoPass, UNCHANGED <<panel, pool, stop, closed, go>>
  PROVE  SupInv'
  <1>1. TurnInv' BY MovedTurn
  <1>2. InstInv' BY MovedInst
  <1>3. \A v \in Callers : call[v].pc # "halt" BY NoneOK
  <1>4. \A k \in Gos : Live(k)' <=> Live(k) BY DEF Live
  <1>5. OneLive' /\ ToldInv' /\ LiveChannel' BY <1>4 DEF SupInv, LiveInv, OneLive, ToldInv, LiveChannel
  <1>6. LivePlace' BY <1>3, <1>4 DEF SupInv, LiveInv, LivePlace
  <1>7. ChannelLive' BY DEF SupInv, LiveInv, ChannelLive, Live, Serves
  <1>8. NoneLive'
    <2>1. ASSUME call[w].pc \in Halted PROVE \A k \in Gos : ~ Live(k)
      BY <2>1 DEF SupInv, LiveInv, NoneLive
    <2>2. ASSUME NEW v \in Callers, call'[v].pc \in Halted PROVE call[w].pc \in Halted
      <3>1. v = w BY <2>2, NoneOK DEF NowCall, Halted
      <3> QED BY <2>2, <3>1 DEF NowCall
    <2>3. ASSUME Left' PROVE call[w].pc \in Halted
      BY <2>3 DEF Left, Busy, NowCall
    <2> QED BY <1>4, <2>1, <2>2, <2>3 DEF NoneLive
  <1> QED BY <1>1, <1>2, <1>5, <1>6, <1>7, <1>8 DEF SupInv, LiveInv

\* A goroutine with its channel in place moves on, and it does not start anything once told.
LEMMA GoMoved ==
  ASSUME TypeInv, SupInv, NEW k \in Gos, NEW g, NowGo(k, g),
         go[k].pc \notin {"none", "init"}, g.pc \notin {"none", "init"}, g.inst = go[k].inst,
         k \notin closed \/ g.pc \in Told,
         UNCHANGED <<call, pass, panel, want, pool, stop, closed>>
  PROVE  SupInv'
  <1>1. Serves BY ServingFacts DEF SupInv
  <1>2. TurnInv' BY <1>1 DEF SupInv, TurnInv, Busy, Serves
  <1>3. InstInv' BY DEF SupInv, InstInv, InstOK
  <1>4. \A j \in Gos : /\ Live(j)' <=> Live(j)
                       /\ go'[j].inst = go[j].inst /\ (go'[j].pc = "init" <=> go[j].pc = "init")
    BY DEF Live, NowGo
  <1>5. OneLive' /\ LiveChannel' BY <1>4 DEF SupInv, LiveInv, OneLive, LiveChannel
  <1>6. LivePlace' BY <1>4 DEF SupInv, LiveInv, LivePlace
  <1>7. ToldInv' BY DEF SupInv, LiveInv, ToldInv, NowGo
  <1>8. NoneLive' BY <1>4, SameLeft DEF SupInv, LiveInv, NoneLive
  <1>9. ChannelLive'
    <2>1. \A i \in Insts : stop[i] # Nil => stop[i] \in Gos BY TypeParts DEF InstancesOK
    <2> QED BY <1>4, <2>1, SameLeft DEF SupInv, LiveInv, ChannelLive
  <1> QED BY <1>2, <1>3, <1>5, <1>6, <1>7, <1>8, <1>9 DEF SupInv, LiveInv

LEMMA WriteConfSup ==
  ASSUME TypeInv, Serial, SupInv, NEW w \in Callers, WriteConf(w) PROVE SupInv'
  <1>1. call[w].pc = "conf" BY DEF WriteConf
  <1>2. /\ panel = "up" /\ pass = NoPass
        /\ \A v \in Callers : v # w => call[v] = NoCall
    BY <1>1, AloneFacts DEF SupInv
  <1>3. call[w].op \in {"apply", "boot"}
    <2>1. call[w].op \in CallOps BY CallFacts DEF CallType
    <2> QED BY <1>1, <2>1 DEF SupInv, InstInv, InstOK, CallOps
  <1>4. PICK c : /\ NowCall(w, c)
                 /\ c.pc = "look" /\ c.inst = pool' /\ c.op = call[w].op
    BY WriteConfEffect
  <1>5. InstOK(c)' BY <1>3, <1>4 DEF InstOK
  <1>6. UNCHANGED <<panel, pass, closed, go>> BY DEF WriteConf, world
  <1>7. CASE pool # Nil
    <2>1. pool' = pool /\ UNCHANGED <<cmd, stop>> BY <1>7, WriteConfEffect
    <2> QED BY <1>1, <1>2, <1>4, <1>5, <1>6, <2>1, CallMoved DEF Halted
  <1>8. CASE pool = Nil
    <2>1. pool' \in Insts /\ stop' = [stop EXCEPT ![pool'] = Nil] BY <1>8, WriteConfEffect
    <2>2. TurnInv' /\ InstInv' BY <1>2, <1>4, <1>5, <1>6, MovedTurn, MovedInst
    <2>3. \A k \in Gos : ~ Live(k)
      <3>1. \A v \in Callers : call[v].pc # "halt" BY <1>1, <1>2, NoneOK
      <3>2. \A k \in Gos : Live(k) => go[k].inst # Nil BY GoFacts, NilFacts DEF Live, GoOK
      <3> QED BY <1>8, <3>1, <3>2 DEF SupInv, LiveInv, LivePlace
    <2>4. \A k \in Gos : ~ Live(k)' BY <1>6, <2>3 DEF Live
    <2>5. OneLive' /\ LivePlace' /\ LiveChannel' /\ NoneLive'
      BY <2>4 DEF OneLive, LivePlace, LiveChannel, NoneLive
    <2>6. ToldInv' BY <1>6 DEF SupInv, LiveInv, ToldInv
    <2>7. stop \in [Insts -> Gos \cup {Nil}] BY TypeParts DEF InstancesOK
    <2>8. \A i \in Insts : stop[i] = Nil BY <1>2, <2>3, <2>7 DEF SupInv, LiveInv, ChannelLive, Serves
    <2>9. ChannelLive' BY <2>1, <2>7, <2>8 DEF ChannelLive
    <2> QED BY <2>2, <2>5, <2>6, <2>9 DEF SupInv, LiveInv
  <1> QED BY <1>7, <1>8

LEMMA LookSup ==
  ASSUME TypeInv, Serial, SupInv, NEW w \in Callers, Look(w) PROVE SupInv'
  <1>1. call[w].pc = "look" BY DEF Look
  <1>2. /\ panel = "up" /\ pass = NoPass
        /\ \A v \in Callers : v # w => call[v] = NoCall
    BY <1>1, AloneFacts DEF SupInv
  <1>3. UNCHANGED <<panel, pass, pool, stop, closed, go>> BY LookEffect DEF Look, instances
  <1>4. PICK c : /\ NowCall(w, c)
                 /\ \/ c = NoCall
                    \/ c.pc = "halt" /\ c.inst = call[w].inst /\ c.op = call[w].op
    BY LookEffect
  <1>5. InstOK(c)' BY <1>1, <1>3, <1>4, NoneOK DEF SupInv, InstInv, InstOK
  <1>6. c.pc \notin Halted BY <1>4, NoneOK DEF Halted
  <1> QED BY <1>1, <1>2, <1>3, <1>4, <1>5, <1>6, CallMoved

\* The one that is live is not in its window: halting it closes its channel.
LEMMA HaltSup ==
  ASSUME TypeInv, Serial, SupInv, NEW w \in Callers, Halt(w)
  PROVE  SupInv' /\ \A k \in Gos : ~ Live(k)'
  <1>1. call[w].pc = "halt" BY DEF Halt
  <1>2. /\ pass = NoPass /\ Serves
        /\ panel = "up" \/ (panel = "leaving" /\ w = "handler" /\ call[w].op = "stopAll")
        /\ \A v \in Callers : v # w => call[v] = NoCall
    BY <1>1, AloneFacts DEF SupInv, Serves
  <1>3. UNCHANGED <<panel, pass, pool, go>> BY DEF Halt, world
  <1>4. PICK i \in Insts : /\ i = call[w].inst
                           /\ closed' = closed \cup ({stop[i]} \ {Nil})
                           /\ stop' = [stop EXCEPT ![i] = Nil]
                           /\ ~ InWindow(i)
    BY HaltEffect, SerialMeans
  <1>5. PICK c : NowCall(w, c) /\ c.pc = "wait" /\ c.inst = call[w].inst /\ c.op = call[w].op
    BY HaltEffect
  <1>6. InstOK(c)' BY <1>1, <1>3, <1>5 DEF SupInv, InstInv, InstOK
  <1>7. TurnInv' /\ InstInv' BY <1>2, <1>3, <1>5, <1>6, MovedTurn, MovedInst
  <1>8. stop \in [Insts -> Gos \cup {Nil}] BY TypeParts DEF InstancesOK
  <1>9. \A k \in Gos : Live(k) => go[k].inst = i /\ stop[i] = k
    <2> SUFFICES ASSUME NEW k \in Gos, Live(k) PROVE go[k].inst = i /\ stop[i] = k
      OBVIOUS
    <2>1. go[k].inst = i
      <3>1. CASE call[w].op \in {"apply", "boot", "stopAll"}
        <4>1. i = pool BY <1>1, <1>4, <3>1 DEF SupInv, InstInv, InstOK
        <4>2. \A v \in Callers : ~ (call[v].pc = "halt" /\ call[v].op = "remove")
          BY <1>2, <3>1, NoneOK
        <4> QED BY <4>1, <4>2 DEF SupInv, LiveInv, LivePlace
      <3>2. CASE call[w].op = "remove"
        <4>1. pool = Nil BY <1>1, <3>2 DEF SupInv, InstInv, InstOK
        <4>2. go[k].inst # Nil BY GoFacts, NilFacts DEF Live, GoOK
        <4>3. PICK v \in Callers : call[v].pc = "halt" /\ call[v].inst = go[k].inst
          BY <4>1, <4>2 DEF SupInv, LiveInv, LivePlace
        <4>4. v = w BY <1>2, <4>3, NoneOK
        <4> QED BY <1>4, <4>3, <4>4
      <3>3. CASE call[w].op = "none"
        BY <1>1, <3>3 DEF SupInv, InstInv, InstOK
      <3>4. call[w].op \in {"none", "apply", "boot", "remove", "stopAll"}
        BY CallFacts, Sets DEF CallType
      <3> QED BY <3>1, <3>2, <3>3, <3>4
    <2>2. go[k].pc # "init" BY <1>4, <2>1 DEF InWindow
    <2> QED BY <2>1, <2>2 DEF SupInv, LiveInv, LiveChannel
  <1>10. \A k \in Gos : ~ Live(k)'
    <2> SUFFICES ASSUME NEW k \in Gos, Live(k) PROVE k \in closed'
      BY <1>3, <1>4 DEF Live
    <2>1. stop[i] = k BY <1>9
    <2> QED BY <1>4, <2>1, NilFacts
  <1>11. OneLive' /\ LivePlace' /\ LiveChannel' /\ NoneLive'
    BY <1>10 DEF OneLive, LivePlace, LiveChannel, NoneLive
  <1>12. \A j \in Insts : stop[j] # Nil => j = i /\ Live(stop[j]) /\ stop[j] \in Gos
    <2>1. \A j \in Insts : stop[j] # Nil => stop[j] \in Gos /\ Live(stop[j]) /\ go[stop[j]].inst = j
      BY <1>2, <1>8 DEF SupInv, LiveInv, ChannelLive
    <2> QED BY <1>9, <2>1
  <1>13. ChannelLive' BY <1>4, <1>8, <1>12 DEF ChannelLive
  <1>14. ToldInv'
    <2> SUFFICES ASSUME NEW k \in Gos, k \in closed', go[k].pc # "none" PROVE go[k].pc \in Told
      BY <1>3 DEF ToldInv
    <2>1. CASE k \in closed BY <2>1 DEF SupInv, LiveInv, ToldInv
    <2>2. CASE k \notin closed
      <3>1. stop[i] = k /\ k # Nil BY <1>4, <2>2
      <3>2. go[k].inst = i /\ go[k].pc # "init" BY <1>2, <3>1 DEF SupInv, LiveInv, ChannelLive
      <3>3. go[k].pc \notin {"reap", "start", "publish"} BY <1>4, <3>2 DEF InWindow
      <3>4. go[k].pc \in GoPcs BY GoFacts DEF GoType
      <3> QED BY <3>2, <3>3, <3>4, Sets DEF Told
    <2> QED BY <2>1, <2>2
  <1> QED BY <1>7, <1>10, <1>11, <1>13, <1>14 DEF SupInv, LiveInv

\* The panel is gone.
LEMMA GoneSup ==
  ASSUME TypeInv, SupInv, NEW how \in {"stopped", "killed"}, Gone(how)
  PROVE  SupInv' /\ \A k \in Gos : ~ Live(k)'
  <1>1. TurnInv' BY NoneOK DEF Gone, TurnInv, Busy, Serves
  <1>2. InstInv' BY NoneOK DEF Gone, InstInv, InstOK
  <1>3. \A k \in Gos : go'[k].pc = "none" /\ ~ Live(k)' BY NoneOK DEF Gone, Live
  <1>6. ~ Serves' BY DEF Gone, Serves
  <1>4. OneLive' /\ LivePlace' /\ LiveChannel' /\ NoneLive'
    BY <1>3 DEF OneLive, LivePlace, LiveChannel, NoneLive
  <1>5. ChannelLive' /\ ToldInv' BY <1>3, <1>6 DEF ChannelLive, ToldInv
  <1> QED BY <1>1, <1>2, <1>3, <1>4, <1>5 DEF SupInv, LiveInv

LEMMA WaitGoneSup ==
  ASSUME TypeInv, Serial, SupInv, NEW w \in Callers, WaitGone(w) PROVE SupInv'
  <1>1. call[w].pc = "wait" BY DEF WaitGone
  <1>2. /\ pass = NoPass
        /\ panel = "up" \/ (panel = "leaving" /\ w = "handler" /\ call[w].op = "stopAll")
        /\ \A v \in Callers : v # w => call[v] = NoCall
    BY <1>1, AloneFacts DEF SupInv
  <1>3. UNCHANGED <<panel, go, pass, pool, stop, closed>> BY WaitGoneEffect DEF WaitGone, instances
  <1>4. PICK c : /\ NowCall(w, c)
                 /\ \/ c = NoCall
                    \/ /\ c.inst = call[w].inst /\ c.op = call[w].op
                       /\ \/ c.pc = "rmdir" /\ c.op = "remove"
                          \/ c.pc = "go" /\ c.op \notin {"remove", "stopAll"}
    BY WaitGoneEffect
  <1>5. InstOK(c)' BY <1>1, <1>3, <1>4, NoneOK DEF SupInv, InstInv, InstOK
  <1>6. panel = "up" \/ (panel = "leaving" /\ (c.pc = "idle" \/ (w = "handler" /\ c.op = "stopAll")))
    BY <1>2, <1>4, NoneOK
  <1> QED BY <1>1, <1>2, <1>3, <1>4, <1>5, <1>6, CallMoved DEF Halted

LEMMA SpawnSup ==
  ASSUME TypeInv, Serial, SupInv, NEW w \in Callers, Spawn(w) PROVE SupInv'
  <1>1. call[w].pc = "go" BY DEF Spawn
  <1>2. /\ panel = "up" /\ pass = NoPass
        /\ \A v \in Callers : v # w => call[v] = NoCall
    BY <1>1, AloneFacts DEF SupInv
  <1>3. UNCHANGED <<panel, pass, pool, stop, closed>> BY DEF Spawn, world, instances
  <1>4. NowCall(w, NoCall) BY SpawnEffect
  <1>5. PICK k \in FreeGos : \E g : NowGo(k, g) /\ g.pc = "init" /\ g.inst = call[w].inst
    BY SpawnEffect
  <1>6. PICK g : NowGo(k, g) /\ g.pc = "init" /\ g.inst = call[w].inst BY <1>5
  <1>7. InstOK(NoCall)' BY NoneOK DEF InstOK
  <1>8. TurnInv' /\ InstInv' BY <1>2, <1>3, <1>4, <1>7, MovedTurn, MovedInst
  <1>9. \A j \in Gos : ~ Live(j) BY <1>1 DEF SupInv, LiveInv, NoneLive, Halted
  <1>10. \A j \in Gos : Live(j)' => j = k BY <1>3, <1>6, <1>9 DEF Live, NowGo
  <1>11. k \in Gos /\ k \notin closed BY DEF FreeGos
  <1>12. call[w].inst = pool
    <2>1. call[w].op \in {"none", "apply", "boot", "remove", "stopAll"}
      BY CallFacts, Sets DEF CallType
    <2> QED BY <1>1, <2>1 DEF SupInv, InstInv, InstOK
  <1>13. OneLive' BY <1>10 DEF OneLive
  <1>14. LivePlace' BY <1>3, <1>6, <1>10, <1>12 DEF LivePlace, NowGo
  <1>15. LiveChannel' BY <1>6, <1>10 DEF LiveChannel, NowGo
  <1>16. ChannelLive' BY <1>2, <1>3, <1>9, TypeParts DEF SupInv, LiveInv, ChannelLive, Serves, InstancesOK
  <1>17. NoneLive' BY <1>2, <1>3, <1>4, NoneOK DEF NoneLive, Left, NowCall, Halted
  <1>18. ToldInv' BY <1>3, <1>6, <1>11 DEF SupInv, LiveInv, ToldInv, NowGo
  <1> QED BY <1>8, <1>13, <1>14, <1>15, <1>16, <1>17, <1>18 DEF SupInv, LiveInv

LEMMA UnmapSup ==
  ASSUME TypeInv, Serial, SupInv, NEW w \in Callers, Unmap(w) PROVE SupInv'
  <1>1. call[w].pc = "unmap" BY DEF Unmap
  <1>2. /\ panel = "up" /\ pass = NoPass
        /\ \A v \in Callers : v # w => call[v] = NoCall
    BY <1>1, AloneFacts DEF SupInv
  <1>3. pool' = Nil /\ UNCHANGED <<panel, pass, stop, closed, go>> BY DEF Unmap, world
  <1>4. PICK c : /\ NowCall(w, c)
                 /\ c.pc = IF pool = Nil THEN "drop" ELSE "halt"
                 /\ c.inst = pool /\ c.op = call[w].op
    BY UnmapEffect
  <1>5. call[w].op = "remove"
    <2>1. call[w].op \in {"none", "apply", "boot", "remove", "stopAll"}
      BY CallFacts, Sets DEF CallType
    <2> QED BY <1>1, <2>1 DEF SupInv, InstInv, InstOK
  <1>6. InstOK(c)' BY <1>3, <1>4, <1>5 DEF InstOK
  <1>7. TurnInv' /\ InstInv' BY <1>2, <1>3, <1>4, <1>6, MovedTurn, MovedInst
  <1>8. \A k \in Gos : Live(k)' <=> Live(k) BY <1>3 DEF Live
  <1>9. \A k \in Gos : Live(k) => go[k].inst = pool /\ pool # Nil
    <2>1. \A v \in Callers : call[v].pc # "halt" BY <1>1, <1>2, NoneOK
    <2>2. \A k \in Gos : Live(k) => go[k].inst # Nil BY GoFacts, NilFacts DEF Live, GoOK
    <2> QED BY <2>1, <2>2 DEF SupInv, LiveInv, LivePlace
  <1>10. OneLive' /\ LiveChannel' /\ ToldInv' BY <1>3, <1>8 DEF SupInv, LiveInv, OneLive, LiveChannel, ToldInv
  <1>11. LivePlace'
    <2> SUFFICES ASSUME NEW k \in Gos, Live(k)
                 PROVE  \E v \in Callers : call'[v].pc = "halt" /\ call'[v].op = "remove" /\ call'[v].inst = go'[k].inst
      BY <1>8 DEF LivePlace
    <2> QED BY <1>3, <1>4, <1>5, <1>9 DEF NowCall
  <1>12. ChannelLive' BY <1>3, <1>8 DEF SupInv, LiveInv, ChannelLive, Serves, Live
  <1>13. NoneLive'
    <2> SUFFICES ASSUME NEW v \in Callers, call'[v].pc \in Halted, NEW k \in Gos, Live(k) PROVE FALSE
      BY <1>2, <1>3, <1>8 DEF NoneLive, Left
    <2>1. v = w BY <1>2, <1>4, NoneOK DEF NowCall, Halted
    <2>2. pool = Nil BY <1>4, <2>1 DEF NowCall, Halted
    <2> QED BY <1>9, <2>2
  <1> QED BY <1>7, <1>10, <1>11, <1>12, <1>13 DEF SupInv, LiveInv

LEMMA RemoveDirSup ==
  ASSUME TypeInv, Serial, SupInv, NEW w \in Callers, RemoveDir(w) PROVE SupInv'
  <1>1. call[w].pc = "rmdir" BY DEF RemoveDir
  <1>2. /\ panel = "up" /\ pass = NoPass
        /\ \A v \in Callers : v # w => call[v] = NoCall
    BY <1>1, AloneFacts DEF SupInv
  <1>3. UNCHANGED <<panel, pass, pool, stop, closed, go>> BY DEF RemoveDir, world, instances
  <1>4. PICK c : NowCall(w, c) /\ c.pc = "drop" /\ c.op = call[w].op BY RemoveDirEffect
  <1>5. call[w].op = "remove"
    <2>1. call[w].op \in {"none", "apply", "boot", "remove", "stopAll"}
      BY CallFacts, Sets DEF CallType
    <2> QED BY <1>1, <2>1 DEF SupInv, InstInv, InstOK
  <1>6. InstOK(c)' BY <1>1, <1>3, <1>4, <1>5 DEF SupInv, InstInv, InstOK
  <1> QED BY <1>1, <1>2, <1>3, <1>4, <1>6, CallMoved DEF Halted

LEMMA DropRowSup ==
  ASSUME TypeInv, Serial, SupInv, NEW w \in Callers, DropRow(w) PROVE SupInv'
  <1>1. call[w].pc = "drop" BY DEF DropRow
  <1>2. /\ panel = "up" /\ pass = NoPass
        /\ \A v \in Callers : v # w => call[v] = NoCall
    BY <1>1, AloneFacts DEF SupInv
  <1>3. UNCHANGED <<panel, pass, pool, stop, closed, go>> BY DropRowEffect DEF DropRow, instances
  <1>4. NowCall(w, NoCall) BY DropRowEffect
  <1>5. InstOK(NoCall)' BY NoneOK DEF InstOK
  <1> QED BY <1>1, <1>2, <1>3, <1>4, <1>5, NoneOK, CallMoved DEF Halted

LEMMA GoInitSup ==
  ASSUME TypeInv, Serial, SupInv, NEW k \in Gos, GoInit(k) PROVE SupInv'
  <1>1. go[k].pc = "init" BY DEF GoInit
  <1>2. Serves BY <1>1, ServingFacts DEF SupInv
  <1>3. UNCHANGED <<call, pass, panel, want, pool, closed>> BY DEF GoInit, world
  <1>4. PICK i \in Insts : i = go[k].inst /\ stop' = [stop EXCEPT ![i] = k] BY GoInitEffect
  <1>5. PICK g : NowGo(k, g) /\ g.pc = "begin" /\ g.inst = i BY <1>4, GoInitEffect
  <1>6. TurnInv' BY <1>2, <1>3 DEF SupInv, TurnInv, Busy, Serves
  <1>7. InstInv' BY <1>3 DEF SupInv, InstInv, InstOK
  <1>8. Live(k) BY <1>1 DEF SupInv, LiveInv, ToldInv, Told, Live
  <1>9. \A j \in Gos : /\ Live(j) <=> j = k
                       /\ Live(j)' <=> j = k
    <2>1. \A j \in Gos : Live(j) => j = k BY <1>8 DEF SupInv, LiveInv, OneLive
    <2>2. \A j \in Gos : Live(j)' <=> Live(j) BY <1>1, <1>3, <1>5 DEF Live, NowGo
    <2> QED BY <1>8, <2>1, <2>2
  <1>10. stop \in [Insts -> Gos \cup {Nil}] BY TypeParts DEF InstancesOK
  <1>11. \A j \in Insts : stop[j] = Nil
    BY <1>1, <1>2, <1>9, <1>10 DEF SupInv, LiveInv, ChannelLive
  <1>12. OneLive' BY <1>9 DEF OneLive
  <1>13. LivePlace' BY <1>3, <1>4, <1>5, <1>9 DEF SupInv, LiveInv, LivePlace, NowGo
  <1>14. LiveChannel' BY <1>4, <1>5, <1>9, <1>10 DEF LiveChannel, NowGo
  <1>15. ChannelLive'
    <2> SUFFICES ASSUME NEW j \in Insts, stop'[j] # Nil
                 PROVE  Live(stop[j])' /\ go'[stop'[j]].pc # "init" /\ go'[stop'[j]].inst = j
      BY DEF ChannelLive
    <2>1. j = i /\ stop'[j] = k BY <1>4, <1>10, <1>11
    <2>2. go'[stop'[j]].pc # "init" /\ go'[stop'[j]].inst = j BY <1>5, <2>1 DEF NowGo
    <2>3. go'[stop'[j]].pc # "none" /\ stop'[j] \notin closed'
      BY <1>3, <1>5, <1>8, <2>1 DEF NowGo, Live
    <2> QED BY <2>2, <2>3 DEF Live
  <1>16. NoneLive' BY <1>3, <1>9, SameLeft DEF SupInv, LiveInv, NoneLive
  <1>17. ToldInv' BY <1>3, <1>5 DEF SupInv, LiveInv, ToldInv, NowGo, Told
  <1> QED BY <1>6, <1>7, <1>12, <1>13, <1>14, <1>15, <1>16, <1>17 DEF SupInv, LiveInv

LEMMA GoCheckSup ==
  ASSUME TypeInv, Serial, SupInv, NEW k \in Gos, GoCheck(k) PROVE SupInv'
  <1>1. go[k].pc \in {"begin", "check"} BY DEF GoCheck
  <1>2. Serves BY <1>1, ServingFacts DEF SupInv
  <1>3. UNCHANGED <<call, pass, panel, want, pool, stop>> BY DEF GoCheck, world, instances
  <1>4. CASE k \notin closed
    <2>1. PICK g : /\ NowGo(k, g) /\ g.pc = "reap" /\ g.inst = go[k].inst /\ closed' = closed
      BY <1>4, GoCheckEffect
    <2> QED BY <1>1, <1>3, <1>4, <2>1, GoMoved
  <1>5. CASE k \in closed
    <2>1. NowGo(k, NoGo) /\ closed' = closed \ {k} BY <1>5, GoCheckEffect
    <2>2. TurnInv' BY <1>2, <1>3 DEF SupInv, TurnInv, Busy, Serves
    <2>3. InstInv' BY <1>3 DEF SupInv, InstInv, InstOK
    <2>4. \A j \in Gos : /\ Live(j)' <=> Live(j)
                         /\ Live(j) => j # k /\ go'[j] = go[j]
      BY <1>5, <2>1, NoneOK DEF Live, NowGo
    <2>5. OneLive' /\ LiveChannel' BY <1>3, <2>4 DEF SupInv, LiveInv, OneLive, LiveChannel
    <2>6. LivePlace' BY <1>3, <2>4 DEF SupInv, LiveInv, LivePlace
    <2>7. NoneLive' BY <1>3, <2>4, SameLeft DEF SupInv, LiveInv, NoneLive
    <2>8. ToldInv' BY <2>1, NoneOK DEF SupInv, LiveInv, ToldInv, NowGo
    <2>9. ChannelLive'
      <3>1. \A i \in Insts : stop[i] # Nil => stop[i] \in Gos BY TypeParts DEF InstancesOK
      <3> QED BY <1>2, <1>3, <2>4, <3>1, SameLeft DEF SupInv, LiveInv, ChannelLive
    <2> QED BY <2>2, <2>3, <2>5, <2>6, <2>7, <2>8, <2>9 DEF SupInv, LiveInv
  <1> QED BY <1>4, <1>5

LEMMA GoRestSup ==
  ASSUME TypeInv, Serial, SupInv, NEW k \in Gos,
         GoReap(k) \/ GoStart(k) \/ GoStartFails(k) \/ GoPublish(k) \/ GoWait(k)
  PROVE  SupInv'
  <1>1. CASE GoReap(k)
    <2>1. PICK g : NowGo(k, g) /\ g.pc = "start" /\ g.inst = go[k].inst BY <1>1, GoReapEffect
    <2>2. /\ go[k].pc = "reap" /\ UNCHANGED <<call, pass, panel, want, pool, stop, closed>>
      BY <1>1 DEF GoReap, world, instances
    <2>3. k \notin closed BY <2>2 DEF SupInv, LiveInv, ToldInv, Told
    <2> QED BY <2>1, <2>2, <2>3, GoMoved
  <1>2. CASE GoStart(k)
    <2>1. PICK g : NowGo(k, g) /\ g.pc = "publish" /\ g.inst = go[k].inst BY <1>2, GoStartEffect
    <2>2. /\ go[k].pc = "start" /\ UNCHANGED <<call, pass, panel, want, pool, stop, closed>>
      BY <1>2 DEF GoStart, world, instances
    <2>3. k \notin closed BY <2>2 DEF SupInv, LiveInv, ToldInv, Told
    <2> QED BY <2>1, <2>2, <2>3, GoMoved
  <1>3. CASE GoStartFails(k)
    <2>1. PICK g : NowGo(k, g) /\ g.pc = "check" /\ g.inst = go[k].inst BY <1>3, GoStartFailsEffect
    <2>2. /\ go[k].pc = "start" /\ UNCHANGED <<call, pass, panel, want, pool, stop, closed>>
      BY <1>3 DEF GoStartFails, instances
    <2> QED BY <2>1, <2>2, GoMoved DEF Told
  <1>4. CASE GoPublish(k)
    <2>1. PICK g : NowGo(k, g) /\ g.pc = "wait" /\ g.inst = go[k].inst BY <1>4, GoPublishEffect
    <2>2. /\ go[k].pc = "publish" /\ UNCHANGED <<call, pass, panel, want, pool, stop, closed>>
      BY <1>4 DEF GoPublish, world
    <2> QED BY <2>1, <2>2, GoMoved DEF Told
  <1>5. CASE GoWait(k)
    <2>1. PICK g : NowGo(k, g) /\ g.pc = "check" /\ g.inst = go[k].inst BY <1>5, GoWaitEffect
    <2>2. /\ go[k].pc = "wait" /\ UNCHANGED <<call, pass, panel, want, pool, stop, closed>>
      BY <1>5 DEF GoWait, world
    <2> QED BY <2>1, <2>2, GoMoved DEF Told
  <1> QED BY <1>1, <1>2, <1>3, <1>4, <1>5

\* Nothing the supervisors and the calls look at has changed.
LEMMA FrameSup ==
  ASSUME SupInv, UNCHANGED <<call, go, closed, stop, pool, panel, pass, want>> PROVE SupInv'
  <1>1. TurnInv' BY DEF SupInv, TurnInv, Busy, Serves
  <1>2. InstInv' BY DEF SupInv, InstInv, InstOK
  <1>3. \A k \in Gos : Live(k)' <=> Live(k) BY DEF Live
  <1>4. OneLive' /\ LiveChannel' /\ ToldInv' BY <1>3 DEF SupInv, LiveInv, OneLive, LiveChannel, ToldInv
  <1>5. LivePlace' /\ NoneLive' BY <1>3, SameLeft DEF SupInv, LiveInv, LivePlace, NoneLive
  <1>6. ChannelLive' BY DEF SupInv, LiveInv, ChannelLive, Live, Serves
  <1> QED BY <1>1, <1>2, <1>4, <1>5, <1>6 DEF SupInv, LiveInv

LEMMA ProcessSup ==
  ASSUME SupInv, NEW p \in Procs, Bind(p) \/ Close(p) \/ Exit(p) PROVE SupInv'
  BY FrameSup DEF Bind, Close, Exit, world, instances

LEMMA QuotaSup ==
  ASSUME SupInv, Quota PROVE SupInv'
  BY FrameSup DEF Quota, instances

\* Only the pass of the sampler has changed.
LEMMA PassSup ==
  ASSUME SupInv, \A w \in Callers : ~ Busy(w), panel = "up", pass'.held = want,
         UNCHANGED <<call, go, closed, stop, pool, panel, want>>
  PROVE  SupInv'
  <1>1. TurnInv' BY DEF SupInv, TurnInv, Busy, Serves
  <1>2. InstInv' BY DEF SupInv, InstInv, InstOK
  <1>3. \A k \in Gos : Live(k)' <=> Live(k) BY DEF Live
  <1>4. OneLive' /\ LiveChannel' /\ ToldInv' BY <1>3 DEF SupInv, LiveInv, OneLive, LiveChannel, ToldInv
  <1>5. LivePlace' /\ NoneLive' BY <1>3, SameLeft DEF SupInv, LiveInv, LivePlace, NoneLive
  <1>6. ChannelLive' BY DEF SupInv, LiveInv, ChannelLive, Live, Serves
  <1> QED BY <1>1, <1>2, <1>4, <1>5, <1>6 DEF SupInv, LiveInv

LEMMA SamplerSup ==
  ASSUME TypeInv, Serial, SupInv, Sampler PROVE SupInv'
  <1>1. CASE PassNodes
    <2>1. panel = "up" /\ call["sampler"] = NoCall /\ call["handler"] = NoCall
      BY <1>1, SerialMeans DEF PassNodes, Idle, Ticking
    <2>2. \A w \in Callers : ~ Busy(w) BY <2>1, NoneOK DEF Busy, Callers
    <2>3. UNCHANGED <<call, go, closed, stop, pool, panel, want>> BY <1>1 DEF PassNodes, world, instances
    <2> QED BY <1>1, <2>1, <2>2, <2>3, PassNodesEffect, PassSup
  <1>2. CASE PassStats
    <2>1. pass # NoPass /\ pass'.held = pass.held BY <1>2, PassStatsEffect
    <2>2. /\ \A w \in Callers : ~ Busy(w)
          /\ panel = "up" /\ pass.held = want
      BY <2>1 DEF SupInv, TurnInv
    <2>3. UNCHANGED <<call, go, closed, stop, pool, panel, want>> BY <1>2 DEF PassStats, world, instances
    <2> QED BY <2>1, <2>2, <2>3, PassSup
  <1>3. CASE PassDecide
    <2>1. pass # NoPass /\ pass' = NoPass BY <1>3, PassDecideEffect
    <2>2. /\ \A w \in Callers : call[w] = NoCall
          /\ panel = "up"
      BY <2>1, CallFacts DEF SupInv, TurnInv
    <2>3. UNCHANGED <<panel, pool, stop, closed, go>> BY <1>3 DEF PassDecide, world, instances
    <2>4. PICK c : NowCall("sampler", c) /\ c.pc \in {"idle", "conf"} /\ InstOK(c)'
      <3>1. CASE NowCall("sampler", NoCall) BY <3>1, NoneOK DEF InstOK
      <3>2. ASSUME NEW n, NowCall("sampler", Applying("apply", n)), n.on \in BOOLEAN,
                   n.ver \in Vers \cup {Blank, Nil}
            PROVE  \E c : NowCall("sampler", c) /\ c.pc \in {"idle", "conf"} /\ InstOK(c)'
        BY <3>2, ApplyingOK DEF InstOK
      <3> QED BY <1>3, <3>1, <3>2, PassDecideEffect
    <2>5. "sampler" \in Callers BY DEF Callers
    <2>6. call["sampler"].pc # "halt" /\ c.pc \notin Halted BY <2>2, <2>4, <2>5, NoneOK DEF Halted
    <2> QED BY <2>1, <2>2, <2>3, <2>4, <2>5, <2>6, CallMoved
  <1> QED BY <1>1, <1>2, <1>3 DEF Sampler

LEMMA HandlerSup ==
  ASSUME TypeInv, Serial, SupInv, Toggle \/ Update \/ Delete PROVE SupInv'
  <1>1. MayCall BY DEF Toggle, Update, Delete, MayHandle
  <1>2. /\ panel = "up" /\ pass = NoPass
        /\ \A v \in Callers : call[v] = NoCall
    BY <1>1, MayCallFacts
  <1>3. UNCHANGED <<panel, pool, stop, closed, go>>
    BY DEF Toggle, Update, Delete, SaveAndApply, instances
  <1>4. pass' = NoPass BY <1>2, ToggleEffect, UpdateEffect DEF Delete
  <1>5. PICK c : NowCall("handler", c) /\ c.pc \in {"conf", "unmap"} /\ InstOK(c)'
    <2>1. CASE Toggle \/ Update
      <3>1. want' \in Node /\ NowCall("handler", Applying("apply", want'))
        BY <2>1, ToggleEffect, UpdateEffect
      <3>2. PICK n \in Node : n = want' BY <3>1
      <3>3. n.on \in BOOLEAN /\ n.ver \in Vers \cup {Blank, Nil} BY NodeOK
      <3>4. Applying("apply", n).pc = "conf" /\ Applying("apply", n).op = "apply" BY <3>3, ApplyingOK
      <3> QED BY <3>1, <3>2, <3>4 DEF InstOK
    <2>2. CASE Delete
      <3>1. PICK c : NowCall("handler", c) /\ c.pc = "unmap" /\ c.op = "remove" BY <2>2, DeleteEffect
      <3> QED BY <3>1 DEF InstOK
    <2> QED BY <2>1, <2>2
  <1>6. "handler" \in Callers BY DEF Callers
  <1>7. call["handler"].pc # "halt" /\ c.pc \notin Halted BY <1>2, <1>5, <1>6, NoneOK DEF Halted
  <1> QED BY <1>2, <1>3, <1>4, <1>5, <1>6, <1>7, CallMoved

LEMMA StopPanelFacts ==
  ASSUME Serial, StopPanel
  PROVE  /\ panel = "up" /\ pass = NoPass /\ panel' = "leaving"
         /\ \A v \in Callers : call[v] = NoCall
         /\ UNCHANGED <<pass, pool, stop, cmd, closed, go, proc, want, conf>>
  BY SerialMeans DEF StopPanel, Idle, Callers, instances

\* Without an instance there is nobody to stop.
LEMMA NobodyToStop ==
  ASSUME TypeInv, SupInv, pool = Nil, \A v \in Callers : call[v] = NoCall, NEW k \in Gos
  PROVE  ~ Live(k)
  <1>1. Live(k) => go[k].inst # Nil BY GoFacts, NilFacts DEF Live, GoOK
  <1> QED BY <1>1, NoneOK DEF SupInv, LiveInv, LivePlace

LEMMA StopPanelSup ==
  ASSUME TypeInv, Serial, SupInv, StopPanel PROVE SupInv'
  <1>1. /\ panel = "up" /\ pass = NoPass /\ panel' = "leaving"
        /\ \A v \in Callers : call[v] = NoCall
        /\ UNCHANGED <<pass, pool, stop, closed, go>>
    BY StopPanelFacts
  <1>2. "handler" \in Callers BY DEF Callers
  <1>3. PICK c : /\ NowCall("handler", c) /\ InstOK(c)' /\ c.pc \in {"idle", "halt"}
                 /\ c.pc = "idle" => pool = Nil
                 /\ c.pc = "halt" => c.op = "stopAll"
    <2>1. CASE pool = Nil /\ UNCHANGED call
      <3>1. NowCall("handler", NoCall) BY <1>1, <1>2, <2>1, NoneOK DEF NowCall, CallOK
      <3>2. InstOK(NoCall)' BY NoneOK DEF InstOK
      <3> QED BY <2>1, <3>1, <3>2, NoneOK
    <2>2. ASSUME NEW c, NowCall("handler", c), c.pc = "halt", c.op = "stopAll", c.inst = pool
          PROVE  InstOK(c)'
      BY <1>1, <2>2 DEF InstOK
    <2> QED BY <2>1, <2>2, StopPanelEffect
  <1>4. TurnInv' /\ InstInv' BY <1>1, <1>2, <1>3, MovedTurn, MovedInst
  <1>5. \A k \in Gos : Live(k)' <=> Live(k) BY <1>1 DEF Live
  <1>6. OneLive' /\ LiveChannel' /\ ToldInv'
    BY <1>1, <1>5 DEF SupInv, LiveInv, OneLive, LiveChannel, ToldInv
  <1>7. LivePlace' BY <1>1, <1>5, NoneOK DEF SupInv, LiveInv, LivePlace
  <1>8. ChannelLive' BY <1>1 DEF SupInv, LiveInv, ChannelLive, Live, Serves
  <1>9. NoneLive'
    <2>1. CASE c.pc = "idle" BY <1>1, <1>3, <1>5, <2>1, NobodyToStop DEF NoneLive
    <2>2. CASE c.pc = "halt"
      <3>1. Busy("handler")' BY <1>3, <2>2 DEF Busy, NowCall
      <3>2. \A v \in Callers : call'[v].pc \notin Halted BY <1>1, <1>3, <2>2, NoneOK DEF NowCall, Halted
      <3> QED BY <1>2, <3>1, <3>2 DEF NoneLive, Left
    <2> QED BY <1>3, <2>1, <2>2
  <1> QED BY <1>4, <1>6, <1>7, <1>8, <1>9 DEF SupInv, LiveInv

LEMMA BootSup ==
  ASSUME TypeInv, Serial, SupInv, Boot PROVE SupInv'
  <1>1. ~ Serves /\ panel' = "up" /\ pool' = Nil /\ closed' = {} /\ UNCHANGED <<pass, go, want>>
    BY DEF Boot, Serves
  <1>2. /\ \A w \in Callers : call[w] = NoCall
        /\ pass = NoPass /\ \A k \in Gos : go[k] = NoGo
    BY <1>1, CallFacts DEF SupInv, TurnInv
  <1>3. PICK c : NowCall("handler", c) /\ c.pc \in {"idle", "conf"} /\ InstOK(c)'
    <2>1. CASE NowCall("handler", NoCall) BY <2>1, NoneOK DEF InstOK
    <2>2. CASE want \in Node /\ NowCall("handler", Applying("boot", want))
      <3>1. want.on \in BOOLEAN /\ want.ver \in Vers \cup {Blank, Nil} BY <2>2, NodeOK
      <3>2. Applying("boot", want).pc = "conf" /\ Applying("boot", want).op = "boot" BY <3>1, ApplyingOK
      <3>3. PICK a : a = Applying("boot", want) OBVIOUS
      <3>4. NowCall("handler", a) /\ a.pc = "conf" /\ a.op = "boot" BY <2>2, <3>2, <3>3
      <3> QED BY <3>4 DEF InstOK
    <2> QED BY <2>1, <2>2, BootEffect
  <1>4. "handler" \in Callers BY DEF Callers
  <1>5. TurnInv' /\ InstInv' BY <1>1, <1>2, <1>3, <1>4, MovedTurn, MovedInst
  <1>6. \A k \in Gos : go'[k].pc = "none" /\ ~ Live(k)' BY <1>1, <1>2, NoneOK DEF Live
  <1>7. OneLive' /\ LivePlace' /\ LiveChannel' /\ NoneLive' /\ ToldInv'
    BY <1>6 DEF OneLive, LivePlace, LiveChannel, NoneLive, ToldInv
  <1>8. ChannelLive' BY BootEffect DEF ChannelLive
  <1> QED BY <1>5, <1>7, <1>8 DEF SupInv, LiveInv

LEMMA InitSup ==
  ASSUME Init PROVE SupInv
  <1>1. want \in Node /\ call["handler"] = Applying("boot", want) /\ call["sampler"] = NoCall
    BY InitTyped
  <1>2. want.on \in BOOLEAN /\ want.ver \in Vers \cup {Blank, Nil} BY <1>1, NodeOK
  <1>3. call["handler"].pc = "conf" /\ call["handler"].op = "boot" BY <1>1, <1>2, ApplyingOK
  <1>4. call["sampler"].pc = "idle" /\ call["sampler"].op = "none" BY <1>1, NoneOK
  <1>5. panel = "up" /\ pass = NoPass /\ \A i \in Insts : stop[i] = Nil BY DEF Init
  <1>6. TurnInv BY <1>3, <1>4, <1>5 DEF TurnInv, Busy, Callers, Serves
  <1>7. InstInv BY <1>3, <1>4 DEF InstInv, InstOK, Callers
  <1>8. \A k \in Gos : go[k].pc = "none" /\ ~ Live(k) BY NoneOK DEF Init, Live
  <1>9. LiveInv BY <1>5, <1>8 DEF LiveInv, OneLive, LivePlace, LiveChannel, ChannelLive, NoneLive, ToldInv
  <1> QED BY <1>6, <1>7, <1>9 DEF SupInv

LEMMA NextSup ==
  ASSUME TypeInv, Serial, SupInv, [Next]_vars PROVE SupInv'
  <1>1. ASSUME NEW w \in Callers, Step(w) PROVE SupInv'
    BY <1>1, WriteConfSup, LookSup, HaltSup, WaitGoneSup, SpawnSup, UnmapSup, RemoveDirSup, DropRowSup
    DEF Step
  <1>2. ASSUME NEW k \in Gos, Supervise(k) PROVE SupInv'
    BY <1>2, GoInitSup, GoCheckSup, GoRestSup DEF Supervise
  <1>3. ASSUME NEW p \in Procs, Bind(p) \/ Close(p) \/ Exit(p) PROVE SupInv'
    BY <1>3, ProcessSup
  <1>4. CASE KillPanel \/ MainReturns BY <1>4, KillPanelEffect, MainReturnsEffect, GoneSup
  <1>5. CASE UNCHANGED vars BY <1>5, FrameSup DEF vars
  <1> QED BY <1>1, <1>2, <1>3, <1>4, <1>5, SamplerSup, HandlerSup, QuotaSup, StopPanelSup, BootSup DEF Next

LEMMA SupPreserved ==
  ASSUME TypeInv, Serial => SupInv, [Next]_vars PROVE (Serial => SupInv)'
  BY NextSup, ScenarioFixed DEF Serial

\* Never do two goroutines supervise the node that nobody has told to stop, whoever
\* edits, switches, deletes, pauses or revives it, and whether or not panels are killed.
THEOREM OneSupervisorHolds == Spec => []OneSupervisor
  <1>1. Init => TypeInv /\ (Serial => SupInv) BY InitTyped, InitSup
  <1>2. TypeInv /\ (Serial => SupInv) /\ [Next]_vars => TypeInv' /\ (Serial => SupInv)'
    BY NextTyped, SupPreserved
  <1>3. TypeInv /\ (Serial => SupInv) => OneSupervisor
    <2> SUFFICES ASSUME SupInv
                 PROVE  Cardinality({k \in Gos : go[k].pc # "none" /\ k \notin closed}) <= 1
      BY DEF OneSupervisor
    <2> DEFINE L == {k \in Gos : go[k].pc # "none" /\ k \notin closed}
    <2>1. L = {} \/ \E k \in Gos : L = {k}
      <3>1. CASE L # {}
        <4>1. PICK k \in Gos : k \in L BY <3>1
        <4>2. L = {k} BY <4>1 DEF SupInv, LiveInv, OneLive, Live
        <4> QED BY <4>2
      <3> QED BY <3>1
    <2> HIDE DEF L
    <2>2. L = {} => Cardinality(L) = 0 BY FS_EmptySet
    <2>3. (\E k \in Gos : L = {k}) => Cardinality(L) = 1 BY FS_Singleton
    <2>4. Cardinality(L) <= 1 BY <2>1, <2>2, <2>3
    <2> QED BY <2>4 DEF L
  <1> QED BY <1>1, <1>2, <1>3, PTL DEF Spec

-----------------------------------------------------------------------------
(* The processes, when besides no panel is killed *)

LEMMA NoneAwaited ==
  ASSUME TypeInv, NodeInv, NEW w \in Callers, \A v \in Callers : v # w => call[v] = NoCall,
         call[w].pc = "wait" => call[w].took = Nil \/ ~ Up(call[w].took),
         NEW k \in Gos, k \in closed
  PROVE  ~ HasUp(k)
  <1> SUFFICES ASSUME HasUp(k) PROVE FALSE
    OBVIOUS
  <1>1. PICK v \in Callers : call[v].pc = "wait" /\ call[v].took = go[k].proc
    BY DEF NodeInv, ProcInv, Awaited
  <1>2. v = w BY <1>1, NoneOK
  <1> QED BY <1>1, <1>2 DEF HasUp

\* A call moves on, and the supervisors and their processes are left alone.
LEMMA CallMovedNode ==
  ASSUME TypeInv, NodeInv, NEW w \in Callers, NEW c, NowCall(w, c),
         \A v \in Callers : v # w => call[v] = NoCall,
         call[w].pc = "wait" => call[w].took = Nil \/ ~ Up(call[w].took),
         panel' = "up" \/ c.pc # "idle" \/ \A p \in Procs : ~ Up(p),
         UNCHANGED <<closed, go, proc>>,
         \A k \in Gos : Live(k) => cmd'[go[k].inst] = cmd[go[k].inst],
         ArgOK(c)',
         c.pc = "idle" => \A k \in Gos : Live(k) => Wanting',
         \A k \in Gos : Live(k) /\ HasUp(k) => proc[go[k].proc].ver = conf' \/ Stopping(c)
  PROVE  NodeInv'
  <1>1. \A k \in Gos : (Live(k)' <=> Live(k)) /\ (HasUp(k)' <=> HasUp(k))
    BY DEF Live, HasUp, Up
  <1>2. ArgInv'
    <2>1. ArgOK(NoCall)' BY NoneOK DEF ArgOK
    <2>2. ASSUME NEW v \in Callers PROVE ArgOK(call[v])'
      <3>1. CASE v = w BY <3>1 DEF NowCall, ArgOK
      <3>2. CASE v # w BY <2>1, <3>2 DEF NowCall, ArgOK
      <3> QED BY <3>1, <3>2
    <2> QED BY <2>2 DEF ArgInv
  <1>3. LiveWanted'
    <2> SUFFICES ASSUME ~ Busy(w)', NEW k \in Gos, Live(k) PROVE Wanting'
      BY <1>1 DEF LiveWanted
    <2> QED BY DEF Busy, NowCall
  <1>4. Owned' /\ OneOwner' BY DEF NodeInv, ProcInv, Owned, OneOwner, Up
  <1>5. Shown' BY <1>1 DEF NodeInv, ProcInv, Shown
  <1>6. Awaited' BY <1>1, NoneAwaited DEF Awaited
  <1>7. Current'
    <2> SUFFICES ASSUME NEW k \in Gos, Live(k), HasUp(k), proc[go[k].proc].ver # conf'
                 PROVE  \E v \in Callers : Stopping(call[v])'
      BY <1>1 DEF Current
    <2>1. Stopping(c) OBVIOUS
    <2>2. Stopping(call[w])' BY <2>1 DEF NowCall, Stopping
    <2> QED BY <2>2
  <1>8. NoneLeft' BY DEF NoneLeft, Left, Busy, NowCall, Up
  <1> QED BY <1>2, <1>3, <1>4, <1>5, <1>6, <1>7, <1>8 DEF NodeInv, ProcInv

\* A goroutine without a process moves on, to where it has none either.
LEMMA GoMovedNode ==
  ASSUME TypeInv, NodeInv, NEW k \in Gos, NEW g, NowGo(k, g), go[k].proc = Nil, g.proc = Nil, g.pc # "wait",
         NoneCame, UNCHANGED <<call, panel, want, conf, cmd>>,
         \A j \in Gos : Live(j)' => Live(j), \A j \in Gos : j # k /\ j \in closed' => j \in closed
  PROVE  NodeInv'
  <1>1. \A j \in Gos : go'[j].proc = go[j].proc /\ go[j].proc \in Procs \cup {Nil}
    BY GoFacts DEF NowGo, GoType
  <1>2. \A p \in Procs : Up(p)' => Up(p) /\ proc'[p].ver = proc[p].ver BY DEF NoneCame, Up
  <1>3. \A j \in Gos : HasUp(j)' => j # k /\ go'[j] = go[j] /\ HasUp(j)
    BY <1>1, <1>2 DEF HasUp, NowGo, Up
  <1>4. ArgInv' BY DEF NodeInv, ArgInv, ArgOK
  <1>5. LiveWanted'
    <2> SUFFICES ASSUME \A w \in Callers : ~ Busy(w), NEW j \in Gos, Live(j) PROVE Wanting
      BY DEF LiveWanted, Busy, Wanting
    <2> QED BY DEF NodeInv, LiveWanted
  <1>6. Owned' BY <1>1, <1>2 DEF NodeInv, ProcInv, Owned
  <1>7. OneOwner' BY <1>1 DEF NodeInv, ProcInv, OneOwner
  <1>8. Shown' BY DEF NodeInv, ProcInv, Shown, NowGo
  <1>9. Awaited' BY <1>3 DEF NodeInv, ProcInv, Awaited
  <1>10. Current'
    <2> SUFFICES ASSUME NEW j \in Gos, Live(j)', HasUp(j)'
                 PROVE  proc'[go'[j].proc].ver = conf \/ \E w \in Callers : Stopping(call[w])
      BY DEF Current, Stopping
    <2>1. Live(j) /\ HasUp(j) /\ go'[j].proc = go[j].proc /\ go[j].proc \in Procs BY <1>1, <1>3 DEF HasUp
    <2>2. proc'[go[j].proc].ver = proc[go[j].proc].ver BY <1>2, <2>1 DEF HasUp, Up
    <2> QED BY <2>1, <2>2 DEF NodeInv, ProcInv, Current
  <1>11. NoneLeft' BY <1>2, SameLeft DEF NodeInv, ProcInv, NoneLeft
  <1> QED BY <1>4, <1>5, <1>6, <1>7, <1>8, <1>9, <1>10, <1>11 DEF NodeInv, ProcInv

\* Only processes have changed, and none has come.
LEMMA ProcMovedNode ==
  ASSUME TypeInv, NodeInv, NoneCame, UNCHANGED <<call, panel, want, conf, cmd, go, closed>> PROVE NodeInv'
  <1>1. \A j \in Gos : go[j].proc \in Procs \cup {Nil} BY GoFacts DEF GoType
  <1>2. \A p \in Procs : Up(p)' => Up(p) /\ proc'[p].ver = proc[p].ver BY DEF NoneCame, Up
  <1>3. \A j \in Gos : (Live(j)' <=> Live(j)) /\ (HasUp(j)' => HasUp(j)) BY <1>1, <1>2 DEF HasUp, Live, Up
  <1>4. ArgInv' BY DEF NodeInv, ArgInv, ArgOK
  <1>5. LiveWanted' BY <1>3 DEF NodeInv, LiveWanted, Busy, Wanting
  <1>6. Owned' BY <1>2 DEF NodeInv, ProcInv, Owned
  <1>7. OneOwner' /\ Shown' BY <1>3 DEF NodeInv, ProcInv, OneOwner, Shown
  <1>8. Awaited' BY <1>3 DEF NodeInv, ProcInv, Awaited
  <1>9. Current'
    <2> SUFFICES ASSUME NEW j \in Gos, Live(j), HasUp(j)'
                 PROVE  proc'[go[j].proc].ver = conf \/ \E w \in Callers : Stopping(call[w])
      BY <1>3 DEF Current, Stopping
    <2>1. HasUp(j) /\ go[j].proc \in Procs BY <1>1, <1>3 DEF HasUp
    <2>2. proc'[go[j].proc].ver = proc[go[j].proc].ver BY <1>2, <2>1 DEF HasUp, Up
    <2> QED BY <2>1, <2>2 DEF NodeInv, ProcInv, Current
  <1>10. NoneLeft' BY <1>2, SameLeft DEF NodeInv, ProcInv, NoneLeft
  <1> QED BY <1>4, <1>5, <1>6, <1>7, <1>8, <1>9, <1>10 DEF NodeInv, ProcInv

\* The panel is gone, and so are the processes.
LEMMA GoneNode ==
  ASSUME NEW how \in {"stopped", "killed"}, Gone(how), \A p \in Procs : ~ Up(p), UNCHANGED <<proc>>
  PROVE  NodeInv'
  <1>1. \A p \in Procs : ~ Up(p)' BY DEF Up
  <1>2. \A k \in Gos : go'[k].proc = Nil /\ ~ Live(k)' /\ ~ HasUp(k)' BY NoneOK DEF Gone, Live, HasUp
  <1>3. ArgInv' BY NoneOK DEF Gone, ArgInv, ArgOK
  <1>4. LiveWanted' BY <1>2 DEF LiveWanted
  <1>5. Owned' /\ OneOwner' /\ Shown' /\ Awaited' /\ Current' /\ NoneLeft'
    BY <1>1, <1>2 DEF Owned, OneOwner, Shown, Awaited, Current, NoneLeft
  <1> QED BY <1>3, <1>4, <1>5 DEF NodeInv, ProcInv

\* With nobody live and nobody awaited there is no process.
LEMMA NoneUp ==
  ASSUME TypeInv, NodeInv, \A k \in Gos : ~ Live(k), \A k \in Gos : k \in closed => ~ HasUp(k)
  PROVE  \A p \in Procs : ~ Up(p)
  <1> SUFFICES ASSUME NEW p \in Procs, Up(p) PROVE FALSE
    OBVIOUS
  <1>1. PICK k \in Gos : go[k].proc = p BY DEF NodeInv, ProcInv, Owned
  <1>2. go[k].proc # Nil BY <1>1, NilFacts
  <1>3. HasUp(k) BY <1>1, <1>2 DEF HasUp
  <1>4. go[k].pc # "none" BY <1>2, GoFacts, NoneOK DEF GoOK
  <1> QED BY <1>3, <1>4 DEF Live

LEMMA WorkerFacts ==
  ASSUME TypeInv, SupInv, NEW w \in Callers, call[w].pc # "idle"
  PROVE  /\ Serves
         /\ call[w].pc \notin {"halt", "wait"} => panel = "up"
         /\ \A v \in Callers : v # w => call[v] = NoCall
         /\ \A v \in Callers : Stopping(call[v]) => v = w
  BY AloneFacts, NoneOK DEF SupInv, Stopping, Serves

LEMMA WriteConfNode ==
  ASSUME TypeInv, SupInv, NodeInv, NEW w \in Callers, WriteConf(w) PROVE NodeInv'
  <1>1. call[w].pc = "conf" /\ UNCHANGED <<panel, closed, go, proc, want>> /\ conf' = call[w].cfg
    BY DEF WriteConf, world
  <1>2. /\ panel = "up"
        /\ \A v \in Callers : v # w => call[v] = NoCall
        /\ \A v \in Callers : Stopping(call[v]) => v = w
    BY <1>1, WorkerFacts
  <1>3. PICK c : /\ NowCall(w, c)
                 /\ c.pc = "look" /\ c.op = call[w].op /\ c.cfg = call[w].cfg
                 /\ c.on = call[w].on
                 /\ c.changed = Changed(w)
    BY WriteConfEffect
  <1>4. ArgOK(call[w]) BY DEF NodeInv, ArgInv
  <1>5. ArgOK(c)' BY <1>1, <1>3, <1>4 DEF ArgOK
  <1>6. \A k \in Gos : Live(k) => cmd'[go[k].inst] = cmd[go[k].inst]
    <2>1. CASE pool # Nil BY <2>1, WriteConfEffect
    <2>2. CASE pool = Nil
      <3>1. \A k \in Gos : Live(k) => go[k].inst # Nil BY GoFacts, NilFacts DEF Live, GoOK
      <3>2. \A v \in Callers : call[v].pc # "halt" BY <1>1, <1>2, NoneOK
      <3> QED BY <2>2, <3>1, <3>2 DEF SupInv, LiveInv, LivePlace
    <2> QED BY <2>1, <2>2
  <1>7. ASSUME NEW k \in Gos, Live(k), HasUp(k)
        PROVE  proc[go[k].proc].ver = conf' \/ Stopping(c)
    <2>1. ~ Stopping(call[w]) BY <1>1 DEF Stopping
    <2>2. proc[go[k].proc].ver = conf BY <1>2, <1>7, <2>1 DEF NodeInv, ProcInv, Current
    <2>3. CASE conf = call[w].cfg BY <1>1, <2>2, <2>3
    <2>4. CASE conf # call[w].cfg
      <3>1. c.changed BY <1>3, <2>4 DEF Changed
      <3> QED BY <1>3, <3>1 DEF Stopping
    <2> QED BY <2>3, <2>4
  <1> QED BY <1>1, <1>2, <1>3, <1>5, <1>6, <1>7, CallMovedNode

LEMMA LookNode ==
  ASSUME TypeInv, SupInv, NodeInv, NEW w \in Callers, Look(w) PROVE NodeInv'
  <1>1. call[w].pc = "look" /\ UNCHANGED <<panel, closed, go, proc, want, conf, cmd>>
    BY LookEffect DEF Look, instances
  <1>2. /\ panel = "up"
        /\ \A v \in Callers : v # w => call[v] = NoCall
        /\ \A v \in Callers : Stopping(call[v]) => v = w
    BY <1>1, WorkerFacts
  <1>3. PICK c : /\ NowCall(w, c)
                 /\ \/ c = NoCall /\ call[w].on /\ ~ call[w].changed
                    \/ /\ c.pc = "halt" /\ c.op = call[w].op /\ c.cfg = call[w].cfg
                       /\ c.on = call[w].on
    BY LookEffect
  <1>4. call[w].on /\ ~ call[w].changed /\ call[w].op \in {"apply", "boot"} =>
          /\ want # Nil /\ want.on /\ conf = want.ver
          /\ ~ Stopping(call[w])
    <2>1. ArgOK(call[w]) BY DEF NodeInv, ArgInv
    <2> QED BY <1>1, <2>1 DEF ArgOK, Stopping
  <1>5. call[w].op \in {"apply", "boot"}
    <2>1. call[w].op \in {"none", "apply", "boot", "remove", "stopAll"}
      BY CallFacts, Sets DEF CallType
    <2> QED BY <1>1, <2>1 DEF SupInv, InstInv, InstOK
  <1>6. ArgOK(c)'
    <2>1. ArgOK(call[w]) BY DEF NodeInv, ArgInv
    <2> QED BY <1>1, <1>3, <2>1, NoneOK DEF ArgOK
  <1>7. c.pc = "idle" => Wanting' BY <1>1, <1>3, <1>4, <1>5, NoneOK DEF Wanting
  <1>8. ASSUME NEW k \in Gos, Live(k), HasUp(k)
        PROVE  proc[go[k].proc].ver = conf' \/ Stopping(c)
    <2>1. CASE c.pc = "halt" BY <2>1 DEF Stopping
    <2>2. CASE c = NoCall
      <3>1. ~ Stopping(call[w]) BY <1>3, <1>4, <1>5, <2>2, NoneOK
      <3> QED BY <1>1, <1>2, <1>8, <3>1 DEF NodeInv, ProcInv, Current
    <2> QED BY <1>3, <2>1, <2>2
  <1> QED BY <1>1, <1>2, <1>3, <1>6, <1>7, <1>8, CallMovedNode

LEMMA HaltNode ==
  ASSUME TypeInv, Serial, SupInv, NodeInv, NEW w \in Callers, Halt(w) PROVE NodeInv'
  <1>1. call[w].pc = "halt" /\ UNCHANGED <<panel, go, want, conf>> BY DEF Halt, world
  <1>2. /\ Serves
        /\ \A v \in Callers : v # w => call[v] = NoCall
    BY <1>1, WorkerFacts
  <1>3. PICK i \in Insts : /\ i = call[w].inst
                           /\ closed' = closed \cup ({stop[i]} \ {Nil})
    BY HaltEffect
  <1>4. PICK c : /\ NowCall(w, c)
                 /\ c.pc = "wait" /\ c.took = cmd[i]
                 /\ c.op = call[w].op /\ c.cfg = call[w].cfg
                 /\ c.on = call[w].on
    BY <1>3, HaltEffect
  <1>5. \A k \in Gos : ~ Live(k)' BY HaltSup
  <1>6. \A j \in Gos : go[j].proc \in Procs \cup {Nil} BY GoFacts DEF GoType
  <1>7. \A p \in Procs : Up(p)' => Up(p) BY HaltEffect DEF NoneCame, Up
  <1>8. ArgInv'
    <2>1. ArgOK(call[w]) BY DEF NodeInv, ArgInv
    <2>2. ArgOK(c)' BY <1>1, <1>4, <2>1 DEF ArgOK
    <2>3. ArgOK(NoCall)' BY NoneOK DEF ArgOK
    <2>4. ASSUME NEW v \in Callers PROVE ArgOK(call[v])'
      <3>1. CASE v = w BY <1>4, <2>2, <3>1 DEF NowCall, ArgOK
      <3>2. CASE v # w BY <1>2, <1>4, <2>3, <3>2 DEF NowCall, ArgOK
      <3> QED BY <3>1, <3>2
    <2> QED BY <2>4 DEF ArgInv
  <1>9. LiveWanted' /\ Shown' /\ Current' BY <1>5 DEF LiveWanted, Shown, Current
  <1>10. Owned' BY <1>1, <1>7 DEF NodeInv, ProcInv, Owned
  <1>11. OneOwner' BY <1>1 DEF NodeInv, ProcInv, OneOwner
  <1>12. NoneLeft' BY <1>4 DEF NoneLeft, Left, Busy, NowCall
  <1>13. Awaited'
    <2> SUFFICES ASSUME NEW k \in Gos, k \in closed', HasUp(k)'
                 PROVE  \E v \in Callers : call'[v].pc = "wait" /\ call'[v].took = go'[k].proc
      BY DEF Awaited
    <2>1. HasUp(k) BY <1>1, <1>6, <1>7 DEF HasUp, Up
    <2>2. k \notin closed BY <1>1, <1>2, <2>1, NoneAwaited
    <2>3. stop[i] = k /\ k # Nil BY <1>3, <2>2
    <2>4. go[k].pc # "none" BY <2>1, GoFacts, NoneOK DEF HasUp, GoOK
    <2>5. Live(k) BY <2>2, <2>4 DEF Live
    <2>6. go[k].inst = i /\ go[k].pc # "publish"
      <3>1. go[k].inst = i BY <1>2, <2>3 DEF SupInv, LiveInv, ChannelLive
      <3>2. ~ InWindow(i) BY <1>3, HaltEffect, SerialMeans
      <3> QED BY <3>1, <3>2 DEF InWindow
    <2>7. go[k].pc = "wait" BY <2>1, <2>6, GoFacts DEF HasUp, GoOK
    <2>8. cmd[i] = go[k].proc BY <2>5, <2>6, <2>7 DEF NodeInv, ProcInv, Shown
    <2> QED BY <1>1, <1>4, <2>8 DEF NowCall
  <1> QED BY <1>8, <1>9, <1>10, <1>11, <1>12, <1>13 DEF NodeInv, ProcInv

LEMMA WaitGoneNode ==
  ASSUME TypeInv, SupInv, NodeInv, NEW w \in Callers, WaitGone(w) PROVE NodeInv'
  <1>1. call[w].pc = "wait" /\ UNCHANGED <<closed, go, proc, want, conf, cmd>>
    BY WaitGoneEffect DEF WaitGone, instances
  <1>2. \A v \in Callers : v # w => call[v] = NoCall BY <1>1, WorkerFacts
  <1>3. call[w].took = Nil \/ ~ Up(call[w].took)
    BY NoneOK DEF WaitGone, Ended, Up
  <1>4. \A k \in Gos : ~ Live(k) BY <1>1 DEF SupInv, LiveInv, NoneLive, Halted
  <1>5. \A p \in Procs : ~ Up(p)
    <2>1. \A k \in Gos : k \in closed => ~ HasUp(k) BY <1>2, <1>3, NoneAwaited
    <2> QED BY <1>4, <2>1, NoneUp
  <1>6. PICK c : /\ NowCall(w, c)
                 /\ \/ c = NoCall
                    \/ /\ c.op = call[w].op /\ c.cfg = call[w].cfg
                       /\ c.on = call[w].on
                       /\ \/ c.pc = "rmdir" /\ c.op = "remove"
                          \/ c.pc = "go" /\ c.op \notin {"remove", "stopAll"} /\ c.on
    BY WaitGoneEffect
  <1>7. ArgOK(c)'
    <2>1. ArgOK(call[w]) BY DEF NodeInv, ArgInv
    <2> QED BY <1>1, <1>6, <2>1, NoneOK DEF ArgOK
  <1> QED BY <1>1, <1>2, <1>3, <1>4, <1>5, <1>6, <1>7, CallMovedNode

LEMMA SpawnNode ==
  ASSUME TypeInv, SupInv, NodeInv, NEW w \in Callers, Spawn(w) PROVE NodeInv'
  <1>1. call[w].pc = "go" /\ UNCHANGED <<panel, closed, proc, want, conf, cmd>>
    BY DEF Spawn, world, instances
  <1>2. /\ panel = "up"
        /\ \A v \in Callers : v # w => call[v] = NoCall
    BY <1>1, WorkerFacts
  <1>3. NowCall(w, NoCall) BY SpawnEffect
  <1>4. PICK k \in FreeGos : \E g : NowGo(k, g) /\ g.pc = "init" /\ g.proc = Nil BY SpawnEffect
  <1>5. PICK g : NowGo(k, g) /\ g.pc = "init" /\ g.proc = Nil BY <1>4
  <1>6. k \in Gos /\ go[k] = NoGo /\ k \notin closed BY DEF FreeGos
  <1>7. \A j \in Gos : go'[j].proc = go[j].proc /\ (HasUp(j)' <=> HasUp(j))
    BY <1>1, <1>5, <1>6, NoneOK DEF NowGo, HasUp, Up
  <1>8. \A j \in Gos : ~ Live(j) BY <1>1 DEF SupInv, LiveInv, NoneLive, Halted
  <1>9. \A j \in Gos : Live(j)' => j = k BY <1>1, <1>5, <1>8 DEF Live, NowGo
  <1>10. ~ HasUp(k)' BY <1>5 DEF HasUp, NowGo
  <1>11. ArgInv'
    <2>1. \A v \in Callers : call'[v] = NoCall BY <1>2, <1>3 DEF NowCall
    <2> QED BY <2>1, NoneOK DEF ArgInv, ArgOK
  <1>12. Wanting
    <2>1. call[w].op \in {"apply", "boot"}
      <3>1. call[w].op \in {"none", "apply", "boot", "remove", "stopAll"}
        BY CallFacts, Sets DEF CallType
      <3> QED BY <1>1, <3>1 DEF SupInv, InstInv, InstOK
    <2> QED BY <1>1, <2>1 DEF NodeInv, ArgInv, ArgOK, Wanting
  <1>13. LiveWanted' BY <1>1, <1>12 DEF LiveWanted, Wanting
  <1>14. Owned' /\ OneOwner' BY <1>1, <1>7 DEF NodeInv, ProcInv, Owned, OneOwner, Up
  <1>15. Shown' BY <1>5, <1>9 DEF Shown, NowGo
  <1>16. Awaited'
    <2>1. \A j \in Gos : j \in closed => ~ HasUp(j) BY <1>1, <1>2, NoneAwaited
    <2> QED BY <1>1, <1>7, <2>1 DEF Awaited
  <1>17. Current' BY <1>9, <1>10 DEF Current
  <1>18. NoneLeft' BY <1>1, <1>2 DEF NoneLeft, Left
  <1> QED BY <1>11, <1>13, <1>14, <1>15, <1>16, <1>17, <1>18 DEF NodeInv, ProcInv

LEMMA RemoveNode ==
  ASSUME TypeInv, SupInv, NodeInv, NEW w \in Callers, Unmap(w) \/ RemoveDir(w) \/ DropRow(w)
  PROVE  NodeInv'
  <1>1. call[w].pc \in {"unmap", "rmdir", "drop"} /\ UNCHANGED <<panel, closed, go, proc, cmd>>
    BY DropRowEffect DEF Unmap, RemoveDir, DropRow, world, instances
  <1>2. /\ panel = "up"
        /\ \A v \in Callers : v # w => call[v] = NoCall
        /\ \A v \in Callers : Stopping(call[v]) => v = w
    BY <1>1, WorkerFacts
  <1>3. call[w].op = "remove"
    <2>1. call[w].op \in {"none", "apply", "boot", "remove", "stopAll"}
      BY CallFacts, Sets DEF CallType
    <2> QED BY <1>1, <2>1 DEF SupInv, InstInv, InstOK
  <1>4. \A k \in Gos : Live(k) /\ HasUp(k) => proc[go[k].proc].ver = conf
    <2>1. ~ Stopping(call[w]) BY <1>1 DEF Stopping
    <2> QED BY <1>2, <2>1 DEF NodeInv, ProcInv, Current
  <1>5. CASE Unmap(w)
    <2>1. PICK c : /\ NowCall(w, c) /\ c.op = call[w].op
                   /\ c.pc = IF pool = Nil THEN "drop" ELSE "halt"
      BY <1>5, UnmapEffect
    <2>2. conf' = conf BY <1>5 DEF Unmap
    <2>3. ArgOK(c)' BY <1>3, <2>1 DEF ArgOK
    <2> QED BY <1>1, <1>2, <1>4, <2>1, <2>2, <2>3, CallMovedNode
  <1>6. CASE RemoveDir(w) \/ DropRow(w)
    <2>1. \A k \in Gos : ~ Live(k) BY <1>6 DEF RemoveDir, DropRow, SupInv, LiveInv, NoneLive, Halted
    <2>2. PICK c : NowCall(w, c) /\ ArgOK(c)'
      <3>1. CASE RemoveDir(w)
        <4>1. PICK c : NowCall(w, c) /\ c.op = call[w].op BY <3>1, RemoveDirEffect
        <4> QED BY <1>3, <4>1 DEF ArgOK
      <3>2. CASE DropRow(w)
        <4>1. ArgOK(NoCall)' BY NoneOK DEF ArgOK
        <4> QED BY <3>2, <4>1, DropRowEffect
      <3> QED BY <1>6, <3>1, <3>2
    <2> QED BY <1>1, <1>2, <2>1, <2>2, CallMovedNode
  <1> QED BY <1>5, <1>6

\* A goroutine that has no process yet, or none any more.
LEMMA GoBareNode ==
  ASSUME TypeInv, NodeInv, NEW k \in Gos,
         GoInit(k) \/ GoCheck(k) \/ GoReap(k) \/ GoStartFails(k)
  PROVE  NodeInv'
  <1>1. go[k].proc = Nil /\ go[k].pc # "none"
    BY GoFacts DEF GoOK, GoInit, GoCheck, GoReap, GoStartFails
  <1>2. UNCHANGED <<call, panel, want, conf, cmd>>
    BY DEF GoInit, GoCheck, GoReap, GoStartFails, world, instances
  <1>3. CASE GoInit(k)
    <2>1. PICK g : NowGo(k, g) /\ g.pc = "begin" /\ g.proc = Nil BY <1>1, <1>3, GoInitEffect
    <2>2. NoneCame /\ closed' = closed BY <1>3 DEF GoInit, NoneCame
    <2>3. \A j \in Gos : Live(j)' => Live(j) BY <1>1, <2>1, <2>2 DEF Live, NowGo
    <2> QED BY <1>1, <1>2, <2>1, <2>2, <2>3, GoMovedNode
  <1>4. CASE GoCheck(k)
    <2>1. PICK g : NowGo(k, g) /\ g.pc # "wait" /\ g.proc = Nil BY <1>1, <1>4, GoCheckEffect, NoneOK
    <2>2. NoneCame BY <1>4 DEF GoCheck, NoneCame
    <2>3. \A j \in Gos : j # k /\ j \in closed' => j \in closed BY <1>4, GoCheckEffect
    <2>4. \A j \in Gos : Live(j)' => Live(j)
      <3>1. CASE k \in closed
        <4>1. NowGo(k, NoGo) /\ closed' = closed \ {k} BY <1>4, <3>1, GoCheckEffect
        <4> QED BY <4>1, NoneOK DEF Live, NowGo
      <3>2. CASE k \notin closed
        <4>1. closed' = closed BY <1>4, <3>2, GoCheckEffect
        <4> QED BY <1>1, <2>1, <3>2, <4>1 DEF Live, NowGo
      <3> QED BY <3>1, <3>2
    <2> QED BY <1>1, <1>2, <2>1, <2>2, <2>3, <2>4, GoMovedNode
  <1>5. CASE GoReap(k)
    <2>1. PICK g : NowGo(k, g) /\ g.pc = "start" /\ g.proc = Nil BY <1>1, <1>5, GoReapEffect
    <2>2. NoneCame /\ closed' = closed BY <1>5, GoReapEffect DEF GoReap
    <2>3. \A j \in Gos : Live(j)' => Live(j) BY <1>1, <2>1, <2>2 DEF Live, NowGo
    <2> QED BY <1>1, <1>2, <2>1, <2>2, <2>3, GoMovedNode
  <1>6. CASE GoStartFails(k)
    <2>1. PICK g : NowGo(k, g) /\ g.pc = "check" /\ g.proc = Nil BY <1>1, <1>6, GoStartFailsEffect
    <2>2. NoneCame /\ closed' = closed BY <1>6 DEF GoStartFails, NoneCame
    <2>3. \A j \in Gos : Live(j)' => Live(j) BY <1>1, <2>1, <2>2 DEF Live, NowGo
    <2> QED BY <1>1, <1>2, <2>1, <2>2, <2>3, GoMovedNode
  <1> QED BY <1>3, <1>4, <1>5, <1>6

LEMMA GoStartNode ==
  ASSUME TypeInv, SupInv, NodeInv, NEW k \in Gos, GoStart(k) PROVE NodeInv'
  <1>1. go[k].pc = "start" /\ UNCHANGED <<call, panel, want, conf, cmd, closed>>
    BY DEF GoStart, world, instances
  <1>2. ~ Left
    <2>1. Live(k) BY <1>1 DEF SupInv, LiveInv, ToldInv, Told, Live
    <2> QED BY <2>1 DEF SupInv, LiveInv, NoneLive
  <1>3. PICK p \in FreeProcs :
              /\ proc'[p].st # "none" /\ proc'[p].ver = conf
              /\ \A q \in Procs : q # p => proc'[q] = proc[q]
              /\ \E g : NowGo(k, g) /\ g.pc = "publish" /\ g.proc = p
    BY GoStartEffect
  <1>4. PICK g : NowGo(k, g) /\ g.pc = "publish" /\ g.proc = p BY <1>3
  <1>5. p \in Procs /\ p # Nil /\ \A j \in Gos : go[j].proc # p BY NilFacts DEF FreeProcs
  <1>6. go[k].proc = Nil BY <1>1, GoFacts DEF GoOK
  <1>7. \A j \in Gos : go[j].proc \in Procs \cup {Nil} BY GoFacts DEF GoType
  <1>8. \A j \in Gos : j # k => go'[j] = go[j] BY <1>4 DEF NowGo
  <1>9. go'[k].proc = p /\ go'[k].pc = "publish" BY <1>4 DEF NowGo
  <1>10. \A j \in Gos : (Live(j)' <=> Live(j)) /\ (j # k => (HasUp(j)' <=> HasUp(j)))
    <2>1. \A j \in Gos : Live(j)' <=> Live(j) BY <1>1, <1>8, <1>9 DEF Live
    <2>2. \A j \in Gos : j # k => (HasUp(j)' <=> HasUp(j)) BY <1>3, <1>5, <1>7, <1>8 DEF HasUp, Up
    <2> QED BY <2>1, <2>2
  <1>11. ArgInv' BY <1>1 DEF NodeInv, ArgInv, ArgOK
  <1>12. LiveWanted' BY <1>1, <1>10 DEF NodeInv, LiveWanted, Busy, Wanting
  <1>13. Owned'
    <2> SUFFICES ASSUME NEW q \in Procs, Up(q)' PROVE \E j \in Gos : go'[j].proc = q
      BY DEF Owned
    <2>1. CASE q = p BY <1>9, <2>1
    <2>2. CASE q # p
      <3>1. Up(q) BY <1>3, <2>2 DEF Up
      <3>2. PICK j \in Gos : go[j].proc = q BY <3>1 DEF NodeInv, ProcInv, Owned
      <3>3. j # k BY <1>6, <3>2, NilFacts
      <3> QED BY <1>8, <3>2, <3>3
    <2> QED BY <2>1, <2>2
  <1>14. OneOwner' BY <1>5, <1>8, <1>9 DEF NodeInv, ProcInv, OneOwner
  <1>15. Shown' BY <1>1, <1>8, <1>9, <1>10 DEF NodeInv, ProcInv, Shown
  <1>16. Awaited'
    <2>1. k \notin closed BY <1>1 DEF SupInv, LiveInv, ToldInv, Told
    <2> QED BY <1>1, <1>8, <1>10, <2>1 DEF NodeInv, ProcInv, Awaited
  <1>17. Current'
    <2> SUFFICES ASSUME NEW j \in Gos, Live(j)', HasUp(j)'
                 PROVE  proc'[go'[j].proc].ver = conf \/ \E w \in Callers : Stopping(call[w])
      BY <1>1 DEF Current, Stopping
    <2>1. CASE j = k BY <1>3, <1>9, <2>1
    <2>2. CASE j # k
      <3>1. HasUp(j) /\ Live(j) /\ go'[j] = go[j] BY <1>8, <1>10, <2>2
      <3>2. go[j].proc \in Procs /\ go[j].proc # p BY <1>5, <1>7, <3>1 DEF HasUp
      <3>3. proc'[go'[j].proc] = proc[go[j].proc] BY <1>3, <3>1, <3>2
      <3> QED BY <3>1, <3>3 DEF NodeInv, ProcInv, Current
    <2> QED BY <2>1, <2>2
  <1>18. NoneLeft' BY <1>1, <1>2, SameLeft DEF NoneLeft
  <1> QED BY <1>11, <1>12, <1>13, <1>14, <1>15, <1>16, <1>17, <1>18 DEF NodeInv, ProcInv

LEMMA GoPublishNode ==
  ASSUME TypeInv, SupInv, NodeInv, NEW k \in Gos, GoPublish(k) PROVE NodeInv'
  <1>1. go[k].pc = "publish" /\ UNCHANGED <<call, panel, want, conf, closed, proc>>
    BY DEF GoPublish, world
  <1>2. PICK i \in Insts : i = go[k].inst /\ cmd' = [cmd EXCEPT ![i] = go[k].proc] BY GoPublishEffect
  <1>3. PICK g : NowGo(k, g) /\ g.pc = "wait" /\ g.inst = i /\ g.proc = go[k].proc BY <1>2, GoPublishEffect
  <1>4. \A j \in Gos : /\ go'[j].proc = go[j].proc
                       /\ (Live(j)' <=> Live(j)) /\ (HasUp(j)' <=> HasUp(j))
    BY <1>1, <1>3 DEF NowGo, Live, HasUp, Up
  <1>5. k \notin closed /\ Live(k) BY <1>1 DEF SupInv, LiveInv, ToldInv, Told, Live
  <1>6. cmd \in [Insts -> Procs \cup {Nil}] BY TypeParts DEF InstancesOK
  <1>7. ArgInv' BY <1>1 DEF NodeInv, ArgInv, ArgOK
  <1>8. LiveWanted' BY <1>1, <1>4 DEF NodeInv, LiveWanted, Busy, Wanting
  <1>9. Owned' /\ OneOwner' BY <1>1, <1>4 DEF NodeInv, ProcInv, Owned, OneOwner, Up
  <1>10. Shown'
    <2>1. \A j \in Gos : Live(j)' => j = k BY <1>4, <1>5 DEF SupInv, LiveInv, OneLive
    <2>2. cmd'[go'[k].inst] = go'[k].proc BY <1>2, <1>3, <1>6 DEF NowGo
    <2> QED BY <2>1, <2>2 DEF Shown
  <1>11. Awaited' BY <1>1, <1>4 DEF NodeInv, ProcInv, Awaited
  <1>12. Current' BY <1>1, <1>4 DEF NodeInv, ProcInv, Current, Stopping
  <1>13. NoneLeft' BY <1>1, SameLeft DEF NodeInv, ProcInv, NoneLeft, Up
  <1> QED BY <1>7, <1>8, <1>9, <1>10, <1>11, <1>12, <1>13 DEF NodeInv, ProcInv

LEMMA GoWaitNode ==
  ASSUME TypeInv, NodeInv, NEW k \in Gos, GoWait(k) PROVE NodeInv'
  <1>1. /\ go[k].pc = "wait" /\ proc[go[k].proc] = NoProc
        /\ UNCHANGED <<call, panel, want, conf, closed, proc>>
    BY DEF GoWait, world
  <1>2. PICK g : NowGo(k, g) /\ g.pc = "check" /\ g.inst = go[k].inst /\ g.proc = Nil BY GoWaitEffect
  <1>3. \A i \in Insts : cmd[i] # go[k].proc => cmd'[i] = cmd[i] BY GoWaitEffect
  <1>4. ~ Up(go[k].proc) BY <1>1, NoneOK DEF Up
  <1>5. \A j \in Gos : j # k => go'[j] = go[j] BY <1>2 DEF NowGo
  <1>6. go'[k].proc = Nil /\ go'[k].pc = "check" BY <1>2 DEF NowGo
  <1>7. \A j \in Gos : Live(j)' <=> Live(j) BY <1>1, <1>5, <1>6 DEF Live
  <1>8. \A j \in Gos : HasUp(j)' => HasUp(j) /\ j # k BY <1>1, <1>5, <1>6 DEF HasUp, Up
  <1>9. ArgInv' BY <1>1 DEF NodeInv, ArgInv, ArgOK
  <1>10. LiveWanted' BY <1>1, <1>7 DEF NodeInv, LiveWanted, Busy, Wanting
  <1>11. Owned'
    <2> SUFFICES ASSUME NEW q \in Procs, Up(q) PROVE \E j \in Gos : go'[j].proc = q
      BY <1>1 DEF Owned, Up
    <2>1. PICK j \in Gos : go[j].proc = q BY DEF NodeInv, ProcInv, Owned
    <2>2. j # k BY <1>4, <2>1
    <2> QED BY <1>5, <2>1, <2>2
  <1>12. OneOwner' BY <1>5, <1>6 DEF NodeInv, ProcInv, OneOwner
  <1>13. Shown'
    <2> SUFFICES ASSUME NEW j \in Gos, Live(j), go'[j].pc = "wait" PROVE cmd'[go'[j].inst] = go'[j].proc
      BY <1>7 DEF Shown
    <2>1. j # k /\ go'[j] = go[j] BY <1>5, <1>6
    <2>2. go[j].inst \in Insts /\ go[j].proc # Nil BY <2>1, GoFacts DEF GoOK
    <2>3. cmd[go[j].inst] = go[j].proc BY <2>1 DEF NodeInv, ProcInv, Shown
    <2>4. go[j].proc # go[k].proc BY <2>1, <2>2 DEF NodeInv, ProcInv, OneOwner
    <2> QED BY <1>3, <2>1, <2>2, <2>3, <2>4
  <1>14. Awaited' BY <1>1, <1>5, <1>8 DEF NodeInv, ProcInv, Awaited
  <1>15. Current' BY <1>1, <1>5, <1>7, <1>8 DEF NodeInv, ProcInv, Current, Stopping
  <1>16. NoneLeft' BY <1>1, SameLeft DEF NodeInv, ProcInv, NoneLeft, Up
  <1> QED BY <1>9, <1>10, <1>11, <1>12, <1>13, <1>14, <1>15, <1>16 DEF NodeInv, ProcInv

LEMMA ProcessNode ==
  ASSUME TypeInv, NodeInv, NEW p \in Procs, Bind(p) \/ Close(p) \/ Exit(p) PROVE NodeInv'
  BY BindEffect, CloseEffect, ExitEffect, ProcMovedNode DEF Bind, Close, Exit, world, instances

\* The pass, the quota and a stutter leave the calls, the goroutines and the processes as they are.
LEMMA FrameNode ==
  ASSUME TypeInv, NodeInv, UNCHANGED <<call, panel, want, conf, cmd, go, closed, proc>> PROVE NodeInv'
  BY ProcMovedNode DEF NoneCame

\* With nobody at work each process serves the file.
LEMMA IdleCurrent ==
  ASSUME NodeInv, \A v \in Callers : call[v] = NoCall, NEW k \in Gos, Live(k), HasUp(k)
  PROVE  proc[go[k].proc].ver = conf
  BY NoneOK DEF NodeInv, ProcInv, Current, Stopping

LEMMA SamplerNode ==
  ASSUME TypeInv, SupInv, NodeInv, Sampler PROVE NodeInv'
  <1>1. CASE PassNodes \/ PassStats
    BY <1>1, FrameNode DEF PassNodes, PassStats, world, instances
  <1>2. CASE PassDecide
    <2>1. pass # NoPass BY <1>2, PassDecideEffect
    <2>2. /\ \A w \in Callers : call[w] = NoCall
          /\ \A w \in Callers : ~ Busy(w)
          /\ panel = "up" /\ pass.held = want
      BY <2>1, CallFacts DEF SupInv, TurnInv
    <2>3. UNCHANGED <<panel, closed, go, proc, cmd, want, conf>> BY <1>2 DEF PassDecide, world, instances
    <2>4. "sampler" \in Callers BY DEF Callers
    <2>5. call["sampler"].pc # "wait" BY <2>2, <2>4, NoneOK
    <2>6. \A k \in Gos : Live(k) => Wanting BY <2>2 DEF NodeInv, LiveWanted
    <2>7. PICK c : NowCall("sampler", c) /\ ArgOK(c)'
      <3>1. CASE NowCall("sampler", NoCall) BY <3>1, NoneOK DEF ArgOK
      <3>2. ASSUME NEW n, NowCall("sampler", Applying("apply", n)), n.on \in BOOLEAN,
                   n.ver \in Vers \cup {Blank, Nil}, n.on => n = pass.held
            PROVE  \E c : NowCall("sampler", c) /\ ArgOK(c)'
        <4>1. PICK a : a = Applying("apply", n) OBVIOUS
        <4>2. a.pc = "conf" /\ a.cfg = n.ver BY <3>2, <4>1, ApplyingOK
        <4>3. a.on = n.on BY <3>2, <4>1, ApplyingOK
        <4>4. want # Nil
          <5>1. want \in Node
            <6>1. pass.pc # "idle"  BY <1>2 DEF PassDecide
            <6> QED BY <2>2, <6>1, TypeParts DEF PassOK
          <5> QED BY <5>1, NilFacts
        <4>5. a.on => want # Nil /\ want.on /\ want.ver = a.cfg BY <2>2, <3>2, <4>2, <4>3, <4>4
        <4>6. ArgOK(a)' BY <2>3, <4>2, <4>5 DEF ArgOK
        <4> QED BY <3>2, <4>1, <4>6
      <3> QED BY <1>2, <3>1, <3>2, PassDecideEffect
    <2>8. \A k \in Gos : Live(k) => Wanting' BY <2>3, <2>6 DEF Wanting
    <2>9. \A k \in Gos : Live(k) /\ HasUp(k) => proc[go[k].proc].ver = conf' BY <2>2, <2>3, IdleCurrent
    <2> QED BY <2>2, <2>3, <2>4, <2>5, <2>7, <2>8, <2>9, CallMovedNode
  <1> QED BY <1>1, <1>2 DEF Sampler

LEMMA HandlerNode ==
  ASSUME TypeInv, Serial, SupInv, NodeInv, Toggle \/ Update \/ Delete PROVE NodeInv'
  <1>1. MayCall BY DEF Toggle, Update, Delete, MayHandle
  <1>2. /\ panel = "up"
        /\ \A v \in Callers : call[v] = NoCall
    BY <1>1, MayCallFacts
  <1>3. UNCHANGED <<panel, closed, go, proc, cmd, conf>>
    BY DEF Toggle, Update, Delete, SaveAndApply, instances
  <1>4. "handler" \in Callers BY DEF Callers
  <1>5. call["handler"].pc # "wait" BY <1>2, <1>4, NoneOK
  <1>6. PICK c : NowCall("handler", c) /\ c.pc # "idle" /\ ArgOK(c)'
    <2>1. CASE Toggle \/ Update
      <3>1. want' \in Node /\ NowCall("handler", Applying("apply", want'))
        BY <2>1, ToggleEffect, UpdateEffect
      <3>2. PICK n \in Node : n = want' BY <3>1
      <3>3. n.on \in BOOLEAN /\ n.ver \in Vers \cup {Blank, Nil} BY NodeOK
      <3>4. PICK a : a = Applying("apply", n) OBVIOUS
      <3>5. a.pc = "conf" /\ a.cfg = n.ver BY <3>3, <3>4, ApplyingOK
      <3>6. a.on = n.on BY <3>3, <3>4, ApplyingOK
      <3>7. a.on => want' # Nil /\ want'.on /\ want'.ver = a.cfg BY <3>2, <3>5, <3>6, NilFacts
      <3>8. ArgOK(a)' BY <3>5, <3>7 DEF ArgOK
      <3> QED BY <3>1, <3>2, <3>4, <3>5, <3>8
    <2>2. CASE Delete
      <3>1. PICK c : NowCall("handler", c) /\ c.pc = "unmap" /\ c.op = "remove" BY <2>2, DeleteEffect
      <3> QED BY <3>1 DEF ArgOK
    <2> QED BY <2>1, <2>2
  <1>7. \A k \in Gos : Live(k) /\ HasUp(k) => proc[go[k].proc].ver = conf' BY <1>2, <1>3, IdleCurrent
  <1> QED BY <1>2, <1>3, <1>4, <1>5, <1>6, <1>7, CallMovedNode

LEMMA StopPanelNode ==
  ASSUME TypeInv, Serial, SupInv, NodeInv, StopPanel PROVE NodeInv'
  <1>1. /\ \A v \in Callers : call[v] = NoCall
        /\ UNCHANGED <<closed, go, proc, cmd, want, conf>>
    BY StopPanelFacts
  <1>2. "handler" \in Callers BY DEF Callers
  <1>3. call["handler"].pc # "wait" BY <1>1, <1>2, NoneOK
  <1>4. \A k \in Gos : Live(k) /\ HasUp(k) => proc[go[k].proc].ver = conf' BY <1>1, IdleCurrent
  <1>5. CASE pool = Nil /\ UNCHANGED call
    <2>1. \A k \in Gos : ~ Live(k) BY <1>1, <1>5, NobodyToStop
    <2>2. \A k \in Gos : k \in closed => ~ HasUp(k) BY <1>1, <1>2, <1>3, NoneAwaited
    <2>3. \A p \in Procs : ~ Up(p) BY <2>1, <2>2, NoneUp
    <2>4. NowCall("handler", NoCall) BY <1>1, <1>2, <1>5, NoneOK DEF NowCall, CallOK
    <2>5. ArgOK(NoCall)' BY NoneOK DEF ArgOK
    <2> QED BY <1>1, <1>2, <1>3, <1>4, <2>1, <2>3, <2>4, <2>5, CallMovedNode
  <1>6. CASE ~ (pool = Nil /\ UNCHANGED call)
    <2>1. PICK c : NowCall("handler", c) /\ c.pc = "halt" /\ c.op = "stopAll" BY <1>6, StopPanelEffect
    <2>2. ArgOK(c)' BY <2>1 DEF ArgOK
    <2> QED BY <1>1, <1>2, <1>3, <1>4, <2>1, <2>2, CallMovedNode
  <1> QED BY <1>5, <1>6

\* main returns after StopAll has.
LEMMA MainReturnsNode ==
  ASSUME TypeInv, SupInv, NodeInv, MainReturns PROVE NodeInv'
  <1>1. panel = "leaving" /\ call["handler"] = NoCall /\ UNCHANGED proc BY DEF MainReturns, Idle
  <1>2. \A w \in Callers : ~ Busy(w)
    <2>1. ~ Busy("handler") BY <1>1, NoneOK DEF Busy
    <2>2. ~ Busy("sampler") BY <1>1 DEF SupInv, TurnInv, Callers
    <2> QED BY <2>1, <2>2 DEF Callers
  <1>3. \A p \in Procs : ~ Up(p) BY <1>1, <1>2 DEF NodeInv, ProcInv, NoneLeft, Left
  <1> QED BY <1>1, <1>3, MainReturnsEffect, GoneNode

LEMMA BootNode ==
  ASSUME TypeInv, SupInv, NodeInv, Boot PROVE NodeInv'
  <1>1. ~ Serves /\ panel' = "up" /\ closed' = {} /\ UNCHANGED <<go, want, conf, proc>> BY DEF Boot, Serves
  <1>2. /\ \A w \in Callers : call[w] = NoCall
        /\ \A k \in Gos : go[k] = NoGo
    BY <1>1, CallFacts DEF SupInv, TurnInv
  <1>3. \A p \in Procs : ~ Up(p)' BY <1>1 DEF SupInv, TurnInv, NodeInv, ProcInv, NoneLeft, Left, Serves, Up
  <1>4. \A k \in Gos : go'[k].proc = Nil /\ ~ Live(k)' /\ ~ HasUp(k)' BY <1>1, <1>2, NoneOK DEF Live, HasUp
  <1>5. PICK c : NowCall("handler", c) /\ ArgOK(c)'
    <2>1. CASE NowCall("handler", NoCall) BY <2>1, NoneOK DEF ArgOK
    <2>2. CASE want \in Node /\ NowCall("handler", Applying("boot", want))
      <3>1. PICK n \in Node : n = want BY <2>2
      <3>2. n.on \in BOOLEAN /\ n.ver \in Vers \cup {Blank, Nil} BY NodeOK
      <3>3. PICK a : a = Applying("boot", n) OBVIOUS
      <3>4. a.pc = "conf" /\ a.cfg = n.ver BY <3>2, <3>3, ApplyingOK
      <3>5. a.on = n.on BY <3>2, <3>3, ApplyingOK
      <3>6. a.on => want' # Nil /\ want'.on /\ want'.ver = a.cfg BY <1>1, <3>1, <3>4, <3>5, NilFacts
      <3>7. ArgOK(a)' BY <3>4, <3>6 DEF ArgOK
      <3> QED BY <2>2, <3>1, <3>3, <3>7
    <2> QED BY <2>1, <2>2, BootEffect
  <1>6. ArgInv'
    <2>1. ArgOK(NoCall)' BY NoneOK DEF ArgOK
    <2>2. ASSUME NEW v \in Callers PROVE ArgOK(call[v])'
      <3>1. CASE v = "handler" BY <1>5, <3>1 DEF NowCall, ArgOK
      <3>2. CASE v # "handler" BY <1>2, <1>5, <2>1, <3>2 DEF NowCall, ArgOK
      <3> QED BY <3>1, <3>2
    <2> QED BY <2>2 DEF ArgInv
  <1>7. LiveWanted' BY <1>4 DEF LiveWanted
  <1>8. Owned' /\ OneOwner' /\ Shown' /\ Awaited' /\ Current' /\ NoneLeft'
    BY <1>3, <1>4 DEF Owned, OneOwner, Shown, Awaited, Current, NoneLeft
  <1> QED BY <1>6, <1>7, <1>8 DEF NodeInv, ProcInv

LEMMA InitNode ==
  ASSUME Init PROVE NodeInv
  <1>1. want \in Node /\ call["handler"] = Applying("boot", want) /\ call["sampler"] = NoCall
    BY InitTyped
  <1>2. want.on \in BOOLEAN /\ want.ver \in Vers \cup {Blank, Nil} BY <1>1, NodeOK
  <1>3. call["handler"].pc = "conf" /\ call["handler"].cfg = want.ver BY <1>1, <1>2, ApplyingOK
  <1>4. call["handler"].on = want.on BY <1>1, <1>2, ApplyingOK
  <1>5. ArgOK(call["handler"]) BY <1>1, <1>3, <1>4, NilFacts DEF ArgOK
  <1>6. ArgOK(call["sampler"]) BY <1>1, NoneOK DEF ArgOK
  <1>7. ArgInv BY <1>5, <1>6 DEF ArgInv, Callers
  <1>8. \A k \in Gos : go[k].proc = Nil /\ ~ Live(k) /\ ~ HasUp(k) BY NoneOK DEF Init, Live, HasUp
  <1>9. \A p \in Procs : ~ Up(p) BY NoneOK DEF Init, Up
  <1>10. LiveWanted /\ ProcInv
    BY <1>8, <1>9 DEF LiveWanted, ProcInv, Owned, OneOwner, Shown, Awaited, Current, NoneLeft
  <1> QED BY <1>7, <1>10 DEF NodeInv

LEMMA NextNode ==
  ASSUME TypeInv, Serial, "kill" \notin sc.env, SupInv, NodeInv, [Next]_vars PROVE NodeInv'
  <1>1. ASSUME NEW w \in Callers, Step(w) PROVE NodeInv'
    BY <1>1, WriteConfNode, LookNode, HaltNode, WaitGoneNode, SpawnNode, RemoveNode DEF Step
  <1>2. ASSUME NEW k \in Gos, Supervise(k) PROVE NodeInv'
    BY <1>2, GoBareNode, GoStartNode, GoPublishNode, GoWaitNode DEF Supervise
  <1>3. ASSUME NEW p \in Procs, Bind(p) \/ Close(p) \/ Exit(p) PROVE NodeInv'
    BY <1>3, ProcessNode
  <1>4. CASE KillPanel BY <1>4 DEF KillPanel, Event
  <1>5. CASE Quota BY <1>5, FrameNode DEF Quota, instances
  <1>6. CASE UNCHANGED vars BY <1>6, FrameNode DEF vars
  <1> QED BY <1>1, <1>2, <1>3, <1>4, <1>5, <1>6, SamplerNode, HandlerNode, StopPanelNode, MainReturnsNode, BootNode
      DEF Next

LEMMA InvHolds == Spec => []IInv
  <1>1. Init => IInv BY InitTyped, InitSup, InitNode DEF IInv
  <1>2. IInv /\ [Next]_vars => IInv'
    BY NextTyped, NextSup, NextNode, ScenarioFixed DEF IInv, Serial
  <1> QED BY <1>1, <1>2, PTL DEF Spec

\* A process belongs to a goroutine that is live once nobody is at work.
LEMMA QuietOwner ==
  ASSUME TypeInv, NodeInv, Quiet, NEW p \in Procs, Up(p)
  PROVE  \E k \in Gos : Live(k) /\ HasUp(k) /\ go[k].proc = p
  <1>1. PICK k \in Gos : go[k].proc = p BY DEF NodeInv, ProcInv, Owned
  <1>2. HasUp(k) BY <1>1, NilFacts DEF HasUp
  <1>3. go[k].pc # "none" BY <1>2, GoFacts, NoneOK DEF HasUp, GoOK
  <1>4. k \notin closed BY <1>2, NoneOK DEF NodeInv, ProcInv, Awaited, Quiet, Idle
  <1> QED BY <1>1, <1>2, <1>3, <1>4 DEF Live

\* A disabled or deleted node has no process once the switch or the deletion has
\* returned, when handlers and passes take turns, no stop falls in supervise's
\* window and no panel is killed (stopProcess, Remove).
THEOREM ReclaimedSerialHolds == Spec => []ReclaimedSerial
  <1>1. IInv => ReclaimedSerial
    <2> SUFFICES ASSUME IInv, Serial, "kill" \notin sc.env, Quiet, want = Nil \/ ~ want.on
                 PROVE  Alive = {}
      BY DEF ReclaimedSerial, Reclaimed
    <2>1. TypeInv /\ NodeInv BY DEF IInv
    <2>2. \A k \in Gos : ~ Live(k)
      BY <2>1, NoneOK DEF NodeInv, LiveWanted, Wanting, Quiet, Idle, Busy
    <2>3. \A p \in Procs : ~ Up(p) BY <2>1, <2>2, QuietOwner
    <2> QED BY <2>3 DEF Alive, Up
  <1> QED BY <1>1, InvHolds, PTL

\* Once an Apply has returned no process serves an older configuration: the file was
\* compared and written under the lock, and whoever runs was started after that.
THEOREM NoOldConfHolds == Spec => []NoOldConf
  <1>1. IInv => NoOldConf
    <2> SUFFICES ASSUME IInv, Serial, "kill" \notin sc.env, Quiet, want # Nil,
                        NEW p \in Procs, proc[p].st = "listening"
                 PROVE  proc[p].ver = want.ver
      BY DEF NoOldConf
    <2>1. TypeInv /\ NodeInv BY DEF IInv
    <2>2. Up(p) BY DEF Up
    <2>3. PICK k \in Gos : Live(k) /\ HasUp(k) /\ go[k].proc = p BY <2>1, <2>2, QuietOwner
    <2>4. conf = want.ver
      BY <2>1, <2>3, NoneOK DEF NodeInv, LiveWanted, Wanting, Quiet, Idle, Busy
    <2>5. \A w \in Callers : call[w] = NoCall BY DEF Quiet, Idle
    <2> QED BY <2>1, <2>3, <2>4, <2>5, IdleCurrent
  <1> QED BY <1>1, InvHolds, PTL

\* When StopAll has returned, and main with it, no sing-box is left.
THEOREM StopAllCleanHolds == Spec => []StopAllClean
  <1>1. IInv => StopAllClean
    <2> SUFFICES ASSUME IInv, Serial, panel = "stopped", "kill" \notin sc.env
                 PROVE  Alive = {}
      BY DEF StopAllClean, NothingLeft
    <2>1. \A p \in Procs : ~ Up(p) BY DEF IInv, SupInv, TurnInv, NodeInv, ProcInv, NoneLeft, Left, Serves
    <2> QED BY <2>1 DEF Alive, Up
  <1> QED BY <1>1, InvHolds, PTL
=============================================================================

----------------------------- MODULE GostProofs -----------------------------
(***************************************************************************)
(* Theorems about gost: its process (GostSupervisor) and its quota         *)
(* (QuotaWindows).                                                         *)
(*                                                                         *)
(* Of the process: its types, and what holds of it as long as the admin    *)
(* asks for no restart.  Of the quota: its types, and that no byte is      *)
(* charged twice.  The sums of hourly points are a recursive function over *)
(* the integers; that the function exists and is positive, monotone and    *)
(* additive is proved first, by well-founded induction on the hours.       *)
(***************************************************************************)
EXTENDS GostSupervisor, QuotaWindows, FiniteSetTheorems, WellFoundedInduction, TLAPS

-----------------------------------------------------------------------------
(* The process of gost (GostSupervisor).                                   *)

\* Main calls Stop once, at the end, and never Restart.
MainCall == call[Root].pc \in {"boot", "serving", "flag", "find", "term", "closing", "exited"}

NoProcess == {"none", "check", "start", "decide", "backoff", "done"}

\* Where the process of main's goroutine is, by the step the goroutine is at.
ProcessAt(g) ==
    /\ g.pc \in NoProcess => alive = {} /\ cmd = Nil /\ g.proc = Nil
    /\ g.pc = "publish" => alive \subseteq {g.proc} /\ cmd = Nil
    /\ g.pc = "wait" => alive \subseteq {g.proc} /\ cmd = g.proc
    /\ g.pc = "clear" => alive = {} /\ cmd = g.proc

\* Without requests nobody but main calls, and main starts one goroutine, which is the only one.
Alone ==
    /\ \A c \in Reqs : sup[c].pc = "none" /\ call[c].pc = "idle"
    /\ call[Root].pc = "boot" => sup[Root].pc = "none"
    /\ ProcessAt(sup[Root])

\* Without requests the flag stays set once main has set it; and a process that main's Stop has
\* found was signalled, and is the last one.
FoundStops(call0, g) ==
    /\ call0.pc \in {"boot", "serving", "flag", "find"} => call0.proc = Nil
    /\ call0.pc \in {"find", "term", "closing", "exited"} => stopping
    /\ call0.proc # Nil => g.pc \in {"wait", "clear", "decide", "done"} /\ alive \subseteq dying

Stopped == FoundStops(call[Root], sup[Root])

TypeInv == TypeOK /\ MainCall
IInv == TypeInv /\ (sc.reqs = {} => Alone /\ Stopped)

-----------------------------------------------------------------------------
(* Types *)

LEMMA TypeInit == Init => TypeInv
<1> SUFFICES ASSUME Init PROVE TypeInv
  OBVIOUS
<1>1. sup \in [Ctxs -> [pc : SupPcs, proc : Procs \cup {Nil}]]
  BY DEF Init, SupPcs
<1>2. \A c \in Ctxs : [pc |-> IF c = Root THEN "boot" ELSE "idle", proc |-> Nil]
                         \in [pc : CallPcs, proc : Procs \cup {Nil}]
  BY DEF CallPcs
<1>3. call \in [Ctxs -> [pc : CallPcs, proc : Procs \cup {Nil}]]
  BY <1>2 DEF Init
<1>4. MainCall
  BY DEF Init, MainCall, Ctxs
<1> QED
  BY <1>1, <1>3, <1>4 DEF Init, TypeInv, TypeOK

LEMMA TypeProcExit == TypeInv /\ (\E p \in Procs : ProcExit(p)) => TypeInv'
  BY DEF TypeInv, TypeOK, MainCall, ProcExit

\* A step of supervise keeps the types.
LEMMA TypeSupervise ==
  ASSUME TypeInv, NEW c \in Ctxs, Supervise(c)
  PROVE  TypeInv'
<1> USE DEF TypeInv, TypeOK, MainCall, SupPcs, GoTo
<1>1. CASE SupCheck(c)
  BY <1>1 DEF SupCheck
<1>2. CASE SupStart(c)
  <2>1. PICK p \in Procs : alive' = alive \cup {p} /\ sup' = [sup EXCEPT ![c] = [pc |-> "publish", proc |-> p]]
    BY <1>2 DEF SupStart
  <2> QED
    BY <1>2, <2>1 DEF SupStart
<1>3. CASE SupStartFail(c)
  BY <1>3 DEF SupStartFail
<1>4. CASE SupPublish(c)
  BY <1>4 DEF SupPublish
<1>5. CASE SupWait(c)
  BY <1>5 DEF SupWait
<1>6. CASE SupClear(c)
  BY <1>6 DEF SupClear
<1>7. CASE SupDecide(c)
  BY <1>7 DEF SupDecide
<1>8. CASE SupBackoff(c)
  BY <1>8 DEF SupBackoff
<1> QED
  BY <1>1, <1>2, <1>3, <1>4, <1>5, <1>6, <1>7, <1>8 DEF Supervise

\* A step of Stop, Start or Restart, of main or of a request, keeps the types.
LEMMA TypeCall ==
  ASSUME TypeInv, NEW c \in Ctxs, Call(c)
  PROVE  TypeInv'
<1> USE DEF TypeInv, TypeOK, MainCall, SupPcs, CallPcs, GoTo, CallTo, AfterStop, At
<1>1. CASE StopFlag(c)
  BY <1>1 DEF StopFlag
<1>2. CASE StopFind(c)
  <2>1. CASE cmd = Nil
    <3>1. call' = [call EXCEPT ![c].pc = IF c = Root THEN "closing" ELSE "clearFlag"] /\ dying' = dying
      BY <1>2, <2>1 DEF StopFind
    <3> QED
      BY <1>2, <3>1 DEF StopFind
  <2>2. CASE cmd # Nil
    <3>1. call' = [call EXCEPT ![c] = [pc |-> "term", proc |-> cmd]] /\ dying' = dying \cup ({cmd} \cap alive)
      BY <1>2, <2>2 DEF StopFind
    <3> QED
      BY <1>2, <3>1 DEF StopFind
  <2> QED
    BY <2>1, <2>2
<1>3. CASE StopReturn(c)
  <2>1. call' = [call EXCEPT ![c] = [pc |-> IF c = Root THEN "closing" ELSE "clearFlag",
                                        proc |-> IF c = Root THEN @.proc ELSE Nil]]
    BY <1>3 DEF StopReturn
  <2> QED
    BY <1>3, <2>1 DEF StopReturn
<1>4. CASE ClearFlag(c)
  <2>1. c # Root
    BY <1>4 DEF ClearFlag
  <2>2. call' = [call EXCEPT ![c].pc = "launch"] /\ stopping' = FALSE
    BY <1>4 DEF ClearFlag
  <2>3. call' \in [Ctxs -> [pc : CallPcs, proc : Procs \cup {Nil}]]
    BY <2>2
  <2>4. MainCall'
    <3>1. call'[Root] = call[Root]
      BY <2>1, <2>2 DEF Ctxs
    <3> QED
      BY <3>1
  <2> QED
    BY <1>4, <2>2, <2>3, <2>4 DEF ClearFlag
<1>5. CASE Start(c)
  <2>1. sup' = sup \/ sup' = [sup EXCEPT ![c].pc = "check"]
    BY <1>5 DEF Start
  <2>2. \/ c # Root /\ call' = [call EXCEPT ![c].pc = "ready"]
        \/ call' = [call EXCEPT ![c].pc = "serving"]
    BY <1>5 DEF Start
  <2>3. sup' \in [Ctxs -> [pc : SupPcs, proc : Procs \cup {Nil}]]
    BY <2>1
  <2>4. call' \in [Ctxs -> [pc : CallPcs, proc : Procs \cup {Nil}]]
    BY <2>2
  <2>5. MainCall'
    <3>1. call'[Root].pc = call[Root].pc \/ call'[Root].pc = "serving"
      BY <2>2 DEF Ctxs
    <3> QED
      BY <3>1
  <2> QED
    BY <1>5, <2>3, <2>4, <2>5 DEF Start
<1>6. CASE RequestEnd(c)
  <2>1. PICK end \in {"done", "failed"} : call' = [call EXCEPT ![c].pc = end]
    BY <1>6 DEF RequestEnd
  <2>2. c # Root
    BY <1>6 DEF RequestEnd, MainCall
  <2>3. call' \in [Ctxs -> [pc : CallPcs, proc : Procs \cup {Nil}]] /\ call'[Root] = call[Root]
    BY <2>1, <2>2 DEF Ctxs
  <2>4. c \in Reqs
    BY <2>2 DEF Ctxs
  <2> QED
    BY <1>6, <2>3, <2>4 DEF RequestEnd
<1>7. CASE Exit(c)
  BY <1>7 DEF Exit
<1> QED
  BY <1>1, <1>2, <1>3, <1>4, <1>5, <1>6, <1>7 DEF Call

\* What the environment does keeps the types.
LEMMA TypeOthers ==
  ASSUME TypeInv, Shutdown \/ (\E c \in Reqs : RestartBegin(c) \/ Disconnect(c)) \/ UNCHANGED vars
  PROVE  TypeInv'
<1> USE DEF TypeInv, TypeOK, MainCall, CallPcs, CallTo, At
<1>1. CASE Shutdown
  BY <1>1 DEF Shutdown
<1>2. ASSUME NEW c \in Reqs, RestartBegin(c) PROVE TypeInv'
  <2>1. c # Root /\ c \in Ctxs
    BY NamesAssumption DEF Ctxs
  <2>2. call' = [call EXCEPT ![c].pc = "flag"]
    BY <1>2 DEF RestartBegin
  <2> QED
    BY <1>2, <2>1, <2>2 DEF RestartBegin
<1>3. ASSUME NEW c \in Reqs, Disconnect(c) PROVE TypeInv'
  BY <1>3 DEF Disconnect
<1>4. CASE UNCHANGED vars
  BY <1>4 DEF vars
<1> QED
  BY <1>1, <1>2, <1>3, <1>4

LEMMA TypeStep == TypeInv /\ [Next]_vars => TypeInv'
  BY TypeProcExit, TypeSupervise, TypeCall, TypeOthers DEF Next

\* The flag, m.cmd, the goroutines and their callers keep their types, whatever requests,
\* exits and time-outs come; a process that was sent a signal is one that runs.
THEOREM TypeCorrect == Spec => []TypeOK
<1>1. Spec => []TypeInv
  BY TypeInit, TypeStep, PTL DEF Spec
<1>2. TypeInv => TypeOK
  BY DEF TypeInv
<1> QED
  BY <1>1, <1>2, PTL

-----------------------------------------------------------------------------
(* One gost, and the one Stop finds *)

LEMMA AloneInit == Init => (sc.reqs = {} => Alone /\ Stopped)
  BY NamesAssumption DEF Init, Alone, Stopped, FoundStops, ProcessAt, NoProcess, Ctxs

LEMMA ScenarioStep == [Next]_vars => sc' = sc
  BY DEF Next, ProcExit, Supervise, SupCheck, SupStart, SupStartFail, SupPublish, SupWait, SupClear,
         SupDecide, SupBackoff, Call, StopFlag, StopFind, StopReturn, Exit, ClearFlag, Start, RequestEnd,
         Shutdown, RestartBegin, Disconnect, vars

\* Only main's goroutine takes steps of supervise.
LEMMA AloneSupervise ==
  ASSUME TypeInv, Alone, NEW c \in Ctxs, Supervise(c)
  PROVE  Alone'
<1>1. c = Root
  BY DEF Ctxs, Alone, Supervise, SupCheck, SupStart, SupStartFail, SupPublish, SupWait, SupClear,
         SupDecide, SupBackoff
<1>2. /\ call' = call /\ call[Root].pc # "boot"
      /\ \A r \in Reqs : sup'[r] = sup[r]
  BY <1>1, NamesAssumption
     DEF Alone, TypeInv, TypeOK, Ctxs, GoTo, Supervise, SupCheck, SupStart, SupStartFail, SupPublish,
         SupWait, SupClear, SupDecide, SupBackoff
<1>3. SUFFICES ProcessAt(sup[Root])'
  BY <1>2 DEF Alone
<1> USE <1>1 DEF TypeInv, TypeOK, Alone, ProcessAt, NoProcess, GoTo, Ctxs
<1>4. CASE SupCheck(c)
  BY <1>4 DEF SupCheck
<1>5. CASE SupStart(c)
  BY <1>5 DEF SupStart
<1>6. CASE SupStartFail(c)
  BY <1>6 DEF SupStartFail
<1>7. CASE SupPublish(c)
  BY <1>7 DEF SupPublish
<1>8. CASE SupWait(c)
  BY <1>8 DEF SupWait
<1>9. CASE SupClear(c)
  BY <1>9 DEF SupClear
<1>10. CASE SupDecide(c)
  BY <1>10 DEF SupDecide
<1>11. CASE SupBackoff(c)
  BY <1>11 DEF SupBackoff
<1> QED
  BY <1>4, <1>5, <1>6, <1>7, <1>8, <1>9, <1>10, <1>11 DEF Supervise

\* Only main calls, and what it does to its goroutine is to launch it.
LEMMA AloneCall ==
  ASSUME TypeInv, Alone, NEW c \in Ctxs, Call(c)
  PROVE  Alone'
<1>1. c = Root
  BY DEF Ctxs, Alone, At, Call, StopFlag, StopFind, StopReturn, Exit, ClearFlag, Start, RequestEnd
<1>2. alive' = alive /\ cmd' = cmd
  BY DEF Call, StopFlag, StopFind, StopReturn, Exit, ClearFlag, Start, RequestEnd
<1>3. \A r \in Reqs : call'[r] = call[r] /\ sup'[r] = sup[r]
  <2> USE <1>1, NamesAssumption DEF TypeInv, TypeOK, Ctxs
  <2>1. CASE StopFlag(c) \/ Exit(c) \/ ClearFlag(c) \/ RequestEnd(c)
    BY <2>1 DEF StopFlag, Exit, ClearFlag, RequestEnd, CallTo
  <2>2. CASE StopFind(c)
    BY <2>2 DEF StopFind, CallTo
  <2>3. CASE StopReturn(c)
    BY <2>3 DEF StopReturn
  <2>4. CASE Start(c)
    BY <2>4 DEF Start, CallTo, GoTo
  <2> QED
    BY <2>1, <2>2, <2>3, <2>4 DEF Call
<1>4. call'[Root].pc # "boot"
  BY <1>1 DEF TypeInv, TypeOK, MainCall, At, CallTo, AfterStop, Ctxs,
              Call, StopFlag, StopFind, StopReturn, Exit, ClearFlag, Start, RequestEnd
<1>5. \/ sup' = sup
      \/ sup[Root].pc = "none" /\ sup' = [sup EXCEPT ![Root].pc = "check"]
  BY <1>1 DEF TypeInv, MainCall, Alone, At, GoTo,
              Call, StopFlag, StopFind, StopReturn, Exit, ClearFlag, Start, RequestEnd
<1>6. ProcessAt(sup[Root])'
  BY <1>2, <1>5 DEF Alone, ProcessAt, NoProcess, TypeInv, TypeOK, Ctxs
<1> QED
  BY <1>3, <1>4, <1>6 DEF Alone

LEMMA AloneOthers ==
  ASSUME TypeInv, Alone, sc.reqs = {},
         \/ Shutdown \/ UNCHANGED vars
         \/ \E p \in Procs : ProcExit(p)
         \/ \E c \in Reqs : RestartBegin(c) \/ Disconnect(c)
  PROVE  Alone'
<1>1. CASE Shutdown
  <2>1. \A r \in Reqs : call'[r] = call[r]
    BY <1>1, NamesAssumption DEF Shutdown, CallTo, TypeInv, TypeOK, Ctxs
  <2>2. call'[Root].pc = "flag"
    BY <1>1 DEF Shutdown, CallTo, TypeInv, TypeOK, Ctxs
  <2> QED
    BY <1>1, <2>1, <2>2 DEF Shutdown, Alone, ProcessAt
<1>2. CASE \E p \in Procs : ProcExit(p)
  BY <1>2 DEF ProcExit, Alone, ProcessAt
<1>3. ASSUME NEW c \in Reqs, RestartBegin(c) PROVE FALSE
  BY <1>3 DEF RestartBegin
<1>4. ASSUME NEW c \in Reqs, Disconnect(c) PROVE FALSE
  BY <1>4 DEF Disconnect, Alone
<1>5. CASE UNCHANGED vars
  BY <1>5 DEF vars, Alone, ProcessAt
<1> QED
  BY <1>1, <1>2, <1>3, <1>4, <1>5

LEMMA StoppedSupervise ==
  ASSUME TypeInv, Alone, Stopped, NEW c \in Ctxs, Supervise(c)
  PROVE  Stopped'
<1>1. c = Root
  BY DEF Ctxs, Alone, Supervise, SupCheck, SupStart, SupStartFail, SupPublish, SupWait, SupClear,
         SupDecide, SupBackoff
<1>2. call' = call /\ stopping' = stopping /\ dying' = dying
  BY DEF Supervise, SupCheck, SupStart, SupStartFail, SupPublish, SupWait, SupClear, SupDecide, SupBackoff
<1>3. SUFFICES ASSUME call[Root].proc # Nil
               PROVE  sup'[Root].pc \in {"wait", "clear", "decide", "done"} /\ alive' \subseteq dying
  BY <1>2 DEF Stopped, FoundStops
<1>4. stopping /\ sup[Root].pc \in {"wait", "clear", "decide", "done"} /\ alive \subseteq dying
  BY <1>3 DEF Stopped, FoundStops, TypeInv, MainCall
<1> USE <1>1, <1>4 DEF TypeInv, TypeOK, GoTo, Ctxs
<1>5. CASE SupWait(c)
  BY <1>5 DEF SupWait
<1>6. CASE SupClear(c)
  BY <1>6 DEF SupClear
<1>7. CASE SupDecide(c)
  BY <1>7 DEF SupDecide, Quit
<1> QED
  BY <1>5, <1>6, <1>7
     DEF Supervise, SupCheck, SupStart, SupStartFail, SupPublish, SupBackoff

\* The process StopFind finds is, by Alone, the only one.
LEMMA StoppedCall ==
  ASSUME TypeInv, Alone, Stopped, NEW c \in Ctxs, Call(c)
  PROVE  Stopped'
<1>1. c = Root
  BY DEF Ctxs, Alone, At, Call, StopFlag, StopFind, StopReturn, Exit, ClearFlag, Start, RequestEnd
<1> USE <1>1 DEF TypeInv, TypeOK, MainCall, Stopped, FoundStops, At, CallTo, GoTo, AfterStop, Ctxs
<1>2. CASE StopFlag(c)
  BY <1>2 DEF StopFlag
<1>3. CASE StopFind(c)
  <2>1. CASE cmd = Nil
    BY <1>3, <2>1 DEF StopFind
  <2>2. CASE cmd # Nil
    <3>1. /\ call'[Root] = [pc |-> "term", proc |-> cmd] /\ dying' = dying \cup ({cmd} \cap alive)
          /\ stopping' = stopping /\ sup' = sup /\ alive' = alive
      BY <1>3, <2>2 DEF StopFind
    <3>2. sup[Root].pc \in {"wait", "clear"} /\ alive \subseteq {cmd}
      BY <2>2 DEF Alone, ProcessAt, NoProcess, SupPcs
    <3> QED
      BY <1>3, <3>1, <3>2 DEF StopFind
  <2> QED
    BY <2>1, <2>2
<1>4. CASE StopReturn(c)
  BY <1>4 DEF StopReturn
<1>5. CASE Exit(c)
  BY <1>5 DEF Exit
<1>6. CASE Start(c)
  BY <1>6 DEF Start
<1> QED
  BY <1>2, <1>3, <1>4, <1>5, <1>6 DEF Call, ClearFlag, RequestEnd

LEMMA StoppedOthers ==
  ASSUME TypeInv, Alone, Stopped, sc.reqs = {},
         \/ Shutdown \/ UNCHANGED vars
         \/ \E p \in Procs : ProcExit(p)
         \/ \E c \in Reqs : RestartBegin(c) \/ Disconnect(c)
  PROVE  Stopped'
<1> USE DEF Stopped, FoundStops
<1>1. CASE Shutdown
  BY <1>1 DEF Shutdown, At, CallTo, TypeInv, TypeOK, Ctxs
<1>2. CASE \E p \in Procs : ProcExit(p)
  BY <1>2 DEF ProcExit
<1>3. ASSUME NEW c \in Reqs, RestartBegin(c) \/ Disconnect(c) PROVE FALSE
  BY <1>3 DEF RestartBegin, Disconnect, Alone
<1>4. CASE UNCHANGED vars
  BY <1>4 DEF vars
<1> QED
  BY <1>1, <1>2, <1>3, <1>4

LEMMA Invariance == Spec => []IInv
<1>1. Init => IInv
  BY TypeInit, AloneInit DEF IInv
<1>2. IInv /\ [Next]_vars => IInv'
  <2>1. SUFFICES ASSUME IInv, [Next]_vars, sc.reqs = {} PROVE (Alone /\ Stopped)'
    BY TypeStep, ScenarioStep DEF IInv
  <2>2. TypeInv /\ Alone /\ Stopped
    BY <2>1 DEF IInv
  <2>3. CASE \E c \in Ctxs : Supervise(c)
    BY <2>2, <2>3, AloneSupervise, StoppedSupervise
  <2>4. CASE \E c \in Ctxs : Call(c)
    BY <2>2, <2>4, AloneCall, StoppedCall
  <2>5. CASE \/ Shutdown \/ UNCHANGED vars
             \/ \E p \in Procs : ProcExit(p)
             \/ \E c \in Reqs : RestartBegin(c) \/ Disconnect(c)
    BY <2>1, <2>2, <2>5, AloneOthers, StoppedOthers
  <2> QED
    BY <2>1, <2>3, <2>4, <2>5 DEF Next
<1> QED
  BY <1>1, <1>2, PTL DEF Spec

\* Without restarts by the admin there is one gost at most: the goroutine starts a process
\* only after it has waited for the one before (supervise).
THEOREM OneGostHolds == Spec => []OneGost
<1>1. ASSUME IInv PROVE OneGost
  <2> SUFFICES ASSUME sc.reqs = {} PROVE Cardinality(alive) <= 1
    BY DEF OneGost, SingleGost
  <2>1. alive \subseteq {sup[Root].proc}
    BY <1>1 DEF IInv, Alone, ProcessAt, NoProcess, TypeInv, TypeOK, SupPcs, Ctxs
  <2>2. IsFiniteSet({sup[Root].proc}) /\ Cardinality({sup[Root].proc}) = 1
    BY FS_Singleton
  <2> QED
    BY <2>1, <2>2, FS_Subset, FS_CardinalityType
<1> QED
  BY <1>1, Invariance, PTL

\* Without restarts by the admin what Stop finds in m.cmd is the process the goroutine
\* waits for, and a Stop that has found gost leaves none behind that was not signalled, also
\* when it gives up waiting (supervise, Stop, main).
THEOREM StoppableHolds == Spec => []Stoppable
<1>1. ASSUME IInv, sc.reqs = {} PROVE LeftBehind
  BY <1>1 DEF LeftBehind, NoneLeft, IInv, Stopped, FoundStops
<1>2. ASSUME IInv PROVE Stoppable
  BY <1>1, <1>2 DEF Stoppable, IInv, Alone, ProcessAt, NoProcess, TypeInv, TypeOK, SupPcs, Ctxs
<1> QED
  BY <1>2, Invariance, PTL

-----------------------------------------------------------------------------
(* Multiples and hours.                                                    *)

LEMMA Product ==
  ASSUME NEW len \in Nat \ {0}, NEW k \in Int
  PROVE  (len * k) % len = 0
OBVIOUS

LEMMA MultipleIs ==
  ASSUME NEW len \in Nat \ {0}, NEW a \in Int, a % len = 0
  PROVE  \E i \in Int : a = len * i
<1> DEFINE i == a \div len
<1>1. i \in Int /\ a = len * i
  OBVIOUS
<1> QED
  BY <1>1

\* Distinct multiples are a whole length apart.
LEMMA MultiplesApart ==
  ASSUME NEW len \in Nat \ {0}, NEW a \in Int, NEW b \in Int, a % len = 0, b % len = 0, a < b
  PROVE  a + len <= b
<1> DEFINE i == a \div len
           j == b \div len
<1>1. i \in Int /\ j \in Int
  OBVIOUS
<1>2. a = len * i /\ b = len * j
  OBVIOUS
<1> HIDE DEF i, j
<1>3. i < j
  BY <1>1, <1>2
<1>4. PICK n \in Nat : j = i + 1 + n
  <2>1. j - i - 1 \in Nat /\ j = i + 1 + (j - i - 1)
    BY <1>1, <1>3
  <2> QED
    BY <2>1
<1>5. len * j = len * i + len + len * n
  BY <1>1, <1>4
<1>6. len * n >= 0
  BY <1>4
<1> QED
  BY <1>1, <1>2, <1>5, <1>6

LEMMA MultipleNext ==
  ASSUME NEW len \in Nat \ {0}, NEW a \in Int, a % len = 0
  PROVE  (a - len) % len = 0 /\ (a + len) % len = 0
<1>1. PICK i \in Int : a = len * i
  BY MultipleIs
<1>2. i - 1 \in Int /\ i + 1 \in Int /\ a - len = len * (i - 1) /\ a + len = len * (i + 1)
  BY <1>1
<1>3. (len * (i - 1)) % len = 0 /\ (len * (i + 1)) % len = 0
  BY <1>2, Product
<1> QED
  BY <1>2, <1>3

LEMMA MultipleOf ==
  ASSUME NEW len \in Nat \ {0}, NEW big \in Nat \ {0}, big % len = 0, NEW a \in Int, a % big = 0
  PROVE  a % len = 0
<1>1. PICK i \in Int : big = len * i
  BY MultipleIs
<1>2. PICK j \in Int : a = big * j
  BY MultipleIs
<1>3. i * j \in Int
  BY <1>1, <1>2
<1>4. a = len * (i * j)
  <2>1. (len * i) * j = len * (i * j)
    BY <1>1, <1>2
  <2> QED
    BY <1>1, <1>2, <2>1
<1>5. (len * (i * j)) % len = 0
  BY <1>3, Product
<1> QED
  BY <1>4, <1>5

LEMMA FloorAt ==
  ASSUME NEW len \in Nat \ {0}, NEW t \in Int
  PROVE  /\ Floor(t, len) \in Int /\ Floor(t, len) <= t /\ t < Floor(t, len) + len
         /\ Floor(t, len) % len = 0
         /\ t \in Nat => Floor(t, len) \in Nat
<1>1. t % len \in 0..(len - 1)
  OBVIOUS
<1>2. Floor(t, len) \in Int /\ Floor(t, len) <= t /\ t < Floor(t, len) + len
  BY <1>1 DEF Floor
<1>3. (t - (t % len)) % len = 0
  OBVIOUS
<1>4. t \in Nat => t % len <= t
  OBVIOUS
<1> QED
  BY <1>1, <1>2, <1>3, <1>4 DEF Floor

-----------------------------------------------------------------------------
(* Sums over the hours.                                                    *)

\* The recursive function of RangeTraffic, for a table of points and the first hour b.
SumFrom(table, dir, b) ==
    LET since[h \in Int] == IF h < b THEN 0 ELSE Charge(dir, table[h]) + since[h - HourLen]
    IN since

\* f is that function up to h.
SumsTo(f, table, dir, b, h) ==
    f = [k \in {i \in Int : i <= h} |-> IF k < b THEN 0 ELSE Charge(dir, table[k]) + f[k - HourLen]]

\* What holds before b, and at h if it holds at h - d, holds everywhere.
LEMMA Upwards ==
  ASSUME NEW d \in Nat \ {0}, NEW b \in Int, NEW S,
         \A h \in Int : h < b => h \in S,
         \A h \in Int : h >= b /\ h - d \in S => h \in S
  PROVE  \A h \in Int : h \in S
<1> DEFINE missing == {n \in Nat : b + n \notin S}
           less == OpToRel(<, Nat)
<1> SUFFICES ASSUME NEW h0 \in Int, h0 \notin S PROVE FALSE
  OBVIOUS
<1>1. missing \subseteq Nat /\ h0 - b \in missing
  OBVIOUS
<1>2. less = { p \in Nat \X Nat : p[1] < p[2] }
  BY DEF OpToRel
<1>3. IsWellFoundedOn(less, Nat)
  BY NatLessThanWellFounded
<1>4. \E m \in missing : \A y \in missing : ~ (<<y, m>> \in less)
  <2> HIDE DEF missing, less
  <2> QED
    BY <1>1, <1>3, WFMin
<1>5. PICK m \in missing : \A y \in missing : ~ (<<y, m>> \in less)
  BY <1>4
<1>6. m \in Nat /\ b + m \in Int /\ b + m >= b /\ b + m \notin S
  OBVIOUS
<1>7. CASE m < d
  <2>1. b + m - d \in Int /\ b + m - d < b
    BY <1>6, <1>7
  <2> QED
    BY <1>6, <2>1
<1>8. CASE m >= d
  <2>1. m - d \in Nat /\ m - d < m /\ b + (m - d) = b + m - d
    BY <1>6, <1>8
  <2>2. <<m - d, m>> \in less
    BY <1>2, <1>6, <2>1
  <2>3. m - d \notin missing
    BY <1>5, <2>2
  <2>4. b + m - d \in S
    BY <2>1, <2>3
  <2> QED
    BY <1>6, <2>4
<1> QED
  BY <1>6, <1>7, <1>8

LEMMA HourLenType == HourLen \in Nat \ {0}
  BY TimesAssumption

\* What SumsTo says of each hour.
LEMMA SumsToAt ==
  ASSUME NEW f, NEW table, NEW dir, NEW b \in Int, NEW h \in Int, SumsTo(f, table, dir, b, h)
  PROVE  \A k \in Int : k <= h => f[k] = IF k < b THEN 0 ELSE Charge(dir, table[k]) + f[k - HourLen]
<1> DEFINE g == [k \in {i \in Int : i <= h} |-> IF k < b THEN 0 ELSE Charge(dir, table[k]) + f[k - HourLen]]
<1>1. f = g
  BY DEF SumsTo
<1>2. \A k \in Int : k <= h => g[k] = IF k < b THEN 0 ELSE Charge(dir, table[k]) + f[k - HourLen]
  OBVIOUS
<1> HIDE DEF g
<1> QED
  BY <1>1, <1>2

\* Two such functions agree where both are defined.
LEMMA SumsAgree ==
  ASSUME NEW f, NEW g, NEW table, NEW dir, NEW b \in Int, NEW h \in Int, NEW i \in Int,
         SumsTo(f, table, dir, b, h), SumsTo(g, table, dir, b, i)
  PROVE  \A k \in Int : k <= h /\ k <= i => f[k] = g[k]
<1> DEFINE S == {k \in Int : k <= h /\ k <= i => f[k] = g[k]}
<1>1. \A k \in Int : k <= h => f[k] = IF k < b THEN 0 ELSE Charge(dir, table[k]) + f[k - HourLen]
  BY SumsToAt
<1>2. \A k \in Int : k <= i => g[k] = IF k < b THEN 0 ELSE Charge(dir, table[k]) + g[k - HourLen]
  BY SumsToAt
<1>3. \A k \in Int : k < b => k \in S
  BY <1>1, <1>2
<1>4. ASSUME NEW k \in Int, k >= b, k - HourLen \in S PROVE k \in S
  <2> SUFFICES ASSUME k <= h, k <= i PROVE f[k] = g[k]
    OBVIOUS
  <2>1. k - HourLen <= h /\ k - HourLen <= i /\ ~(k < b)
    BY <1>4, HourLenType
  <2>2. f[k - HourLen] = g[k - HourLen]
    BY <1>4, <2>1
  <2>3. f[k] = Charge(dir, table[k]) + f[k - HourLen] /\ g[k] = Charge(dir, table[k]) + g[k - HourLen]
    BY <1>1, <1>2, <2>1
  <2> QED
    BY <2>2, <2>3
<1>5. \A k \in Int : k \in S
  <2> HIDE DEF S
  <2> QED
    BY <1>3, <1>4, HourLenType, Upwards
<1> QED
  BY <1>5

\* There is such a function up to any h.
LEMMA SumsToExists ==
  ASSUME NEW table, NEW dir, NEW b \in Int
  PROVE  \A h \in Int : \E f : SumsTo(f, table, dir, b, h)
<1> DEFINE S == {h \in Int : \E f : SumsTo(f, table, dir, b, h)}
<1>1. ASSUME NEW h \in Int, h < b PROVE h \in S
  <2> DEFINE f == [k \in {i \in Int : i <= h} |-> 0]
  <2>1. SumsTo(f, table, dir, b, h)
    BY <1>1 DEF SumsTo
  <2> QED
    BY <2>1
<1>2. ASSUME NEW h \in Int, h >= b, h - 1 \in S PROVE h \in S
  <2>1. PICK f : SumsTo(f, table, dir, b, h - 1)
    BY <1>2
  <2>2. \A k \in Int : k <= h - 1 => f[k] = IF k < b THEN 0 ELSE Charge(dir, table[k]) + f[k - HourLen]
    BY <2>1, SumsToAt, h - 1 \in Int
  <2> DEFINE g == [k \in {i \in Int : i <= h} |-> IF k = h THEN Charge(dir, table[h]) + f[h - HourLen] ELSE f[k]]
             gg == [k \in {i \in Int : i <= h} |-> IF k < b THEN 0 ELSE Charge(dir, table[k]) + g[k - HourLen]]
  <2>3. ASSUME NEW k \in Int, k <= h PROVE g[k] = gg[k]
    <3>1. k - HourLen \in Int /\ k - HourLen <= h - 1 /\ k - HourLen # h /\ k - HourLen <= h
      BY <2>3, HourLenType
    <3>2. g[k - HourLen] = f[k - HourLen]
      BY <3>1
    <3>3. CASE k = h
      BY <1>2, <3>2, <3>3
    <3>4. CASE k # h
      <4>1. k <= h - 1
        BY <2>3, <3>4
      <4> QED
        BY <2>2, <2>3, <3>2, <3>4, <4>1
    <3> QED
      BY <3>3, <3>4
  <2>4. g = gg
    BY <2>3
  <2>5. SumsTo(g, table, dir, b, h)
    BY <2>4 DEF SumsTo
  <2> QED
    BY <2>5
<1>3. \A h \in Int : h \in S
  <2> HIDE DEF S
  <2>1. 1 \in Nat \ {0}
    OBVIOUS
  <2> QED
    BY <1>1, <1>2, <2>1, Upwards
<1> QED
  BY <1>3

\* The recursive definition is met.
LEMMA SumFromAt ==
  ASSUME NEW table, NEW dir, NEW b \in Int
  PROVE  \A h \in Int : SumFrom(table, dir, b)[h] =
             IF h < b THEN 0 ELSE Charge(dir, table[h]) + SumFrom(table, dir, b)[h - HourLen]
<1> DEFINE F(h) == CHOOSE f : SumsTo(f, table, dir, b, h)
           g == [h \in Int |-> F(h)[h]]
           gg == [h \in Int |-> IF h < b THEN 0 ELSE Charge(dir, table[h]) + g[h - HourLen]]
<1>1. \A h \in Int : SumsTo(F(h), table, dir, b, h)
  BY SumsToExists, Zenon
<1>2. ASSUME NEW h \in Int PROVE g[h] = gg[h]
  <2>1. h - HourLen \in Int /\ h - HourLen <= h
    BY HourLenType
  <2>2. SumsTo(F(h), table, dir, b, h) /\ SumsTo(F(h - HourLen), table, dir, b, h - HourLen)
    BY <1>1, <2>1, Zenon
  <2>3. F(h)[h - HourLen] = F(h - HourLen)[h - HourLen]
    <3> HIDE DEF F
    <3> QED
      BY <2>1, <2>2, SumsAgree
  <2>4. F(h)[h] = IF h < b THEN 0 ELSE Charge(dir, table[h]) + F(h)[h - HourLen]
    <3> HIDE DEF F
    <3>1. \A k \in Int : k <= h => F(h)[k] = IF k < b THEN 0 ELSE Charge(dir, table[k]) + F(h)[k - HourLen]
      BY <2>2, SumsToAt, Zenon
    <3> QED
      BY <3>1
  <2>5. g[h] = F(h)[h] /\ g[h - HourLen] = F(h - HourLen)[h - HourLen]
    <3> HIDE DEF F
    <3> QED
      BY <2>1
  <2> HIDE DEF F, g
  <2> QED
    BY <2>3, <2>4, <2>5
<1>3. g = gg
  <2>1. g = [h \in Int |-> g[h]] /\ gg = [h \in Int |-> gg[h]]
    <3> HIDE DEF F
    <3> QED
      OBVIOUS
  <2> HIDE DEF g, gg
  <2> QED
    BY <1>2, <2>1
<1>4. \E f : f = [h \in Int |-> IF h < b THEN 0 ELSE Charge(dir, table[h]) + f[h - HourLen]]
  <2> HIDE DEF g
  <2> QED
    BY <1>3
<1>5. SumFrom(table, dir, b) =
         [h \in Int |-> IF h < b THEN 0 ELSE Charge(dir, table[h]) + SumFrom(table, dir, b)[h - HourLen]]
  BY <1>4, Zenon DEF SumFrom
<1> QED
  <2> DEFINE s == SumFrom(table, dir, b)
             r == [h \in Int |-> IF h < b THEN 0 ELSE Charge(dir, table[h]) + s[h - HourLen]]
  <2>1. s = r
    BY <1>5
  <2>2. \A h \in Int : r[h] = IF h < b THEN 0 ELSE Charge(dir, table[h]) + s[h - HourLen]
    OBVIOUS
  <2> HIDE DEF s, r
  <2>3. \A h \in Int : s[h] = IF h < b THEN 0 ELSE Charge(dir, table[h]) + s[h - HourLen]
    BY <2>1, <2>2
  <2> USE DEF s
  <2> QED
    BY <2>3

\* Floor respects the order, and leaves multiples alone.
LEMMA FloorOrder ==
  ASSUME NEW len \in Nat \ {0}, NEW s \in Int, NEW t \in Int, s <= t
  PROVE  Floor(s, len) <= Floor(t, len)
<1>1. Floor(s, len) \in Int /\ Floor(s, len) <= s /\ Floor(s, len) % len = 0
  BY FloorAt
<1>2. Floor(t, len) \in Int /\ t < Floor(t, len) + len /\ Floor(t, len) % len = 0
  BY FloorAt
<1>3. CASE Floor(t, len) < Floor(s, len)
  <2>1. Floor(t, len) + len <= Floor(s, len)
    BY <1>1, <1>2, <1>3, MultiplesApart
  <2> QED
    BY <1>1, <1>2, <2>1
<1> QED
  BY <1>1, <1>2, <1>3

LEMMA FloorSame ==
  ASSUME NEW len \in Nat \ {0}, NEW t \in Int, t % len = 0
  PROVE  Floor(t, len) = t
BY DEF Floor

LEMMA HourAt ==
  ASSUME NEW t \in Nat
  PROVE  /\ LocalHourStart(t) \in Nat /\ LocalHourStart(t) <= t /\ t < LocalHourStart(t) + HourLen
         /\ LocalHourStart(t) % HourLen = 0
         /\ LocalHourStart(LocalHourStart(t)) = LocalHourStart(t)
         /\ t <= MaxNow => LocalHourStart(t) \in Hours
<1>1. /\ LocalHourStart(t) \in Nat /\ LocalHourStart(t) <= t /\ t < LocalHourStart(t) + HourLen
      /\ LocalHourStart(t) % HourLen = 0
  BY FloorAt, HourLenType DEF LocalHourStart
<1>2. LocalHourStart(LocalHourStart(t)) = LocalHourStart(t)
  BY <1>1, FloorSame, HourLenType DEF LocalHourStart
<1>3. t <= MaxNow => LocalHourStart(t) \in 0..MaxNow
  BY <1>1, TimesAssumption
<1> QED
  BY <1>1, <1>2, <1>3 DEF Hours

LEMMA HourOf ==
  ASSUME NEW h \in Hours
  PROVE  h \in Nat /\ h <= MaxNow /\ h % HourLen = 0 /\ LocalHourStart(h) = h
<1>1. h \in Nat /\ h <= MaxNow /\ h % HourLen = 0
  BY TimesAssumption DEF Hours
<1> QED
  BY <1>1, FloorSame, HourLenType DEF LocalHourStart

\* An hour that has begun is not after the present one; one to come is after now.
LEMMA HourNow ==
  ASSUME NEW h \in Hours, NEW t \in Nat
  PROVE  h <= t <=> h <= LocalHourStart(t)
<1>1. h <= t => LocalHourStart(h) <= LocalHourStart(t)
  BY HourOf, FloorOrder, HourLenType DEF LocalHourStart
<1> QED
  BY <1>1, HourOf, HourAt

\* The hour changes when an hour begins, and only then.
LEMMA HourTick ==
  ASSUME NEW t \in Nat, t + 1 <= MaxNow
  PROVE  /\ t + 1 \in Hours => LocalHourStart(t + 1) = t + 1 /\ LocalHourStart(t) = t + 1 - HourLen
         /\ t + 1 \notin Hours => LocalHourStart(t + 1) = LocalHourStart(t)
<1> DEFINE a == LocalHourStart(t)
           b == LocalHourStart(t + 1)
<1>1. a \in Nat /\ a <= t /\ t < a + HourLen /\ a % HourLen = 0
  BY HourAt
<1>2. b \in Nat /\ b <= t + 1 /\ t + 1 < b + HourLen /\ b % HourLen = 0 /\ b \in Hours
  BY HourAt, t + 1 \in Nat
<1>3. HourLen \in Nat \ {0}
  BY HourLenType
<1>4. t + 1 \in Hours => b = t + 1
  BY HourOf
<1> HIDE DEF a, b
<1>a. a \in Int /\ b \in Int /\ a % HourLen = 0 /\ b % HourLen = 0
  BY <1>1, <1>2
<1>5. a < b => a + HourLen <= b
  BY <1>3, <1>a, MultiplesApart
<1>6. b < a => b + HourLen <= a
  BY <1>3, <1>a, MultiplesApart
<1>7. t + 1 \in Hours => a = t + 1 - HourLen
  BY <1>1, <1>2, <1>3, <1>4, <1>5
<1>8. t + 1 \notin Hours => b = a
  <2> SUFFICES ASSUME t + 1 \notin Hours PROVE b = a
    OBVIOUS
  <2>1. b # t + 1
    BY <1>2
  <2> QED
    BY <1>1, <1>2, <1>3, <1>5, <1>6, <2>1
<1> QED
  BY <1>4, <1>7, <1>8 DEF a, b

-----------------------------------------------------------------------------
(* Bytes.                                                                  *)

Bytes == [in : Nat, out : Nat]

LEMMA ChargeType ==
  ASSUME NEW d \in Directions, NEW p \in Bytes
  PROVE  Charge(d, p) \in Nat
BY DEF Directions, Bytes, Charge

LEMMA ChargePlus ==
  ASSUME NEW d \in Directions, NEW p \in Bytes, NEW r \in Bytes
  PROVE  Plus(p, r) \in Bytes /\ Charge(d, Plus(p, r)) = Charge(d, p) + Charge(d, r)
BY DEF Directions, Bytes, Charge, Plus

LEMMA ChargeNone ==
  ASSUME NEW d \in Directions
  PROVE  None \in Bytes /\ Charge(d, None) = 0
BY DEF Directions, Bytes, Charge, None

LEMMA ChargeByte ==
  ASSUME NEW d \in Directions, NEW p \in Bytes, NEW e \in {"in", "out"}
  PROVE  /\ [p EXCEPT ![e] = @ + 1] \in Bytes
         /\ Charge(d, [p EXCEPT ![e] = @ + 1]) = Charge(d, p) + (IF d \in {e, "total"} THEN 1 ELSE 0)
<1>1. CASE e = "in"
  BY <1>1 DEF Directions, Bytes, Charge
<1>2. CASE e = "out"
  BY <1>2 DEF Directions, Bytes, Charge
<1> QED
  BY <1>1, <1>2

-----------------------------------------------------------------------------
(* Sums of a table of points.                                              *)

LEMMA SumType ==
  ASSUME NEW table \in Points, NEW d \in Directions, NEW b \in Nat
  PROVE  \A h \in Int : h % HourLen = 0 /\ h <= MaxNow => SumFrom(table, d, b)[h] \in Nat
<1> DEFINE s == SumFrom(table, d, b)
           S == {h \in Int : h % HourLen = 0 /\ h <= MaxNow => s[h] \in Nat}
<1>1. \A h \in Int : s[h] = IF h < b THEN 0 ELSE Charge(d, table[h]) + s[h - HourLen]
  BY SumFromAt
<1> HIDE DEF s
<1>2. \A h \in Int : h < b => h \in S
  BY <1>1
<1>3. ASSUME NEW h \in Int, h >= b, h - HourLen \in S PROVE h \in S
  <2> SUFFICES ASSUME h % HourLen = 0, h <= MaxNow PROVE s[h] \in Nat
    OBVIOUS
  <2>1. h \in Hours
    BY <1>3 DEF Hours
  <2>2. Charge(d, table[h]) \in Nat
    BY <2>1, ChargeType DEF Points, Bytes
  <2>3. (h - HourLen) % HourLen = 0 /\ h - HourLen <= MaxNow
    BY MultipleNext, HourLenType, TimesAssumption
  <2>4. s[h - HourLen] \in Nat
    BY <1>3, <2>3
  <2> QED
    BY <1>1, <1>3, <2>2, <2>4
<1>4. \A h \in Int : h \in S
  <2> HIDE DEF S
  <2> QED
    BY <1>2, <1>3, b \in Int, HourLenType, Upwards
<1> QED
  BY <1>4 DEF s

\* A table with no more in any hour has no greater sum.
LEMMA SumLess ==
  ASSUME NEW small \in Points, NEW large \in Points, NEW d \in Directions, NEW b \in Nat, NEW top \in Int,
         top <= MaxNow, \A k \in Hours : k <= top => Charge(d, small[k]) <= Charge(d, large[k])
  PROVE  \A h \in Int : h % HourLen = 0 /\ h <= top => SumFrom(small, d, b)[h] <= SumFrom(large, d, b)[h]
<1> DEFINE s == SumFrom(small, d, b)
           r == SumFrom(large, d, b)
           S == {h \in Int : h % HourLen = 0 /\ h <= top => s[h] <= r[h]}
<1>1. \A h \in Int : s[h] = IF h < b THEN 0 ELSE Charge(d, small[h]) + s[h - HourLen]
  BY SumFromAt
<1>2. \A h \in Int : r[h] = IF h < b THEN 0 ELSE Charge(d, large[h]) + r[h - HourLen]
  BY SumFromAt
<1>3. \A h \in Int : h % HourLen = 0 /\ h <= MaxNow => s[h] \in Nat /\ r[h] \in Nat
  BY SumType
<1> HIDE DEF s, r
<1>4. \A h \in Int : h < b => h \in S
  BY <1>1, <1>2
<1>5. ASSUME NEW h \in Int, h >= b, h - HourLen \in S PROVE h \in S
  <2> SUFFICES ASSUME h % HourLen = 0, h <= top PROVE s[h] <= r[h]
    OBVIOUS
  <2>0. MaxNow \in Nat
    BY TimesAssumption
  <2>1. h \in Hours
    BY <1>5, <2>0 DEF Hours
  <2>2. Charge(d, small[h]) \in Nat /\ Charge(d, large[h]) \in Nat
    BY <2>1, ChargeType DEF Points, Bytes
  <2>a. (h - HourLen) % HourLen = 0
    BY MultipleNext, HourLenType
  <2>3. h - HourLen \in Int /\ (h - HourLen) % HourLen = 0 /\ h - HourLen <= top /\ h - HourLen <= MaxNow
    BY <2>0, <2>a, HourLenType
  <2>4. s[h - HourLen] <= r[h - HourLen]
    BY <1>5, <2>3
  <2>5. s[h - HourLen] \in Nat /\ r[h - HourLen] \in Nat
    BY <1>3, <2>3
  <2>6. s[h] = Charge(d, small[h]) + s[h - HourLen] /\ r[h] = Charge(d, large[h]) + r[h - HourLen]
    BY <1>1, <1>2, <1>5
  <2>7. Charge(d, small[h]) <= Charge(d, large[h])
    BY <2>1
  <2> QED
    BY <2>2, <2>4, <2>5, <2>6, <2>7
<1>6. \A h \in Int : h \in S
  <2> HIDE DEF S
  <2> QED
    BY <1>4, <1>5, b \in Int, HourLenType, Upwards
<1> QED
  BY <1>6 DEF s, r

\* Tables that agree have the same sum.
LEMMA SumSame ==
  ASSUME NEW one \in Points, NEW other \in Points, NEW d \in Directions, NEW b \in Nat, NEW top \in Int,
         top <= MaxNow, \A k \in Hours : k <= top => one[k] = other[k], top % HourLen = 0
  PROVE  SumFrom(one, d, b)[top] = SumFrom(other, d, b)[top]
<1>1. \A k \in Hours : Charge(d, one[k]) \in Nat /\ Charge(d, other[k]) \in Nat
  BY ChargeType DEF Points, Bytes
<1>2. \A k \in Hours : k <= top => Charge(d, one[k]) <= Charge(d, other[k]) /\ Charge(d, other[k]) <= Charge(d, one[k])
  BY <1>1
<1>3. SumFrom(one, d, b)[top] <= SumFrom(other, d, b)[top]
  BY <1>2, SumLess
<1>4. SumFrom(other, d, b)[top] <= SumFrom(one, d, b)[top]
  BY <1>2, SumLess
<1>5. SumFrom(one, d, b)[top] \in Nat /\ SumFrom(other, d, b)[top] \in Nat
  BY SumType
<1> QED
  BY <1>3, <1>4, <1>5

\* What changes the last hour changes the sum by as much.
LEMMA SumLast ==
  ASSUME NEW table \in Points, NEW other \in Points, NEW d \in Directions, NEW b \in Nat, NEW h \in Hours, b <= h,
         \A k \in Hours : k < h => other[k] = table[k]
  PROVE  /\ SumFrom(table, d, b)[h] \in Nat /\ SumFrom(other, d, b)[h] \in Nat
         /\ SumFrom(other, d, b)[h] + Charge(d, table[h]) = SumFrom(table, d, b)[h] + Charge(d, other[h])
<1> DEFINE l == h - HourLen
<1>1. h \in Int /\ h % HourLen = 0 /\ h <= MaxNow /\ MaxNow \in Nat
  BY HourOf, TimesAssumption
<1>a. l % HourLen = 0
  BY <1>1, MultipleNext, HourLenType
<1>2. l \in Int /\ l % HourLen = 0 /\ l <= MaxNow /\ l < h
  BY <1>1, <1>a, HourLenType
<1>3. \A k \in Hours : k <= l => other[k] = table[k]
  BY <1>1, <1>2, HourOf
<1> HIDE DEF l
<1>4. SumFrom(other, d, b)[l] = SumFrom(table, d, b)[l]
  BY <1>2, <1>3, SumSame
<1>5. SumFrom(table, d, b)[l] \in Nat
  BY <1>2, SumType
<1>6. SumFrom(table, d, b)[h] = Charge(d, table[h]) + SumFrom(table, d, b)[l]
  BY <1>1, SumFromAt DEF l
<1>7. SumFrom(other, d, b)[h] = Charge(d, other[h]) + SumFrom(other, d, b)[l]
  BY <1>1, SumFromAt DEF l
<1>8. Charge(d, table[h]) \in Nat /\ Charge(d, other[h]) \in Nat
  BY ChargeType DEF Points, Bytes
<1> QED
  BY <1>4, <1>5, <1>6, <1>7, <1>8

-----------------------------------------------------------------------------
(* Sums since an instant, and what may be charged since then.              *)

\* RangeTraffic and Chargeable with everything they depend on.
Since(table, d, from, t) == SumFrom(table, d, LocalHourStart(from))[LocalHourStart(t)]
Due(table, before, d, from, t) == Charge(d, before[LocalHourStart(from)]) + Since(table, d, from, t)

LEMMA RangeIs ==
  ASSUME NEW d, NEW from, NEW table
  PROVE  RangeTraffic(table, d, from) = Since(table, d, from, now)
BY DEF RangeTraffic, SumFrom, Since

LEMMA PointsIs ==
  ASSUME NEW d, NEW from
  PROVE  /\ RangeTraffic(points, d, from) = Since(points, d, from, now)
         /\ RangeTraffic(points, d, from)' = Since(points', d, from, now')
BY DEF RangeTraffic, SumFrom, Since, LocalHourStart, Floor, Charge

LEMMA ChargeableIs ==
  ASSUME NEW d, NEW from
  PROVE  /\ Chargeable(d, from) = Due(carried, late, d, from, now)
         /\ Chargeable(d, from)' = Due(carried', late', d, from, now')
BY DEF Chargeable, RangeTraffic, SumFrom, Since, Due, LocalHourStart, Floor, Charge

LEMMA SinceType ==
  ASSUME NEW table \in Points, NEW d \in Directions, NEW from \in Nat, NEW t \in 0..MaxNow
  PROVE  Since(table, d, from, t) \in Nat
<1>1. t \in Nat /\ t <= MaxNow
  BY TimesAssumption
<1>2. LocalHourStart(from) \in Nat /\ LocalHourStart(t) \in Hours
  BY <1>1, HourAt
<1> QED
  BY <1>2, HourOf, SumType DEF Since

LEMMA SinceHour ==
  ASSUME NEW from \in Nat, NEW table, NEW before, NEW d, NEW t
  PROVE  /\ Since(table, d, from, t) = Since(table, d, LocalHourStart(from), t)
         /\ Due(table, before, d, from, t) = Due(table, before, d, LocalHourStart(from), t)
<1>1. LocalHourStart(LocalHourStart(from)) = LocalHourStart(from)
  BY HourAt
<1> QED
  BY <1>1 DEF Since, Due

LEMMA BegunHour ==
  ASSUME NEW t \in 0..MaxNow, NEW from \in Nat, from <= t
  PROVE  /\ LocalHourStart(from) \in Hours /\ LocalHourStart(t) \in Hours /\ t \in Nat
         /\ LocalHourStart(from) <= LocalHourStart(t) /\ LocalHourStart(from) <= t
<1>1. t \in Nat /\ t <= MaxNow /\ from <= MaxNow
  BY TimesAssumption
<1>2. LocalHourStart(from) \in Hours /\ LocalHourStart(t) \in Hours /\ LocalHourStart(from) <= from /\ LocalHourStart(from) \in Nat
  BY <1>1, HourAt
<1>3. LocalHourStart(from) <= t
  BY <1>1, <1>2
<1> QED
  BY <1>1, <1>2, <1>3, HourNow

LEMMA DueType ==
  ASSUME NEW table \in Points, NEW before \in Points, NEW d \in Directions, NEW t \in 0..MaxNow,
         NEW from \in Nat, from <= t
  PROVE  Charge(d, before[LocalHourStart(from)]) \in Nat /\ Due(table, before, d, from, t) \in Nat
<1>1. Charge(d, before[LocalHourStart(from)]) \in Nat
  BY BegunHour, ChargeType DEF Points, Bytes
<1> QED
  BY <1>1, SinceType DEF Due

\* A change in the present hour.
LEMMA SinceChange ==
  ASSUME NEW table \in Points, NEW other \in Points, NEW d \in Directions, NEW t \in 0..MaxNow,
         NEW from \in Nat, from <= t, NEW more \in Nat,
         \A k \in Hours : k # LocalHourStart(t) => other[k] = table[k],
         Charge(d, other[LocalHourStart(t)]) = Charge(d, table[LocalHourStart(t)]) + more
  PROVE  Since(other, d, from, t) = Since(table, d, from, t) + more
<1> DEFINE b == LocalHourStart(from)
           h == LocalHourStart(t)
<1>1. b \in Hours /\ h \in Hours /\ b <= h /\ b \in Nat
  BY BegunHour, HourOf
<1> HIDE DEF b, h
<1>2. \A k \in Hours : k < h => other[k] = table[k]
  <2>1. \A k \in Hours : k \in Nat /\ h \in Nat
    BY <1>1, HourOf
  <2> QED
    BY <2>1 DEF h
<1>3. /\ SumFrom(table, d, b)[h] \in Nat /\ SumFrom(other, d, b)[h] \in Nat
      /\ SumFrom(other, d, b)[h] + Charge(d, table[h]) = SumFrom(table, d, b)[h] + Charge(d, other[h])
  BY <1>1, <1>2, SumLast
<1>4. Charge(d, table[h]) \in Nat
  BY <1>1, ChargeType DEF Points, Bytes
<1>5. Charge(d, other[h]) = Charge(d, table[h]) + more
  BY DEF h
<1>6. SumFrom(other, d, b)[h] = SumFrom(table, d, b)[h] + more
  BY <1>3, <1>4, <1>5
<1> QED
  BY <1>6 DEF Since, b, h

\* Time passes: nothing is added to a sum by an hour that begins.
LEMMA SinceTick ==
  ASSUME NEW table \in Points, NEW d \in Directions, NEW t \in Nat, t + 1 <= MaxNow,
         \A k \in Hours : k > t => table[k] = None
  PROVE  /\ \A from \in Nat : from <= t => Since(table, d, from, t + 1) = Since(table, d, from, t)
         /\ t + 1 \in Hours => Since(table, d, t + 1, t + 1) = 0
<1>0. MaxNow \in Nat /\ t \in 0..MaxNow /\ t + 1 \in 0..MaxNow
  BY TimesAssumption
<1>1. CASE t + 1 \in Hours
  <2> DEFINE h == t + 1
             l == h - HourLen
  <2>1. LocalHourStart(h) = h /\ LocalHourStart(t) = l /\ h \in Int /\ l \in Int
    BY <1>1, HourTick, HourLenType
  <2>2. table[h] = None /\ Charge(d, table[h]) = 0
    BY <1>1, ChargeNone
  <2>3. \A from \in Nat : from <= t => LocalHourStart(from) \in Nat /\ LocalHourStart(from) <= h
    BY HourAt, <1>0, BegunHour
  <2> HIDE DEF h, l
  <2>4. ASSUME NEW from \in Nat, from <= t
        PROVE  Since(table, d, from, h) = Since(table, d, from, t)
    <3> DEFINE b == LocalHourStart(from)
    <3>1. b \in Nat /\ b <= h
      BY <2>3, <2>4
    <3>2. SumFrom(table, d, b)[h] = Charge(d, table[h]) + SumFrom(table, d, b)[h - HourLen]
      BY <2>1, <3>1, SumFromAt
    <3>3. SumFrom(table, d, b)[l] \in Nat
      <4>1. LocalHourStart(t) \in Hours
        BY <1>0, BegunHour
      <4>2. l % HourLen = 0 /\ l <= MaxNow
        BY <2>1, <4>1, HourOf
      <4> QED
        BY <2>1, <3>1, <4>2, SumType
    <3>4. SumFrom(table, d, b)[h] = SumFrom(table, d, b)[l]
      BY <2>2, <3>2, <3>3 DEF l
    <3> QED
      BY <2>1, <3>4 DEF Since
  <2>5. Since(table, d, h, h) = 0
    <3>1. SumFrom(table, d, h)[h] = Charge(d, table[h]) + SumFrom(table, d, h)[h - HourLen]
      BY <2>1, SumFromAt
    <3>2. h - HourLen \in Int /\ h - HourLen < h
      BY <2>1, HourLenType
    <3>3. SumFrom(table, d, h)[h - HourLen] = 0
      BY <2>1, <3>2, SumFromAt
    <3> QED
      BY <2>1, <2>2, <3>1, <3>3 DEF Since
  <2> QED
    BY <2>4, <2>5 DEF h
<1>2. CASE t + 1 \notin Hours
  <2>1. LocalHourStart(t + 1) = LocalHourStart(t)
    BY <1>2, HourTick
  <2> QED
    BY <1>2, <2>1 DEF Since
<1> QED
  BY <1>1, <1>2

\* A table with no more in any hour.
LEMMA SinceLess ==
  ASSUME NEW small \in Points, NEW large \in Points, NEW d \in Directions, NEW t \in 0..MaxNow, NEW from \in Nat,
         \A k \in Hours : Charge(d, small[k]) <= Charge(d, large[k])
  PROVE  Since(small, d, from, t) <= Since(large, d, from, t)
<1>1. t \in Nat /\ t <= MaxNow /\ MaxNow \in Int
  BY TimesAssumption
<1>2. LocalHourStart(from) \in Nat /\ LocalHourStart(t) \in Hours
  BY <1>1, HourAt
<1>3. LocalHourStart(t) \in Int /\ LocalHourStart(t) % HourLen = 0 /\ LocalHourStart(t) <= MaxNow
  BY <1>2, HourOf
<1> QED
  BY <1>1, <1>2, <1>3, SumLess DEF Since

-----------------------------------------------------------------------------
(* The invariant of QuotaWindows.                                          *)

Rows == [quota : Quota, since : 0..MaxNow]
RecPcs == {"idle", "update", "find", "sum", "reset"}
AdmPcs == {"idle", "apply", "undo", "totals"}

\* The types, with what a Reconcile and a request hold, and that every quota anywhere is one
\* the node was saved with.
QuotaTypeInv ==
    /\ QuotaTypeOK
    /\ row.quota \in qsc.quotas
    /\ q # Absent => q.quota \in qsc.quotas
    /\ IF qsc.kind = "gost"
       THEN conf \in [quota : Quota, win : Windows] /\ conf.quota \in qsc.quotas
       ELSE up /\ q = Absent
    /\ rec \in [pc : RecPcs, row : Rows \cup {Absent}, cur : GostQuota \cup {Absent}, used : Nat]
    /\ rec.pc # "idle" => qsc.kind = "gost" /\ rec.row \in Rows /\ rec.row.quota \in qsc.quotas
    /\ adm \in [pc : AdmPcs, old : Rows \cup {Absent}]
    /\ adm.pc = "apply" => adm.old \in Rows /\ adm.old.quota \in qsc.quotas

\* Hours to come have no bytes.
FutureInv == \A h \in Hours : h > now => points[h] = None /\ carried[h] = None

\* What has been sampled since the beginning of hour h, and what is about to be, was carried
\* since, or had been carried and not sampled by then.
SampledAt(d, h) == Since(points, d, h, now) + Charge(d, pend) <= Due(carried, late, d, h, now)
TotalsAt(d) == Charge(d, total) + Charge(d, pend) <= Due(carried, late, d, 0, now)

\* A later beginning leaves less to charge.
LaterAt(d, g, h) == Due(carried, late, d, h, now) <= Due(carried, late, d, g, now)

BytesInv ==
    /\ FutureInv
    /\ \A d \in Directions : TotalsAt(d)
    /\ \A d \in Directions : \A h \in Hours : h <= now => SampledAt(d, h)
    /\ \A d \in Directions : \A g, h \in Hours : g <= h /\ h <= now => LaterAt(d, g, h)

\* The sum that paused a reality node.
PausedInv ==
    paused # Absent =>
        /\ paused.at <= now
        /\ paused.used <= Due(carried, late, RealityDir(paused.by.dir),
                              QuotaWindow(paused.by.period, paused.at).from, now)

\* The condition under which gost's count is bounded; no step changes it.
Orderly == qsc.kind = "gost" /\ qsc.env \cap {"overlap", "findFail"} = {} /\ DirectionKept

\* A Reconcile and a request take turns, and a Reconcile works on the row that is there.
TurnsOK == rec.pc # "idle" => adm.pc = "idle" /\ rec.row = row

\* gost.yml has the quota that was last applied, in a window that is not ahead of time.
ConfOK ==
    /\ conf.quota = IF adm.pc = "apply" THEN adm.old.quota ELSE row.quota
    /\ conf.win.from <= QuotaWindow(conf.quota.period, now).from

\* No window is behind the one of gost.yml, which gost returns to when it starts again.
WindowsOK ==
    /\ row.since <= now
    /\ adm.pc = "apply" => adm.old.since <= now
    /\ file # Absent => file.win.from <= now
    /\ q # Absent => conf.win.from <= q.win.from /\ q.win.from <= now
    /\ rec.pc \in {"sum", "reset"} /\ rec.cur # Absent =>
           /\ conf.win.from <= rec.cur.win.from /\ rec.cur.win.from <= now
           /\ q # Absent => q.win.from <= rec.cur.win.from

\* Every count that is, or can still become, gost's.
CountsOK ==
    /\ q # Absent => q.used <= Due(carried, late, row.quota.dir, q.win.from, now)
    /\ file # Absent => file.used <= Due(carried, late, row.quota.dir, file.win.from, now)
    /\ rec.pc = "reset" =>
           rec.cur # Absent /\ rec.used <= Due(carried, late, row.quota.dir, rec.cur.win.from, now)

GostQuotaInv == TurnsOK /\ ConfOK /\ WindowsOK /\ CountsOK

QuotaInv == QuotaTypeInv /\ BytesInv /\ PausedInv /\ (Orderly => GostQuotaInv)

-----------------------------------------------------------------------------
(* Types of QuotaWindows                                                   *)

Periods == {"daily", "monthly", "total"}

LEMMA TimesTypes ==
  HourLen \in Nat \ {0} /\ DayLen \in Nat \ {0} /\ MonthLen \in Nat \ {0} /\ MaxNow \in Nat
  BY TimesAssumption

LEMMA WindowType ==
  ASSUME NEW p \in Periods, NEW t \in 0..MaxNow
  PROVE  QuotaWindow(p, t) \in Windows /\ QuotaWindow(p, t).from <= t
<1>1. t \in Nat
  BY TimesTypes
<1>2. Floor(t, DayLen) \in Nat /\ Floor(t, DayLen) <= t
  BY <1>1, FloorAt, TimesTypes
<1>a. Floor(t, MonthLen) \in Nat /\ Floor(t, MonthLen) <= t
  BY <1>1, FloorAt, TimesTypes
<1>3. CASE p = "daily"
  BY <1>2, <1>3, TimesTypes DEF QuotaWindow, Windows
<1>4. CASE p = "monthly"
  BY <1>a, <1>4, TimesTypes DEF QuotaWindow, Windows
<1>5. CASE p = "total"
  BY <1>1, <1>5 DEF QuotaWindow, Windows
<1> QED
  BY <1>3, <1>4, <1>5 DEF Periods

\* Windows move with time.
LEMMA WindowOrder ==
  ASSUME NEW p \in Periods, NEW s \in 0..MaxNow, NEW t \in 0..MaxNow, s <= t
  PROVE  QuotaWindow(p, s).from <= QuotaWindow(p, t).from
<1>1. s \in Nat /\ t \in Nat
  BY TimesTypes
<1>2. Floor(s, DayLen) <= Floor(t, DayLen) /\ Floor(s, MonthLen) <= Floor(t, MonthLen)
  BY <1>1, FloorOrder, TimesTypes
<1>3. CASE p = "daily"
  BY <1>2, <1>3 DEF QuotaWindow
<1>4. CASE p = "monthly"
  BY <1>2, <1>4 DEF QuotaWindow
<1>5. CASE p = "total"
  BY <1>5 DEF QuotaWindow
<1> QED
  BY <1>3, <1>4, <1>5 DEF Periods

LEMMA QuotaParts ==
  ASSUME NEW c \in Quota
  PROVE  c.period \in Periods /\ c.dir \in Directions /\ c.limit \in Nat
BY DEF Quota, Periods

LEMMA WantType ==
  ASSUME NEW c \in Quota, now \in 0..MaxNow
  PROVE  /\ WantQuota(c) \in [quota : Quota, win : Windows]
         /\ WantQuota(c).quota = c /\ WantQuota(c).win = QuotaWindow(c.period, now)
<1>1. QuotaWindow(c.period, now) \in Windows
  BY QuotaParts, WindowType
<1> QED
  BY <1>1 DEF WantQuota

LEMMA UpsertedType ==
  ASSUME NEW c \in Quota, now \in 0..MaxNow, q = Absent \/ q \in GostQuota
  PROVE  /\ Upserted(WantQuota(c)) \in GostQuota
         /\ Upserted(WantQuota(c)).quota = c /\ Upserted(WantQuota(c)).win = QuotaWindow(c.period, now)
<1>1. WantQuota(c).quota = c /\ WantQuota(c).win = QuotaWindow(c.period, now) /\ QuotaWindow(c.period, now) \in Windows
  BY WantType, QuotaParts, WindowType
<1>2. (IF q # Absent /\ q.win = WantQuota(c).win THEN q.used ELSE 0) \in Nat
  BY DEF GostQuota
<1> QED
  BY <1>1, <1>2 DEF Upserted, GostQuota

\* What the scenario allows.
LEMMA ScenarioTypes ==
  ASSUME qsc \in QuotaScenarios
  PROVE  /\ qsc.kind \in {"gost", "reality"} /\ qsc.quotas \subseteq Quota
         /\ qsc.flows \subseteq {"in", "out"} /\ qsc.until \in 0..MaxNow
BY QuotaScenariosAssumption DEF QuotaScenario

LEMMA NonePoints == [h \in Hours |-> None] \in Points /\ None \in Bytes
BY DEF Points, Bytes, None

LEMMA QuotaTypeInit == QuotaInit => QuotaTypeInv
<1> SUFFICES ASSUME QuotaInit PROVE QuotaTypeInv
  OBVIOUS
<1>1. now = 0 /\ now \in 0..MaxNow /\ events \in Nat
  BY TimesTypes DEF QuotaInit
<1>2. row \in Rows /\ row.quota \in qsc.quotas /\ row.quota \in Quota
  BY <1>1, ScenarioTypes DEF QuotaInit, Rows
<1>3. points \in Points /\ total \in Bytes /\ pend \in Bytes /\ carried \in Points /\ late \in Points
  BY NonePoints DEF QuotaInit
<1>4. WantQuota(row.quota) \in [quota : Quota, win : Windows] /\ WantQuota(row.quota).quota = row.quota
  BY <1>1, <1>2, WantType
<1>5. IF qsc.kind = "gost" THEN conf = WantQuota(row.quota) ELSE conf = Absent /\ up /\ q = Absent
  BY DEF QuotaInit
<1>6. q = Absent \/ (q \in GostQuota /\ q.quota \in qsc.quotas)
  <2>1. QuotaWindow(row.quota.period, now) \in Windows
    BY <1>1, <1>2, QuotaParts, WindowType
  <2> DEFINE g == [quota |-> row.quota, win |-> QuotaWindow(row.quota.period, now), used |-> 0]
  <2>2. g \in GostQuota /\ g.quota = row.quota
    BY <1>2, <2>1 DEF GostQuota
  <2>3. q = Absent \/ q = g
    BY DEF QuotaInit
  <2> HIDE DEF g
  <2> QED
    BY <1>2, <2>2, <2>3
<1>7. IF qsc.kind = "gost"
      THEN conf \in [quota : Quota, win : Windows] /\ conf.quota \in qsc.quotas
      ELSE up /\ q = Absent
  BY <1>2, <1>4, <1>5
<1>8. rec = RecIdle /\ RecIdle \in [pc : RecPcs, row : Rows \cup {Absent}, cur : GostQuota \cup {Absent}, used : Nat]
  BY DEF QuotaInit, RecIdle, RecPcs
<1>9. adm = AdmIdle /\ AdmIdle \in [pc : AdmPcs, old : Rows \cup {Absent}]
  BY DEF QuotaInit, AdmIdle, AdmPcs
<1>10. conf = Absent \/ conf \in [quota : Quota, win : Windows]
  BY <1>5, <1>7
<1>11. rec.pc = "idle" /\ adm.pc = "idle"
  BY <1>8, <1>9 DEF RecIdle, AdmIdle
<1>12. QuotaTypeOK
  BY <1>1, <1>2, <1>3, <1>6, <1>10, <1>11 DEF QuotaInit, QuotaTypeOK, Rows, Bytes
<1> QED
  BY <1>2, <1>6, <1>7, <1>8, <1>9, <1>11, <1>12 DEF QuotaTypeInv

\* Steps that keep the types, by who takes them.  The clock, the traffic and gost:
LEMMA QuotaTypeTick == QuotaTypeInv /\ Tick => QuotaTypeInv'
<1> SUFFICES ASSUME QuotaTypeInv, Tick PROVE QuotaTypeInv'
  OBVIOUS
<1>1. now' \in 0..MaxNow
  <2>1. qsc.until \in 0..MaxNow /\ now \in 0..MaxNow
    BY ScenarioTypes DEF QuotaTypeInv, QuotaTypeOK
  <2> QED
    BY <2>1, TimesTypes DEF Tick
<1>2. late' \in Points
  BY DEF Tick, QuotaTypeInv, QuotaTypeOK, Points
<1> QED
  BY <1>1, <1>2 DEF Tick, QuotaTypeInv, QuotaTypeOK, records, gost

LEMMA QuotaTypeCarry ==
  ASSUME QuotaTypeInv, NEW d \in qsc.flows, Carry(d)
  PROVE  QuotaTypeInv'
<1>1. d \in {"in", "out"}
  BY ScenarioTypes DEF QuotaTypeInv, QuotaTypeOK
<1>2. pend' \in Bytes
  BY <1>1 DEF Carry, QuotaTypeInv, QuotaTypeOK, Bytes
<1>3. carried' \in Points
  <2> DEFINE h == LocalHourStart(now)
  <2>1. h \in Hours
    BY BegunHour, TimesTypes DEF QuotaTypeInv, QuotaTypeOK
  <2>2. carried \in [Hours -> Bytes]
    BY DEF QuotaTypeInv, QuotaTypeOK, Points, Bytes
  <2>3. carried' = [carried EXCEPT ![h] = [carried[h] EXCEPT ![d] = @ + 1]]
    BY DEF Carry
  <2> HIDE DEF h
  <2>4. [carried[h] EXCEPT ![d] = @ + 1] \in Bytes
    BY <1>1, <2>1, <2>2, ChargeByte, "in" \in Directions DEF Directions
  <2>5. PICK r \in Bytes : r = [carried[h] EXCEPT ![d] = @ + 1]
    BY <2>4
  <2>6. carried' = [carried EXCEPT ![h] = r]
    BY <2>3, <2>5
  <2>7. carried' \in [Hours -> Bytes]
    BY <2>2, <2>5, <2>6
  <2> QED
    BY <2>7 DEF Points, Bytes
<1>4. /\ q' = Absent \/ q' \in GostQuota
      /\ q' # Absent => q'.quota \in qsc.quotas
      /\ q = Absent => q' = Absent
  <2>1. CASE q # Absent /\ q.quota.dir \in {d, "total"}
    <3>1. PICK counts \in {0, 1} : q' = [q EXCEPT !.used = @ + counts]
      BY <2>1 DEF Carry
    <3> QED
      BY <2>1, <3>1 DEF QuotaTypeInv, QuotaTypeOK, GostQuota
  <2>2. CASE ~(q # Absent /\ q.quota.dir \in {d, "total"})
    BY <2>2 DEF Carry, QuotaTypeInv, QuotaTypeOK
  <2> QED
    BY <2>1, <2>2
<1> QED
  BY <1>2, <1>3, <1>4 DEF Carry, QuotaTypeInv, QuotaTypeOK, records, Bytes

LEMMA QuotaTypeGost == QuotaTypeInv /\ Gost => QuotaTypeInv'
<1> SUFFICES ASSUME QuotaTypeInv, Gost PROVE QuotaTypeInv'
  OBVIOUS
<1>1. CASE Flush
  <2>1. file' \in [win : Windows, used : Nat]
    BY <1>1 DEF Flush, QuotaTypeInv, QuotaTypeOK, GostQuota
  <2> QED
    BY <1>1, <2>1 DEF Flush, QuotaTypeInv, QuotaTypeOK, records, truth
<1>2. CASE GostCrash
  <2>0. None \in [in : Nat, out : Nat]
    BY NonePoints DEF Bytes
  <2>1. pend' \in [in : Nat, out : Nat] /\ events' \in Nat /\ up' \in BOOLEAN
    <3>1. pend' = None /\ events' = events + 1 /\ up' = FALSE
      BY <1>2 DEF GostCrash, Spend
    <3>2. events \in Nat
      BY DEF QuotaTypeInv, QuotaTypeOK
    <3>3. up' \in BOOLEAN
      BY <3>1, Zenon
    <3> QED
      BY <2>0, <3>1, <3>2, <3>3
  <2>2. QuotaTypeOK'
    BY <1>2, <2>1 DEF GostCrash, QuotaTypeInv, QuotaTypeOK, records, truth
  <2> QED
    BY <1>2, <2>2 DEF GostCrash, QuotaTypeInv, records, truth
<1>3. CASE GostStart
  <2>1. conf \in [quota : Quota, win : Windows] /\ conf.quota \in qsc.quotas /\ qsc.kind = "gost"
    BY <1>3 DEF GostStart, QuotaTypeInv
  <2>2. (IF file # Absent /\ file.win = conf.win THEN file.used ELSE 0) \in Nat
    BY DEF QuotaTypeInv, QuotaTypeOK
  <2>3. q' \in GostQuota /\ q'.quota = conf.quota
    BY <1>3, <2>1, <2>2 DEF GostStart, GostQuota
  <2> QED
    BY <1>3, <2>1, <2>3 DEF GostStart, QuotaTypeInv, QuotaTypeOK, records, truth
<1> QED
  BY <1>1, <1>2, <1>3 DEF Gost

\* Record, in either sampler, adds to the present hour and to the totals.
LEMMA QuotaTypeRecord ==
  ASSUME QuotaTypeInv, Record
  PROVE  points' \in Points /\ total' \in Bytes /\ pend' \in Bytes
<1> DEFINE h == LocalHourStart(now)
<1>1. h \in Hours
  BY BegunHour, TimesTypes DEF QuotaTypeInv, QuotaTypeOK
<1>2. points \in [Hours -> Bytes] /\ total \in Bytes /\ pend \in Bytes
  BY DEF QuotaTypeInv, QuotaTypeOK, Points, Bytes
<1>3. points' = [points EXCEPT ![h] = Plus(@, pend)] /\ total' = Plus(total, pend) /\ pend' = None
  BY DEF Record, AddTraffic
<1> HIDE DEF h
<1>4. Plus(points[h], pend) \in Bytes /\ Plus(total, pend) \in Bytes
  BY <1>1, <1>2, ChargePlus, "in" \in Directions DEF Directions
<1> QED
  BY <1>2, <1>3, <1>4, NonePoints DEF Points, Bytes

LEMMA QuotaTypeSample == QuotaTypeInv /\ Sample => QuotaTypeInv'
<1> SUFFICES ASSUME QuotaTypeInv, Sample PROVE QuotaTypeInv'
  OBVIOUS
<1>1. points' \in Points /\ total' \in Bytes /\ pend' \in Bytes
  BY QuotaTypeRecord DEF Sample, SampleGost, SampleReality
<1>2. CASE SampleGost
  BY <1>1, <1>2 DEF SampleGost, QuotaTypeInv, QuotaTypeOK, gost, truth, Bytes
<1>3. CASE SampleReality
  <2>1. row.quota \in Quota /\ now \in 0..MaxNow /\ now' = now /\ row' = row
    BY <1>3 DEF SampleReality, QuotaTypeInv, QuotaTypeOK
  <2>2. RealityDir(row.quota.dir) \in Directions
    BY DEF RealityDir, Directions
  <2>3. QuotaWindow(row.quota.period, now).from \in Nat
    BY <2>1, QuotaParts, WindowType DEF Windows
  <2>4. RealityUsed \in Nat
    <3>1. Charge(RealityDir(row.quota.dir), total') \in Nat
      BY <1>1, <2>2, ChargeType
    <3>2. RangeTraffic(points', RealityDir(row.quota.dir), QuotaWindow(row.quota.period, now).from) \in Nat
      BY <1>1, <2>1, <2>2, <2>3, SinceType, RangeIs
    <3> QED
      BY <3>1, <3>2 DEF RealityUsed
  <2>5. PICK used : used = RealityUsed
    OBVIOUS
  <2>6. paused' = [by |-> row.quota, at |-> now, blocked |-> used >= row.quota.limit, used |-> used]
    BY <1>3, <2>5 DEF SampleReality
  <2>7. paused' \in [by : Quota, at : 0..MaxNow, blocked : BOOLEAN, used : Nat]
    BY <2>1, <2>4, <2>5, <2>6
  <2>8. run' \in BOOLEAN /\ events' \in Nat
    <3>1. (run' = ~(used >= row.quota.limit) /\ events' = events) \/ (run' = run /\ events' = events + 1)
      BY <1>3, <2>5 DEF SampleReality, Spend
    <3>2. events' \in Nat
      BY <3>1 DEF QuotaTypeInv, QuotaTypeOK
    <3>3. run' \in BOOLEAN
      BY <3>1, Zenon DEF QuotaTypeInv, QuotaTypeOK
    <3> QED
      BY <3>2, <3>3
  <2> QED
    BY <1>1, <1>3, <2>7, <2>8 DEF SampleReality, QuotaTypeInv, QuotaTypeOK, gost, truth, Bytes
<1> QED
  BY <1>2, <1>3 DEF Sample

LEMMA QuotaTypePrune == QuotaTypeInv /\ Prune => QuotaTypeInv'
<1> SUFFICES ASSUME QuotaTypeInv, Prune PROVE QuotaTypeInv'
  OBVIOUS
<1>1. points' \in Points
  <2>1. points \in [Hours -> Bytes]
    BY DEF QuotaTypeInv, QuotaTypeOK, Points, Bytes
  <2>2. \A h \in Hours : (IF h < LocalHourStart(now - Retention) THEN None ELSE points[h]) \in Bytes
    BY <2>1, NonePoints
  <2>3. points' = [h \in Hours |-> IF h < LocalHourStart(now - Retention) THEN None ELSE points[h]]
    BY DEF Prune
  <2> QED
    BY <2>2, <2>3 DEF Points, Bytes
<1> QED
  BY <1>1 DEF Prune, QuotaTypeInv, QuotaTypeOK, gost, truth, Spend

\* The sum that Reconcile compares with gost's count.
LEMMA WindowUsedType ==
  ASSUME QuotaTypeInv, rec.pc = "sum", rec.cur # Absent
  PROVE  WindowUsed \in Nat
<1> DEFINE from == IF rec.row.since > rec.cur.win.from THEN rec.row.since ELSE rec.cur.win.from
<1>1. rec.row \in Rows /\ rec.cur \in GostQuota
  BY DEF QuotaTypeInv
<1>2. rec.row.since \in Nat /\ rec.cur.win.from \in Nat /\ rec.row.quota.dir \in Directions
  BY <1>1, TimesTypes, QuotaParts DEF Rows, GostQuota, Windows
<1>3. from \in Nat
  BY <1>2
<1>4. WindowUsed = Since(points, rec.row.quota.dir, from, now)
  BY RangeIs DEF WindowUsed
<1>5. points \in Points /\ now \in 0..MaxNow
  BY DEF QuotaTypeInv, QuotaTypeOK
<1> HIDE DEF from
<1> QED
  BY <1>2, <1>3, <1>4, <1>5, SinceType

\* Reconcile:
LEMMA QuotaTypeReconcile == QuotaTypeInv /\ Reconcile => QuotaTypeInv'
<1> SUFFICES ASSUME QuotaTypeInv, Reconcile PROVE QuotaTypeInv'
  OBVIOUS
<1> DEFINE Recs == [pc : RecPcs, row : Rows \cup {Absent}, cur : GostQuota \cup {Absent}, used : Nat]
<1>0. rec \in Recs /\ (rec.pc # "idle" => qsc.kind = "gost" /\ rec.row \in Rows /\ rec.row.quota \in qsc.quotas)
  BY DEF QuotaTypeInv
<1>a. RecIdle \in Recs /\ RecIdle.pc = "idle"
  BY DEF RecIdle, RecPcs
<1>b. row \in Rows /\ row.quota \in qsc.quotas /\ q \in GostQuota \cup {Absent}
  BY DEF QuotaTypeInv, QuotaTypeOK, Rows
<1>1. CASE RecList
  <2>1. \E pc \in {"update", "sum"} : rec' = [rec EXCEPT !.pc = pc, !.row = row, !.cur = q]
    BY <1>1 DEF RecList
  <2>2. rec' \in Recs /\ rec'.pc \in {"update", "sum"} /\ rec'.row = row
    BY <1>0, <1>b, <2>1 DEF RecPcs
  <2> QED
    BY <1>1, <1>b, <2>2 DEF RecList, QuotaTypeInv, QuotaTypeOK, records, gost, truth
<1>2. CASE RecUpdate
  <2>1. qsc.kind = "gost" /\ rec.row \in Rows /\ rec.row.quota \in qsc.quotas /\ rec.row.quota \in Quota
    BY <1>0, <1>2 DEF RecUpdate, Rows
  <2>2. q' \in GostQuota /\ q'.quota = rec.row.quota
    <3>1. q' = Upserted(WantQuota(rec.row.quota))
      BY <1>2 DEF RecUpdate, RecWant
    <3> QED
      BY <2>1, <3>1, UpsertedType DEF QuotaTypeInv, QuotaTypeOK
  <2>3. rec' \in Recs /\ rec'.pc = "find" /\ rec'.row = rec.row
    BY <1>0, <1>2 DEF RecUpdate, RecPcs
  <2> QED
    BY <1>2, <2>1, <2>2, <2>3 DEF RecUpdate, QuotaTypeInv, QuotaTypeOK, records, truth
<1>3. CASE RecFind
  <2>1. \E cur \in {q, rec.cur} : rec' = [rec EXCEPT !.pc = "sum", !.cur = cur]
    BY <1>0, <1>3 DEF RecFind
  <2>2. rec' \in Recs /\ rec'.pc = "sum" /\ rec'.row = rec.row
    BY <1>0, <1>b, <2>1 DEF RecPcs
  <2>3. events' \in Nat
    BY <1>3 DEF RecFind, Spend, QuotaTypeInv, QuotaTypeOK
  <2>4. rec.pc # "idle"
    BY <1>3 DEF RecFind
  <2> QED
    BY <1>0, <1>3, <2>2, <2>3, <2>4 DEF RecFind, QuotaTypeInv, QuotaTypeOK, records, gost, truth
<1>4. CASE RecSum
  <2>1. rec' = RecIdle \/ (rec.cur # Absent /\ rec' = [rec EXCEPT !.pc = "reset", !.used = WindowUsed])
    BY <1>4 DEF RecSum
  <2>2. rec.pc = "sum" /\ rec.pc # "idle"
    BY <1>4 DEF RecSum
  <2>3. rec' \in Recs /\ rec'.pc \in {"idle", "reset"} /\ (rec'.pc # "idle" => rec'.row = rec.row)
    <3>1. CASE rec' = RecIdle
      BY <1>a, <3>1
    <3>2. CASE rec.cur # Absent /\ rec' = [rec EXCEPT !.pc = "reset", !.used = WindowUsed]
      <4>1. WindowUsed \in Nat
        BY <2>2, <3>2, WindowUsedType
      <4> QED
        BY <1>0, <3>2, <4>1 DEF RecPcs
    <3> QED
      BY <2>1, <3>1, <3>2
  <2> QED
    BY <1>0, <1>4, <2>2, <2>3 DEF RecSum, QuotaTypeInv, QuotaTypeOK, records, gost, truth
<1>5. CASE RecReset
  <2>1. q' \in GostQuota /\ q'.quota = q.quota /\ rec' = RecIdle /\ q # Absent
    BY <1>0, <1>5 DEF RecReset, QuotaTypeInv, QuotaTypeOK, GostQuota
  <2>2. qsc.kind = "gost"
    BY <1>0, <1>5 DEF RecReset
  <2> QED
    BY <1>a, <1>5, <2>1, <2>2 DEF RecReset, QuotaTypeInv, QuotaTypeOK, records, truth
<1>6. CASE RecFail
  <2>1. rec' = RecIdle /\ events' \in Nat
    BY <1>6 DEF RecFail, Spend, QuotaTypeInv, QuotaTypeOK
  <2> QED
    BY <1>a, <1>6, <2>1 DEF RecFail, QuotaTypeInv, QuotaTypeOK, records, gost, truth
<1> QED
  BY <1>1, <1>2, <1>3, <1>4, <1>5, <1>6 DEF Reconcile

\* The admin:
LEMMA QuotaTypeAdmin == QuotaTypeInv /\ Admin => QuotaTypeInv'
<1> SUFFICES ASSUME QuotaTypeInv, Admin PROVE QuotaTypeInv'
  OBVIOUS
<1> DEFINE Adms == [pc : AdmPcs, old : Rows \cup {Absent}]
<1>0. adm \in Adms /\ (adm.pc = "apply" => adm.old \in Rows /\ adm.old.quota \in qsc.quotas)
  BY DEF QuotaTypeInv
<1>a. AdmIdle \in Adms /\ AdmIdle.pc = "idle"
  BY DEF AdmIdle, AdmPcs
<1>b. row \in Rows /\ row.quota \in qsc.quotas /\ qsc.quotas \subseteq Quota /\ now \in 0..MaxNow
  BY ScenarioTypes DEF QuotaTypeInv, QuotaTypeOK, Rows
<1>1. ASSUME NEW c \in qsc.quotas, EditSave(c) PROVE QuotaTypeInv'
  <2>1. row' = [quota |-> c, since |-> now] /\ row' \in Rows /\ row'.quota = c
    BY <1>1, <1>b DEF EditSave, Rows
  <2>2. adm' = [pc |-> "apply", old |-> row] /\ adm' \in Adms /\ adm'.pc = "apply" /\ adm'.old = row
    BY <1>1, <1>b DEF EditSave, AdmPcs
  <2>3. events' \in Nat
    BY <1>1 DEF EditSave, Spend, QuotaTypeInv, QuotaTypeOK
  <2> QED
    BY <1>1, <1>b, <2>1, <2>2, <2>3 DEF EditSave, QuotaTypeInv, QuotaTypeOK, Rows, records, gost, truth
<1>2. CASE EditApply
  <2>1. adm' = AdmIdle
    BY <1>2 DEF EditApply
  <2>2. CASE qsc.kind = "gost"
    <3>1. q' = Upserted(WantQuota(row.quota)) /\ conf' = WantQuota(row.quota) /\ run' = run
      BY <1>2, <2>2 DEF EditApply
    <3>2. q' \in GostQuota /\ q'.quota = row.quota
      BY <1>b, <3>1, UpsertedType DEF QuotaTypeInv, QuotaTypeOK
    <3>3. conf' \in [quota : Quota, win : Windows] /\ conf'.quota = row.quota
      BY <1>b, <3>1, WantType
    <3> QED
      BY <1>2, <1>a, <1>b, <2>1, <2>2, <3>1, <3>2, <3>3 DEF EditApply, QuotaTypeInv, QuotaTypeOK, records, truth
  <2>3. CASE qsc.kind # "gost"
    <3>1. q' = q /\ conf' = conf
      BY <1>2, <2>3 DEF EditApply
    <3>2. run' \in BOOLEAN
      <4>1. run' = TRUE
        BY <1>2, <2>3 DEF EditApply
      <4> QED
        BY <4>1, Zenon
    <3> QED
      BY <1>2, <1>a, <2>1, <2>3, <3>1, <3>2 DEF EditApply, QuotaTypeInv, QuotaTypeOK, records, truth
  <2> QED
    BY <2>2, <2>3
<1>3. CASE EditFail
  <2>1. events' \in Nat
    BY <1>3 DEF EditFail, Spend, QuotaTypeInv, QuotaTypeOK
  <2>2. CASE adm.pc = "apply"
    <3>1. row' = adm.old /\ adm' = [adm EXCEPT !.pc = "undo"]
      BY <1>3, <2>2 DEF EditFail
    <3>2. adm' \in Adms /\ adm'.pc = "undo"
      BY <1>0, <3>1 DEF AdmPcs
    <3> QED
      BY <1>0, <1>3, <2>1, <2>2, <3>1, <3>2 DEF EditFail, QuotaTypeInv, QuotaTypeOK, Rows, records, gost, truth
  <2>3. CASE adm.pc # "apply"
    <3>1. row' = row /\ adm' = AdmIdle
      BY <1>3, <2>3 DEF EditFail
    <3> QED
      BY <1>a, <1>3, <2>1, <3>1 DEF EditFail, QuotaTypeInv, QuotaTypeOK, records, gost, truth
  <2> QED
    BY <2>2, <2>3
<1>4. CASE ResetZero
  <2>1. q # Absent /\ q \in GostQuota /\ q' = [q EXCEPT !.used = 0]
    BY <1>4 DEF ResetZero, QuotaTypeInv, QuotaTypeOK
  <2>2. q' \in GostQuota /\ q'.quota = q.quota
    BY <2>1 DEF GostQuota
  <2>3. mark' \in Nat
    <3>1. q.quota.dir \in Directions
      BY <2>1, QuotaParts DEF GostQuota
    <3>2. mark' = Since(carried, q.quota.dir, 0, now)
      BY <1>4, RangeIs DEF ResetZero, Carried
    <3> QED
      BY <1>b, <3>1, <3>2, SinceType DEF QuotaTypeInv, QuotaTypeOK
  <2>4. adm' \in Adms /\ adm'.pc = "totals"
    BY <1>0, <1>4 DEF ResetZero, AdmPcs
  <2>5. events' \in Nat
    BY <1>4 DEF ResetZero, Spend, QuotaTypeInv, QuotaTypeOK
  <2> QED
    BY <1>4, <2>1, <2>2, <2>3, <2>4, <2>5 DEF ResetZero, QuotaTypeInv, QuotaTypeOK, records
<1>5. CASE ResetTotals
  <2>1. total' \in [in : Nat, out : Nat]
    BY <1>5, NonePoints DEF ResetTotals, Bytes
  <2> QED
    BY <1>a, <1>5, <2>1 DEF ResetTotals, QuotaTypeInv, QuotaTypeOK, gost, truth
<1> QED
  BY <1>1, <1>2, <1>3, <1>4, <1>5 DEF Admin

LEMMA QuotaTypeStep == QuotaTypeInv /\ [QuotaNext]_quotaVars => QuotaTypeInv'
<1> SUFFICES ASSUME QuotaTypeInv, [QuotaNext]_quotaVars PROVE QuotaTypeInv'
  OBVIOUS
<1>1. CASE UNCHANGED quotaVars
  BY <1>1 DEF quotaVars, QuotaTypeInv, QuotaTypeOK
<1> QED
  BY <1>1, QuotaTypeTick, QuotaTypeCarry, QuotaTypeGost, QuotaTypeSample, QuotaTypePrune,
     QuotaTypeReconcile, QuotaTypeAdmin DEF QuotaNext

\* The state of QuotaWindows is of its types, for every scenario and all lengths of hours,
\* days and months: quotas are quotas the node was saved with, sums are sums of bytes.
THEOREM QuotaTypeCorrect == QuotaSpec => []QuotaTypeOK
<1>1. QuotaTypeInv => QuotaTypeOK
  BY DEF QuotaTypeInv
<1> QED
  BY <1>1, QuotaTypeInit, QuotaTypeStep, PTL DEF QuotaSpec

-----------------------------------------------------------------------------
(* What was carried bounds what was sampled.                               *)

\* The tables and the clock, which everything below is about.
LEMMA BytesTypes ==
  ASSUME QuotaTypeInv
  PROVE  /\ points \in Points /\ carried \in Points /\ late \in Points
         /\ total \in Bytes /\ pend \in Bytes
         /\ now \in 0..MaxNow /\ now \in Nat /\ now <= MaxNow
         /\ LocalHourStart(now) \in Hours
         /\ \A h \in Hours : h \in Nat
<1>1. now \in 0..MaxNow /\ points \in Points /\ carried \in Points /\ late \in Points
      /\ total \in Bytes /\ pend \in Bytes
  BY DEF QuotaTypeInv, QuotaTypeOK, Bytes
<1> QED
  BY <1>1, BegunHour, HourOf, TimesTypes

LEMMA BytesInit == QuotaInit => BytesInv
<1> SUFFICES ASSUME QuotaInit PROVE BytesInv
  OBVIOUS
<1>1. QuotaTypeInv
  BY QuotaTypeInit
<1>2. now = 0 /\ points = [h \in Hours |-> None] /\ carried = points /\ late = points /\ pend = None /\ total = None
  BY DEF QuotaInit
<1>3. FutureInv
  BY <1>2 DEF FutureInv
<1>4. \A d \in Directions : \A h \in Hours :
         h <= now => Charge(d, pend) = 0 /\ Charge(d, total) = 0
                     /\ Since(points, d, h, now) \in Nat /\ Due(carried, late, d, h, now) = Since(points, d, h, now)
  <2> SUFFICES ASSUME NEW d \in Directions, NEW h \in Hours, h <= now
               PROVE  Charge(d, pend) = 0 /\ Charge(d, total) = 0
                      /\ Since(points, d, h, now) \in Nat /\ Due(carried, late, d, h, now) = Since(points, d, h, now)
    OBVIOUS
  <2>1. Charge(d, pend) = 0 /\ Charge(d, total) = 0
    BY <1>2, ChargeNone
  <2>2. Since(points, d, h, now) \in Nat
    BY <1>1, BytesTypes, SinceType
  <2>3. LocalHourStart(h) = h
    BY HourOf
  <2>4. Charge(d, late[LocalHourStart(h)]) = 0
    BY <1>2, <2>3, ChargeNone
  <2> QED
    BY <1>2, <2>1, <2>2, <2>4 DEF Due
<1>5. 0 \in Hours /\ (\A h \in Hours : h <= now => h = 0)
  <2>1. 0 % HourLen = 0
    BY TimesTypes
  <2> QED
    BY <1>1, <1>2, <2>1, BytesTypes DEF Hours
<1>6. \A d \in Directions : TotalsAt(d)
  BY <1>2, <1>4, <1>5 DEF TotalsAt
<1>7. \A d \in Directions : \A h \in Hours : h <= now => SampledAt(d, h)
  BY <1>4 DEF SampledAt
<1>8. \A d \in Directions : \A g, h \in Hours : g <= h /\ h <= now => LaterAt(d, g, h)
  BY <1>1, <1>2, <1>4, <1>5, BytesTypes DEF LaterAt
<1> QED
  BY <1>3, <1>6, <1>7, <1>8 DEF BytesInv

\* An hour's beginning.  What is unsampled then is no more than could be charged since any
\* earlier hour.
LEMMA BytesTick ==
  ASSUME QuotaTypeInv, BytesInv, Tick
  PROVE  /\ BytesInv'
         /\ \A d \in Directions : \A from \in Nat :
               from <= now => Due(carried, late, d, from, now)' = Due(carried, late, d, from, now)
<1>1. now \in Nat /\ now + 1 <= MaxNow /\ now' = now + 1 /\ now' \in 0..MaxNow /\ now \in 0..MaxNow
  BY QuotaTypeTick, BytesTypes, TimesTypes DEF Tick, QuotaTypeInv, QuotaTypeOK
<1>2. points' = points /\ carried' = carried /\ total' = total /\ pend' = pend
  BY DEF Tick, records
<1>3. points \in Points /\ carried \in Points /\ late \in Points /\ pend \in Bytes /\ total \in Bytes
      /\ \A h \in Hours : h \in Nat
  BY BytesTypes
<1>4. \A h \in Hours : h > now => points[h] = None /\ carried[h] = None
  BY DEF BytesInv, FutureInv
<1>5. \A h \in Hours : h <= now => late'[h] = late[h]
  BY <1>1, <1>3 DEF Tick, Points
<1>6. now + 1 \in Hours => late'[now + 1] = pend
  BY <1>3 DEF Tick, Points
<1>7. ASSUME NEW d \in Directions
      PROVE  /\ \A from \in Nat : from <= now => Since(points, d, from, now + 1) = Since(points, d, from, now)
             /\ \A from \in Nat : from <= now => Since(carried, d, from, now + 1) = Since(carried, d, from, now)
             /\ now + 1 \in Hours => Since(points, d, now + 1, now + 1) = 0 /\ Since(carried, d, now + 1, now + 1) = 0
  BY <1>1, <1>3, <1>4, SinceTick
<1>8. ASSUME NEW d \in Directions, NEW from \in Nat, from <= now
      PROVE  Due(carried', late', d, from, now') = Due(carried, late, d, from, now)
  <2>1. LocalHourStart(from) \in Hours /\ LocalHourStart(from) <= now
    BY <1>1, <1>8, BegunHour
  <2>2. late'[LocalHourStart(from)] = late[LocalHourStart(from)]
    BY <1>5, <2>1
  <2> QED
    BY <1>1, <1>2, <1>7, <1>8, <2>2 DEF Due
<1>9. ASSUME NEW d \in Directions, now + 1 \in Hours
      PROVE  Due(carried', late', d, now + 1, now') = Charge(d, pend) /\ Charge(d, pend) \in Nat
  <2>1. LocalHourStart(now + 1) = now + 1
    BY <1>9, HourOf
  <2>2. Charge(d, pend) \in Nat
    BY <1>3, ChargeType
  <2> QED
    BY <1>1, <1>2, <1>6, <1>7, <1>9, <2>1, <2>2 DEF Due
<1>10. \A h \in Hours : h <= now' <=> h <= now \/ (h = now + 1 /\ now + 1 \in Hours)
  BY <1>1, <1>3
<1>11. FutureInv'
  BY <1>1, <1>2, <1>3, <1>4 DEF FutureInv
<1>12. ASSUME NEW d \in Directions PROVE TotalsAt(d)'
  <2>1. TotalsAt(d)
    BY DEF BytesInv
  <2>2. Due(carried', late', d, 0, now') = Due(carried, late, d, 0, now)
    BY <1>1, <1>8
  <2> QED
    BY <1>2, <2>1, <2>2 DEF TotalsAt
<1>13. ASSUME NEW d \in Directions, NEW h \in Hours, h <= now' PROVE SampledAt(d, h)'
  <2>1. CASE h <= now
    <3>1. SampledAt(d, h)
      BY <2>1 DEF BytesInv
    <3>2. Since(points, d, h, now + 1) = Since(points, d, h, now) /\ Due(carried', late', d, h, now') = Due(carried, late, d, h, now)
      BY <1>3, <1>7, <1>8, <2>1
    <3> QED
      BY <1>1, <1>2, <3>1, <3>2 DEF SampledAt
  <2>2. CASE h = now + 1
    <3>1. Since(points, d, h, now + 1) = 0 /\ Due(carried', late', d, h, now') = Charge(d, pend) /\ Charge(d, pend) \in Nat
      BY <1>7, <1>9, <2>2
    <3> QED
      BY <1>1, <1>2, <3>1 DEF SampledAt
  <2> QED
    BY <1>10, <1>13, <2>1, <2>2
<1>14. ASSUME NEW d \in Directions, NEW g \in Hours, NEW h \in Hours, g <= h, h <= now' PROVE LaterAt(d, g, h)'
  <2>1. CASE h <= now
    <3>1. g <= now
      BY <1>1, <1>3, <1>14, <2>1
    <3>2. LaterAt(d, g, h)
      BY <1>14, <2>1 DEF BytesInv
    <3> QED
      BY <1>3, <1>8, <2>1, <3>1, <3>2 DEF LaterAt
  <2>2. CASE h = now + 1 /\ g = h
    <3>1. Due(carried', late', d, h, now') \in Nat
      BY <1>9, <2>2
    <3> QED
      BY <2>2, <3>1 DEF LaterAt
  <2>3. CASE h = now + 1 /\ g # h
    <3>1. g <= now /\ g \in Nat
      BY <1>1, <1>3, <1>14, <2>3
    <3>2. Since(points, d, g, now) + Charge(d, pend) <= Due(carried, late, d, g, now)
      BY <3>1 DEF BytesInv, SampledAt
    <3>3. Since(points, d, g, now) \in Nat /\ Charge(d, pend) \in Nat /\ Due(carried, late, d, g, now) \in Nat
      BY <1>1, <1>3, <3>1, SinceType, ChargeType, DueType
    <3>4. Due(carried', late', d, h, now') = Charge(d, pend) /\ Due(carried', late', d, g, now') = Due(carried, late, d, g, now)
      BY <1>8, <1>9, <2>3, <3>1
    <3> QED
      BY <3>2, <3>3, <3>4 DEF LaterAt
  <2> QED
    BY <1>10, <1>14, <2>1, <2>2, <2>3
<1> QED
  BY <1>8, <1>11, <1>12, <1>13, <1>14 DEF BytesInv

\* What may be charged since a time that has come never becomes less.
Grows ==
    \A d \in Directions : \A from \in Nat :
        from <= now => Due(carried, late, d, from, now) <= Due(carried', late', d, from, now')

\* Steps that carry nothing and let no time pass: what was recorded or is unsampled may only
\* become less.
LEMMA BytesLess ==
  ASSUME QuotaTypeInv, BytesInv, UNCHANGED <<now, carried, late>>,
         points' \in Points, total' \in Bytes, pend' \in Bytes,
         \A h \in Hours : points'[h] \in {points[h], None},
         \A d \in Directions : Charge(d, pend') <= Charge(d, pend) /\ Charge(d, total') <= Charge(d, total)
  PROVE  BytesInv' /\ Grows
<1>1. /\ points \in Points /\ total \in Bytes /\ pend \in Bytes /\ now \in 0..MaxNow /\ \A h \in Hours : h \in Nat
      /\ carried \in Points /\ late \in Points
  BY BytesTypes
<1>2. \A d \in Directions : \A h \in Hours : Charge(d, points'[h]) <= Charge(d, points[h])
  <2>1. \A d \in Directions : \A h \in Hours : Charge(d, points[h]) \in Nat
    BY <1>1, ChargeType DEF Points, Bytes
  <2> QED
    BY <2>1, ChargeNone
<1>3. FutureInv'
  BY DEF BytesInv, FutureInv
<1>4. ASSUME NEW d \in Directions PROVE TotalsAt(d)'
  <2>1. TotalsAt(d)
    BY DEF BytesInv
  <2>2. Charge(d, total) \in Nat /\ Charge(d, pend) \in Nat /\ Charge(d, total') \in Nat /\ Charge(d, pend') \in Nat
    BY <1>1, ChargeType
  <2>3. Due(carried, late, d, 0, now) \in Nat
    BY <1>1, DueType, BytesTypes
  <2> QED
    BY <2>1, <2>2, <2>3 DEF TotalsAt
<1>5. ASSUME NEW d \in Directions, NEW h \in Hours, h <= now PROVE SampledAt(d, h)'
  <2>1. SampledAt(d, h)
    BY <1>5 DEF BytesInv
  <2>2. Since(points', d, h, now) <= Since(points, d, h, now)
    BY <1>1, <1>2, SinceLess
  <2>3. Since(points, d, h, now) \in Nat /\ Since(points', d, h, now) \in Nat
    BY <1>1, SinceType
  <2>4. Charge(d, pend) \in Nat /\ Charge(d, pend') \in Nat /\ Due(carried, late, d, h, now) \in Nat
    BY <1>1, <1>5, ChargeType, DueType
  <2> QED
    BY <2>1, <2>2, <2>3, <2>4 DEF SampledAt
<1>6. ASSUME NEW d \in Directions, NEW g \in Hours, NEW h \in Hours, g <= h, h <= now PROVE LaterAt(d, g, h)'
  BY <1>6 DEF BytesInv, LaterAt
<1>7. Grows
  BY <1>1, DueType DEF Grows
<1> QED
  BY <1>3, <1>4, <1>5, <1>6, <1>7 DEF BytesInv

\* A byte carried adds to what may be charged as much as to what is unsampled.
LEMMA BytesCarry ==
  ASSUME QuotaTypeInv, BytesInv, NEW e \in qsc.flows, Carry(e)
  PROVE  /\ BytesInv' /\ Grows
         /\ \A d \in Directions : \A from \in Nat : from <= now =>
               Due(carried', late', d, from, now')
                   = Due(carried, late, d, from, now) + (IF d \in {e, "total"} THEN 1 ELSE 0)
<1> DEFINE hour == LocalHourStart(now)
           More(d) == IF d \in {e, "total"} THEN 1 ELSE 0
<1>1. /\ points \in Points /\ total \in Bytes /\ pend \in Bytes /\ now \in 0..MaxNow /\ \A h \in Hours : h \in Nat
      /\ carried \in Points /\ late \in Points /\ hour \in Hours /\ now \in Nat /\ hour <= now
  BY BytesTypes, BegunHour, HourAt
<1>2. e \in {"in", "out"}
  BY ScenarioTypes DEF QuotaTypeInv, QuotaTypeOK
<1>3. now' = now /\ late' = late /\ points' = points /\ total' = total
      /\ pend' = [pend EXCEPT ![e] = @ + 1]
      /\ carried' = [carried EXCEPT ![hour] = [carried[hour] EXCEPT ![e] = @ + 1]]
  BY DEF Carry, records
<1>4. carried' \in Points
  BY QuotaTypeCarry, BytesTypes DEF QuotaTypeInv, QuotaTypeOK
<1>5. carried[hour] \in Bytes
  BY <1>1 DEF Points, Bytes
<1>6. ASSUME NEW d \in Directions
      PROVE  More(d) \in Nat /\ Charge(d, pend') = Charge(d, pend) + More(d)
             /\ Charge(d, carried'[hour]) = Charge(d, carried[hour]) + More(d)
  <2>1. Charge(d, [pend EXCEPT ![e] = @ + 1]) = Charge(d, pend) + More(d)
    BY <1>1, <1>2, ChargeByte
  <2>2. Charge(d, [carried[hour] EXCEPT ![e] = @ + 1]) = Charge(d, carried[hour]) + More(d)
    BY <1>2, <1>5, ChargeByte
  <2>3. carried'[hour] = [carried[hour] EXCEPT ![e] = @ + 1]
    BY <1>1, <1>3 DEF Points
  <2> QED
    BY <1>3, <2>1, <2>2, <2>3
<1>7. \A k \in Hours : k # hour => carried'[k] = carried[k]
  BY <1>3, <1>1 DEF Points
<1> HIDE DEF More, hour
<1>8. ASSUME NEW d \in Directions, NEW from \in Nat, from <= now
      PROVE  /\ Due(carried', late', d, from, now') = Due(carried, late, d, from, now) + More(d)
             /\ Due(carried, late, d, from, now) \in Nat
  <2>1. Since(carried', d, from, now) = Since(carried, d, from, now) + More(d)
    BY <1>1, <1>4, <1>6, <1>7, <1>8, SinceChange DEF hour
  <2>2. Charge(d, late[LocalHourStart(from)]) \in Nat /\ Due(carried, late, d, from, now) \in Nat
    BY <1>1, <1>8, DueType
  <2>3. Since(carried, d, from, now) \in Nat
    BY <1>1, <1>8, SinceType
  <2> QED
    BY <1>3, <1>6, <2>1, <2>2, <2>3 DEF Due
<1>9. FutureInv'
  <2>1. \A h \in Hours : h > now => h # hour
    BY <1>1
  <2> QED
    BY <1>3, <1>7, <2>1 DEF BytesInv, FutureInv
<1>10. ASSUME NEW d \in Directions PROVE TotalsAt(d)'
  <2>1. TotalsAt(d)
    BY DEF BytesInv
  <2>2. Charge(d, total) \in Nat /\ Charge(d, pend) \in Nat
    BY <1>1, ChargeType
  <2>3. Due(carried', late', d, 0, now') = Due(carried, late, d, 0, now) + More(d)
        /\ Due(carried, late, d, 0, now) \in Nat
    BY <1>1, <1>8
  <2>4. Charge(d, total') + Charge(d, pend') <= Due(carried', late', d, 0, now')
    <3>1. Charge(d, total) + Charge(d, pend) <= Due(carried, late, d, 0, now)
      BY <2>1 DEF TotalsAt
    <3>2. total' = total /\ Charge(d, pend') = Charge(d, pend) + More(d) /\ More(d) \in Nat
      BY <1>3, <1>6
    <3> QED
      BY <2>2, <2>3, <3>1, <3>2
  <2> QED
    BY <2>4 DEF TotalsAt
<1>11. ASSUME NEW d \in Directions, NEW h \in Hours, h <= now' PROVE SampledAt(d, h)'
  <2>1. SampledAt(d, h)
    BY <1>3, <1>11 DEF BytesInv
  <2>2. Since(points, d, h, now) \in Nat /\ Charge(d, pend) \in Nat
    BY <1>1, SinceType, ChargeType
  <2>3. Due(carried', late', d, h, now') = Due(carried, late, d, h, now) + More(d)
        /\ Due(carried, late, d, h, now) \in Nat
    BY <1>1, <1>3, <1>8, <1>11
  <2>4. Since(points, d, h, now) + Charge(d, pend') <= Due(carried', late', d, h, now')
    <3>1. Since(points, d, h, now) + Charge(d, pend) <= Due(carried, late, d, h, now)
      BY <2>1 DEF SampledAt
    <3>2. Charge(d, pend') = Charge(d, pend) + More(d) /\ More(d) \in Nat
      BY <1>6
    <3> QED
      BY <2>2, <2>3, <3>1, <3>2
  <2> QED
    BY <1>3, <2>4 DEF SampledAt
<1>12. ASSUME NEW d \in Directions, NEW g \in Hours, NEW h \in Hours, g <= h, h <= now' PROVE LaterAt(d, g, h)'
  <2>1. LaterAt(d, g, h) /\ h <= now /\ g <= now
    BY <1>1, <1>3, <1>12 DEF BytesInv
  <2>2. Due(carried', late', d, h, now') = Due(carried, late, d, h, now) + More(d)
        /\ Due(carried, late, d, h, now) \in Nat
    BY <1>1, <1>8, <2>1
  <2>3. Due(carried', late', d, g, now') = Due(carried, late, d, g, now) + More(d)
        /\ Due(carried, late, d, g, now) \in Nat
    BY <1>1, <1>8, <2>1
  <2> QED
    BY <1>6, <2>1, <2>2, <2>3 DEF LaterAt
<1>13. Grows
  BY <1>6, <1>8 DEF Grows
<1> QED
  BY <1>8, <1>9, <1>10, <1>11, <1>12, <1>13 DEF BytesInv, More

\* Sampling moves what is unsampled to the records.
LEMMA BytesRecord ==
  ASSUME QuotaTypeInv, BytesInv, Record, UNCHANGED <<now, carried, late>>
  PROVE  BytesInv' /\ Grows
<1> DEFINE hour == LocalHourStart(now)
<1>1. /\ points \in Points /\ total \in Bytes /\ pend \in Bytes /\ now \in 0..MaxNow /\ \A h \in Hours : h \in Nat
      /\ carried \in Points /\ late \in Points /\ hour \in Hours /\ now \in Nat /\ hour <= now
  BY BytesTypes, BegunHour, HourAt
<1>2. points' \in Points /\ total' \in Bytes /\ pend' \in Bytes
  BY QuotaTypeRecord
<1>3. points' = [points EXCEPT ![hour] = Plus(@, pend)] /\ total' = Plus(total, pend) /\ pend' = None
  BY DEF Record, AddTraffic
<1>4. points[hour] \in Bytes
  BY <1>1 DEF Points, Bytes
<1>5. points'[hour] = Plus(points[hour], pend) /\ \A k \in Hours : k # hour => points'[k] = points[k]
  BY <1>1, <1>3 DEF Points
<1>6. ASSUME NEW d \in Directions
      PROVE  /\ Charge(d, pend') = 0 /\ Charge(d, pend) \in Nat /\ Charge(d, total) \in Nat
             /\ Charge(d, total') = Charge(d, total) + Charge(d, pend)
             /\ Charge(d, points'[hour]) = Charge(d, points[hour]) + Charge(d, pend)
  BY <1>1, <1>3, <1>4, <1>5, ChargeNone, ChargeType, ChargePlus
<1> HIDE DEF hour
<1>7. FutureInv'
  <2>1. \A h \in Hours : h > now => h # hour
    BY <1>1
  <2> QED
    BY <1>5, <2>1 DEF BytesInv, FutureInv
<1>8. ASSUME NEW d \in Directions PROVE TotalsAt(d)'
  <2>1. TotalsAt(d)
    BY DEF BytesInv
  <2> QED
    BY <1>6, <2>1 DEF TotalsAt
<1>9. ASSUME NEW d \in Directions, NEW h \in Hours, h <= now PROVE SampledAt(d, h)'
  <2>1. SampledAt(d, h)
    BY <1>9 DEF BytesInv
  <2>2. Since(points', d, h, now) = Since(points, d, h, now) + Charge(d, pend)
    BY <1>1, <1>2, <1>5, <1>6, <1>9, SinceChange DEF hour
  <2>3. Since(points, d, h, now) \in Nat
    BY <1>1, SinceType
  <2> QED
    BY <1>6, <2>1, <2>2, <2>3 DEF SampledAt
<1>10. ASSUME NEW d \in Directions, NEW g \in Hours, NEW h \in Hours, g <= h, h <= now PROVE LaterAt(d, g, h)'
  BY <1>10 DEF BytesInv, LaterAt
<1>11. Grows
  BY <1>1, DueType DEF Grows
<1> QED
  BY <1>7, <1>8, <1>9, <1>10, <1>11 DEF BytesInv

\* Steps that leave the tables and the clock alone.
Quiet == UNCHANGED <<now, points, total, pend, carried, late>>

LEMMA BytesQuiet ==
  ASSUME QuotaTypeInv, BytesInv, Quiet
  PROVE  BytesInv' /\ Grows
<1>1. \A d \in Directions : Charge(d, pend) \in Nat /\ Charge(d, total) \in Nat
  BY BytesTypes, ChargeType
<1> QED
  BY <1>1, BytesTypes, BytesLess DEF Quiet

LEMMA QuietSteps ==
  ASSUME \/ Flush \/ GostStart \/ Reconcile \/ EditApply \/ EditFail \/ ResetZero
         \/ \E c \in qsc.quotas : EditSave(c)
         \/ UNCHANGED quotaVars
  PROVE  Quiet
BY DEF Quiet, Flush, GostStart, Reconcile, RecList, RecUpdate, RecFind, RecSum, RecReset, RecFail,
       EditApply, EditFail, ResetZero, EditSave, quotaVars, records, truth

\* No step invents a byte.
LEMMA BytesStep ==
  ASSUME QuotaTypeInv, BytesInv, [QuotaNext]_quotaVars
  PROVE  BytesInv' /\ Grows
<1>1. CASE Tick
  <2>1. BytesInv' /\ \A d \in Directions : \A from \in Nat :
            from <= now => Due(carried', late', d, from, now') = Due(carried, late, d, from, now)
    BY <1>1, BytesTick
  <2>2. \A d \in Directions : \A from \in Nat : from <= now => Due(carried, late, d, from, now) \in Nat
    BY BytesTypes, DueType
  <2> QED
    BY <2>1, <2>2 DEF Grows
<1>2. ASSUME NEW e \in qsc.flows, Carry(e) PROVE BytesInv' /\ Grows
  BY <1>2, BytesCarry
<1>3. CASE Sample
  <2>1. Record /\ UNCHANGED <<now, carried, late>>
    BY <1>3 DEF Sample, SampleGost, SampleReality, truth
  <2> QED
    BY <2>1, BytesRecord
<1>4. CASE Prune \/ GostCrash \/ ResetTotals
  <2>1. UNCHANGED <<now, carried, late>> /\ points' \in Points /\ total' \in Bytes /\ pend' \in Bytes
    <3>1. UNCHANGED <<now, carried, late>>
      BY <1>4 DEF Prune, GostCrash, ResetTotals, truth
    <3>2. QuotaTypeInv'
      BY QuotaTypeStep
    <3> QED
      BY <3>1, <3>2 DEF QuotaTypeInv, QuotaTypeOK, Bytes
  <2>2. \A h \in Hours : points'[h] \in {points[h], None}
    BY <1>4 DEF Prune, GostCrash, ResetTotals, records
  <2>3. (pend' = pend \/ pend' = None) /\ (total' = total \/ total' = None)
    BY <1>4 DEF Prune, GostCrash, ResetTotals, records
  <2>4. \A d \in Directions : Charge(d, pend') <= Charge(d, pend) /\ Charge(d, total') <= Charge(d, total)
    <3>1. \A d \in Directions : Charge(d, pend) \in Nat /\ Charge(d, total) \in Nat /\ Charge(d, None) = 0
      BY BytesTypes, ChargeType, ChargeNone
    <3> QED
      BY <2>3, <3>1
  <2> QED
    BY <2>1, <2>2, <2>4, BytesLess
<1>5. CASE Flush \/ GostStart \/ Reconcile \/ EditApply \/ EditFail \/ ResetZero \/ UNCHANGED quotaVars
  BY <1>5, QuietSteps, BytesQuiet
<1>6. CASE \E c \in qsc.quotas : EditSave(c)
  BY <1>6, QuietSteps, BytesQuiet
<1> QED
  BY <1>1, <1>2, <1>3, <1>4, <1>5, <1>6 DEF QuotaNext, Gost, Admin

-----------------------------------------------------------------------------
(* The sum that pauses a reality node.                                     *)

\* The sum of one pass, when it decides.
LEMMA RealityBounded ==
  ASSUME QuotaTypeInv, BytesInv, SampleReality
  PROVE  RealityUsed <= Due(carried', late', RealityDir(row.quota.dir),
                            QuotaWindow(row.quota.period, now).from, now')
<1> DEFINE dir == RealityDir(row.quota.dir)
           from == QuotaWindow(row.quota.period, now).from
<1>1. /\ QuotaTypeInv' /\ BytesInv' /\ now' = now /\ now \in 0..MaxNow
      /\ points' \in Points /\ pend' \in Bytes /\ total' \in Bytes
      /\ carried' \in Points /\ late' \in Points
  <2>1. QuotaTypeInv'
    BY QuotaTypeSample DEF Sample
  <2>2. Record /\ UNCHANGED <<now, carried, late>>
    BY DEF SampleReality, truth
  <2>3. BytesInv'
    BY <2>2, BytesRecord
  <2>4. now' = now /\ now \in 0..MaxNow
    BY <2>2, BytesTypes
  <2>5. points' \in Points /\ pend' \in Bytes /\ total' \in Bytes /\ carried' \in Points /\ late' \in Points
    BY <2>1 DEF QuotaTypeInv, QuotaTypeOK, Bytes
  <2> QED
    BY <2>1, <2>3, <2>4, <2>5
<1>2. dir \in Directions
  BY DEF RealityDir, Directions
<1>3. row.quota.period \in Periods /\ from \in Nat /\ from <= now
  <2>1. row.quota \in Quota
    BY DEF QuotaTypeInv, QuotaTypeOK
  <2> QED
    BY <1>1, <2>1, QuotaParts, WindowType DEF Windows
<1>4. Charge(dir, pend') \in Nat /\ Charge(dir, total') \in Nat /\ Due(carried', late', dir, from, now) \in Nat
  BY <1>1, <1>2, <1>3, ChargeType, DueType
<1>5. CASE row.quota.period = "total"
  <2>1. from = 0
    BY <1>5 DEF QuotaWindow
  <2>2. RealityUsed = Charge(dir, total')
    BY <1>5 DEF RealityUsed
  <2>3. Charge(dir, total') + Charge(dir, pend') <= Due(carried', late', dir, 0, now')
    BY <1>1, <1>2 DEF BytesInv, TotalsAt
  <2> QED
    BY <1>1, <1>4, <2>1, <2>2, <2>3
<1>6. CASE row.quota.period # "total"
  <2> DEFINE h == LocalHourStart(from)
  <2>1. h \in Hours /\ h <= now
    BY <1>1, <1>3, BegunHour
  <2>2. RealityUsed = RangeTraffic(points', dir, from)
    BY <1>6 DEF RealityUsed
  <2>3. RangeTraffic(points', dir, from) = Since(points', dir, from, now)
    BY RangeIs
  <2>4. Since(points', dir, from, now) = Since(points', dir, h, now)
        /\ Due(carried', late', dir, from, now) = Due(carried', late', dir, h, now)
    BY <1>3, SinceHour
  <2>5. Since(points', dir, h, now) \in Nat
    <3>1. h \in Nat
      BY <1>3, HourAt
    <3> QED
      BY <1>1, <1>2, <3>1, SinceType
  <2> HIDE DEF h, from
  <2>6. Since(points', dir, h, now') + Charge(dir, pend') <= Due(carried', late', dir, h, now')
    BY <1>1, <1>2, <2>1 DEF BytesInv, SampledAt
  <2> QED
    BY <1>1, <1>4, <2>2, <2>3, <2>4, <2>5, <2>6 DEF from
<1> QED
  BY <1>5, <1>6

LEMMA PausedStep ==
  ASSUME QuotaTypeInv, BytesInv, PausedInv, [QuotaNext]_quotaVars
  PROVE  PausedInv'
<1>0. now \in 0..MaxNow /\ now \in Nat /\ row.quota \in Quota
  BY BytesTypes DEF QuotaTypeInv, QuotaTypeOK
<1>1. CASE SampleReality
  <2>1. paused'.by = row.quota /\ paused'.at = now /\ paused'.used = RealityUsed /\ now' = now
    BY <1>1 DEF SampleReality
  <2>2. RealityUsed <= Due(carried', late', RealityDir(row.quota.dir), QuotaWindow(row.quota.period, now).from, now')
    BY <1>1, RealityBounded
  <2> QED
    BY <1>0, <2>1, <2>2 DEF PausedInv
<1>2. CASE ~SampleReality
  <2>1. paused' = paused
    BY <1>2 DEF QuotaNext, Tick, Carry, Gost, Flush, GostCrash, GostStart, Sample, SampleGost, Prune, Reconcile,
                RecList, RecUpdate, RecFind, RecSum, RecReset, RecFail, Admin, EditSave, EditApply, EditFail,
                ResetZero, ResetTotals, quotaVars
  <2>2. Grows
    BY BytesStep
  <2>3. now' = now \/ now' = now + 1
    BY <1>2 DEF QuotaNext, Tick, Carry, Gost, Flush, GostCrash, GostStart, Sample, SampleGost, Prune, Reconcile,
                RecList, RecUpdate, RecFind, RecSum, RecReset, RecFail, Admin, EditSave, EditApply, EditFail,
                ResetZero, ResetTotals, quotaVars
  <2> SUFFICES ASSUME paused # Absent
               PROVE  /\ paused.at <= now'
                      /\ paused.used <= Due(carried', late', RealityDir(paused.by.dir),
                                            QuotaWindow(paused.by.period, paused.at).from, now')
    BY <2>1 DEF PausedInv
  <2> DEFINE d == RealityDir(paused.by.dir)
             from == QuotaWindow(paused.by.period, paused.at).from
  <2>4. paused.by \in Quota /\ paused.at \in 0..MaxNow /\ paused.used \in Nat
    BY DEF QuotaTypeInv, QuotaTypeOK
  <2>5. paused.at <= now /\ paused.used <= Due(carried, late, d, from, now)
    BY DEF PausedInv
  <2>6. d \in Directions
    BY DEF RealityDir, Directions
  <2>7. from \in Nat /\ from <= paused.at
    BY <2>4, QuotaParts, WindowType DEF Windows
  <2> HIDE DEF d, from
  <2>8. paused.at \in Nat /\ from <= now
    BY <1>0, <2>4, <2>5, <2>7, TimesTypes
  <2>9. Due(carried, late, d, from, now) <= Due(carried', late', d, from, now')
    BY <2>2, <2>6, <2>7, <2>8 DEF Grows
  <2>10. Due(carried, late, d, from, now) \in Nat
    BY <1>0, <2>6, <2>7, <2>8, DueType, BytesTypes
  <2>11. Due(carried', late', d, from, now') \in Nat
    <3>1. QuotaTypeInv'
      BY QuotaTypeStep
    <3>2. carried' \in Points /\ late' \in Points /\ now' \in 0..MaxNow
      BY <3>1 DEF QuotaTypeInv, QuotaTypeOK
    <3>3. from <= now'
      BY <1>0, <2>3, <2>7, <2>8
    <3> QED
      BY <2>6, <2>7, <3>2, <3>3, DueType
  <2> QED
    BY <1>0, <2>3, <2>4, <2>5, <2>8, <2>9, <2>10, <2>11 DEF d, from
<1> QED
  BY <1>1, <1>2

-----------------------------------------------------------------------------
(* gost's count, when a Reconcile and a request take turns.                *)

OrderlyInv == QuotaTypeInv /\ BytesInv /\ Orderly /\ GostQuotaInv

LEMMA OrderlyTypes ==
  ASSUME OrderlyInv
  PROVE  /\ now \in 0..MaxNow /\ now \in Nat
         /\ row \in Rows /\ row.since \in Nat /\ row.quota \in Quota /\ row.quota \in qsc.quotas
         /\ row.quota.dir \in Directions
         /\ conf.quota \in Quota /\ conf.win \in Windows /\ conf.win.from \in Nat
         /\ q # Absent => q \in GostQuota /\ q.used \in Nat /\ q.win \in Windows /\ q.win.from \in Nat
                          /\ q.quota.dir = row.quota.dir
         /\ file # Absent => file.used \in Nat /\ file.win \in Windows /\ file.win.from \in Nat
         /\ rec.used \in Nat
         /\ rec.cur # Absent => rec.cur \in GostQuota /\ rec.cur.win.from \in Nat /\ rec.cur.used \in Nat
<1>1. now \in 0..MaxNow /\ now \in Nat
  BY BytesTypes DEF OrderlyInv
<1>2. row \in Rows /\ row.quota \in qsc.quotas /\ row.quota \in Quota /\ row.since \in 0..MaxNow
  BY DEF OrderlyInv, QuotaTypeInv, QuotaTypeOK, Rows
<1>3. row.quota.dir \in Directions /\ row.since \in Nat
  BY <1>2, QuotaParts, TimesTypes
<1>4. conf \in [quota : Quota, win : Windows]
  BY DEF OrderlyInv, Orderly, QuotaTypeInv
<1>5. conf.quota \in Quota /\ conf.win \in Windows /\ conf.win.from \in Nat
  BY <1>4 DEF Windows
<1>6. ASSUME q # Absent
      PROVE  q \in GostQuota /\ q.used \in Nat /\ q.win \in Windows /\ q.win.from \in Nat /\ q.quota.dir = row.quota.dir
  <2>1. q \in GostQuota /\ q.quota \in qsc.quotas
    BY <1>6 DEF OrderlyInv, QuotaTypeInv, QuotaTypeOK
  <2>2. q.quota.dir = row.quota.dir
    BY <1>2, <2>1 DEF OrderlyInv, Orderly, DirectionKept
  <2> QED
    BY <2>1, <2>2 DEF GostQuota, Windows
<1>7. ASSUME file # Absent PROVE file.used \in Nat /\ file.win \in Windows /\ file.win.from \in Nat
  BY <1>7 DEF OrderlyInv, QuotaTypeInv, QuotaTypeOK, Windows
<1>8. rec.used \in Nat /\ rec.cur \in GostQuota \cup {Absent}
  BY DEF OrderlyInv, QuotaTypeInv
<1>9. rec.cur # Absent => rec.cur \in GostQuota /\ rec.cur.win.from \in Nat /\ rec.cur.used \in Nat
  BY <1>8 DEF GostQuota, Windows
<1> QED
  BY <1>1, <1>2, <1>3, <1>5, <1>6, <1>7, <1>8, <1>9

\* Reconcile and the requests:
LEMMA TurnsStep ==
  ASSUME OrderlyInv, [QuotaNext]_quotaVars
  PROVE  TurnsOK'
<1>1. TurnsOK /\ "overlap" \notin qsc.env
  BY DEF OrderlyInv, GostQuotaInv, Orderly
<1>2. CASE Reconcile
  <2>1. adm' = adm /\ row' = row
    BY <1>2 DEF Reconcile, RecList, RecUpdate, RecFind, RecSum, RecReset, RecFail
  <2>2. CASE RecList
    <3>1. adm.pc = "idle" /\ \E pc \in {"update", "sum"} : rec' = [rec EXCEPT !.pc = pc, !.row = row, !.cur = q]
      BY <1>1, <2>2 DEF RecList
    <3>2. rec'.row = row
      BY <3>1 DEF OrderlyInv, QuotaTypeInv
    <3> QED
      BY <2>1, <3>1, <3>2 DEF TurnsOK
  <2>3. CASE ~RecList
    <3>1. rec.pc # "idle" /\ (rec' = RecIdle
             \/ \E pc \in RecPcs, cur \in {rec.cur, q}, used \in {rec.used, WindowUsed} :
                    rec' = [rec EXCEPT !.pc = pc, !.cur = cur, !.used = used])
      <4>0. rec \in [pc : RecPcs, row : Rows \cup {Absent}, cur : GostQuota \cup {Absent}, used : Nat]
        BY DEF OrderlyInv, QuotaTypeInv
      <4>1. CASE RecUpdate
        BY <4>0, <4>1 DEF RecUpdate, RecPcs
      <4>2. CASE RecFind
        BY <4>0, <4>2 DEF RecFind, RecPcs
      <4>3. CASE RecSum
        BY <4>0, <4>3 DEF RecSum, RecPcs
      <4>4. CASE RecReset \/ RecFail
        BY <4>4 DEF RecReset, RecFail
      <4> QED
        BY <1>2, <2>3, <4>1, <4>2, <4>3, <4>4 DEF Reconcile
    <3>2. rec'.pc # "idle" => rec'.row = rec.row
      <4>0. rec \in [pc : RecPcs, row : Rows \cup {Absent}, cur : GostQuota \cup {Absent}, used : Nat]
        BY DEF OrderlyInv, QuotaTypeInv
      <4>1. CASE rec' = RecIdle
        BY <4>1 DEF RecIdle
      <4>2. ASSUME NEW pc, NEW cur, NEW used, rec' = [rec EXCEPT !.pc = pc, !.cur = cur, !.used = used]
            PROVE  rec'.row = rec.row
        BY <4>0, <4>2
      <4>3. CASE rec' # RecIdle
        <5>1. PICK pc \in RecPcs, cur \in {rec.cur, q}, used \in {rec.used, WindowUsed} :
                  rec' = [rec EXCEPT !.pc = pc, !.cur = cur, !.used = used]
          BY <3>1, <4>3
        <5> QED
          BY <4>2, <5>1
      <4> QED
        BY <4>1, <4>3
    <3> QED
      BY <1>1, <2>1, <3>1, <3>2 DEF TurnsOK
  <2> QED
    BY <2>2, <2>3
<1>3. CASE ~Reconcile
  <2>1. rec' = rec
    BY <1>3 DEF QuotaNext, Tick, Carry, Gost, Flush, GostCrash, GostStart, Sample, SampleGost, SampleReality, Prune,
                Admin, EditSave, EditApply, EditFail, ResetZero, ResetTotals, quotaVars
  <2>2. rec.pc = "idle" \/ UNCHANGED <<row, adm>>
    <3>1. CASE Admin
      BY <1>1, <3>1 DEF TurnsOK, Admin, EditSave, EditApply, EditFail, ResetZero, ResetTotals, MayRequest
    <3>2. CASE ~Admin
      BY <1>3, <3>2 DEF QuotaNext, Tick, Carry, Gost, Flush, GostCrash, GostStart, Sample, SampleGost, SampleReality,
                        Prune, quotaVars
    <3> QED
      BY <3>1, <3>2
  <2> QED
    BY <1>1, <2>1, <2>2 DEF TurnsOK
<1> QED
  BY <1>2, <1>3

\* gost.yml:
LEMMA ConfStep ==
  ASSUME OrderlyInv, [QuotaNext]_quotaVars
  PROVE  ConfOK' /\ (conf'.win = conf.win \/ EditApply)
<1>0. /\ now \in 0..MaxNow /\ now \in Nat /\ row.quota \in Quota /\ conf.quota \in Quota /\ conf.win.from \in Nat
      /\ qsc.kind = "gost"
  BY OrderlyTypes DEF OrderlyInv, Orderly
<1>1. /\ conf.quota = IF adm.pc = "apply" THEN adm.old.quota ELSE row.quota
      /\ conf.win.from <= QuotaWindow(conf.quota.period, now).from
  BY DEF OrderlyInv, GostQuotaInv, ConfOK
<1>2. CASE Tick
  <2>1. now' \in 0..MaxNow /\ now' = now + 1
    BY <1>2, QuotaTypeTick DEF OrderlyInv, QuotaTypeInv, QuotaTypeOK, Tick
  <2>2. QuotaWindow(conf.quota.period, now).from <= QuotaWindow(conf.quota.period, now').from
    BY <1>0, <2>1, QuotaParts, WindowOrder
  <2>3. QuotaWindow(conf.quota.period, now).from \in Nat /\ QuotaWindow(conf.quota.period, now').from \in Nat
    BY <1>0, <2>1, QuotaParts, WindowType DEF Windows
  <2>4. conf' = conf /\ adm' = adm /\ row' = row
    BY <1>2 DEF Tick
  <2> QED
    BY <1>0, <1>1, <2>2, <2>3, <2>4 DEF ConfOK
<1>3. CASE Admin
  <2>1. ASSUME NEW c \in qsc.quotas, EditSave(c) PROVE ConfOK' /\ conf' = conf
    BY <1>1, <2>1 DEF EditSave, MayRequest, ConfOK
  <2>2. CASE EditApply
    <3>1. conf' = WantQuota(row.quota) /\ adm'.pc = "idle" /\ row' = row /\ now' = now
      BY <1>0, <2>2 DEF EditApply, AdmIdle
    <3>2. conf'.quota = row.quota /\ conf'.win = QuotaWindow(row.quota.period, now)
      BY <1>0, <3>1, WantType
    <3>3. QuotaWindow(row.quota.period, now).from \in Nat
      BY <1>0, QuotaParts, WindowType DEF Windows
    <3> QED
      BY <2>2, <3>1, <3>2, <3>3 DEF ConfOK
  <2>3. CASE EditFail
    <3>0. conf' = conf /\ now' = now
      BY <2>3 DEF EditFail
    <3>1. CASE adm.pc = "apply"
      <4>1. row' = adm.old /\ adm'.pc = "undo"
        BY <2>3, <3>1 DEF EditFail, OrderlyInv, QuotaTypeInv
      <4> QED
        BY <1>1, <3>0, <3>1, <4>1 DEF ConfOK
    <3>2. CASE adm.pc # "apply"
      BY <1>1, <2>3, <3>0, <3>2 DEF EditFail, AdmIdle, ConfOK
    <3> QED
      BY <3>0, <3>1, <3>2
  <2>4. CASE ResetZero \/ ResetTotals
    <3>1. conf' = conf /\ now' = now /\ row' = row /\ adm.pc # "apply" /\ adm'.pc # "apply"
      BY <2>4 DEF ResetZero, ResetTotals, MayRequest, AdmIdle, OrderlyInv, QuotaTypeInv
    <3> QED
      BY <1>1, <3>1 DEF ConfOK
  <2> QED
    BY <1>3, <2>1, <2>2, <2>3, <2>4 DEF Admin
<1>4. CASE ~(Tick \/ Admin)
  <2>1. UNCHANGED <<conf, now, adm, row>>
    BY <1>4 DEF QuotaNext, Carry, Gost, Flush, GostCrash, GostStart, Sample, SampleGost, SampleReality, Prune,
                Reconcile, RecList, RecUpdate, RecFind, RecSum, RecReset, RecFail, quotaVars
  <2> QED
    BY <1>1, <2>1 DEF ConfOK
<1> QED
  BY <1>2, <1>3, <1>4

\* What a step may do to gost's quota.
LEMMA QuotaSteps ==
  ASSUME OrderlyInv, [QuotaNext]_quotaVars, q' # Absent
  PROVE  \/ /\ q # Absent /\ q'.win = q.win /\ conf' = conf
            /\ \/ q'.used = q.used
               \/ q'.used = 0
               \/ RecReset /\ q'.used = rec.used
               \/ \E e \in qsc.flows : Carry(e) /\ q'.used \in Nat
                     /\ q'.used <= q.used + (IF row.quota.dir \in {e, "total"} THEN 1 ELSE 0)
         \/ /\ q'.win = conf.win /\ UNCHANGED <<conf, now, rec>>
            /\ q'.used = 0 \/ (file # Absent /\ file.win = conf.win /\ q'.used = file.used)
         \/ /\ q'.win = QuotaWindow(row.quota.period, now) /\ now' = now
            /\ q'.used = 0 \/ (q # Absent /\ q'.win = q.win /\ q'.used = q.used)
            /\ \/ conf'.win = q'.win /\ adm.pc \in {"apply", "undo"}
               \/ conf' = conf /\ rec.pc = "update" /\ rec'.pc = "find"
<1> DEFINE Kept == q # Absent /\ q'.win = q.win /\ conf' = conf
           Moved == q'.win = QuotaWindow(row.quota.period, now) /\ now' = now
                    /\ (q'.used = 0 \/ (q # Absent /\ q'.win = q.win /\ q'.used = q.used))
<1>0. /\ qsc.kind = "gost" /\ row.quota \in Quota /\ now \in 0..MaxNow
      /\ q # Absent => q \in GostQuota /\ q.used \in Nat /\ q.quota.dir = row.quota.dir
      /\ rec.used \in Nat
  BY OrderlyTypes DEF OrderlyInv, Orderly
<1>1. ASSUME NEW e \in qsc.flows, Carry(e)
      PROVE  Kept /\ q'.used \in Nat /\ q'.used <= q.used + (IF row.quota.dir \in {e, "total"} THEN 1 ELSE 0)
  <2>1. CASE q # Absent /\ q.quota.dir \in {e, "total"}
    <3>1. PICK counts \in {0, 1} : q' = [q EXCEPT !.used = @ + counts]
      BY <1>1, <2>1 DEF Carry
    <3>2. q'.win = q.win /\ q'.used = q.used + counts
      BY <1>0, <2>1, <3>1 DEF GostQuota
    <3> QED
      BY <1>0, <1>1, <2>1, <3>2 DEF Carry
  <2>2. CASE ~(q # Absent /\ q.quota.dir \in {e, "total"})
    <3>1. q' = q
      BY <1>1, <2>2 DEF Carry
    <3> QED
      BY <1>0, <1>1, <3>1 DEF Carry
  <2> QED
    BY <2>1, <2>2
<1>2. CASE GostStart
  BY <1>2 DEF GostStart
<1>3. ASSUME q' = Upserted(WantQuota(row.quota)), now' = now PROVE Moved
  <2>1. q'.win = WantQuota(row.quota).win
        /\ q'.used = IF q # Absent /\ q.win = WantQuota(row.quota).win THEN q.used ELSE 0
    BY <1>3 DEF Upserted
  <2> QED
    BY <1>0, <1>3, <2>1, WantType
<1>4. CASE RecUpdate
  <2>1. rec.row = row
    BY <1>4 DEF RecUpdate, OrderlyInv, GostQuotaInv, TurnsOK
  <2>2. q' = Upserted(WantQuota(row.quota)) /\ now' = now /\ conf' = conf /\ rec.pc = "update" /\ rec'.pc = "find"
    BY <1>4, <2>1 DEF RecUpdate, RecWant, OrderlyInv, QuotaTypeInv
  <2>3. Moved
    BY <1>3, <2>2
  <2> QED
    BY <2>2, <2>3
<1>5. CASE EditApply
  <2>1. q' = Upserted(WantQuota(row.quota)) /\ now' = now /\ conf' = WantQuota(row.quota)
        /\ adm.pc \in {"apply", "undo"}
    BY <1>0, <1>5 DEF EditApply
  <2>2. Moved
    BY <1>3, <2>1
  <2>3. conf'.win = q'.win
    BY <1>0, <2>1, <2>2, WantType
  <2> QED
    BY <2>1, <2>2, <2>3
<1>6. CASE RecReset
  <2>1. q # Absent /\ q' = [q EXCEPT !.used = rec.used] /\ conf' = conf
    BY <1>6 DEF RecReset
  <2>2. q'.win = q.win /\ q'.used = rec.used
    BY <1>0, <2>1 DEF GostQuota
  <2> QED
    BY <1>6, <2>1, <2>2
<1>7. CASE ResetZero
  <2>1. q # Absent /\ q' = [q EXCEPT !.used = 0] /\ conf' = conf
    BY <1>7 DEF ResetZero
  <2>2. q'.win = q.win /\ q'.used = 0
    BY <1>0, <2>1 DEF GostQuota
  <2> QED
    BY <2>1, <2>2
<1>8. CASE ~((\E e \in qsc.flows : Carry(e)) \/ GostStart \/ RecUpdate \/ EditApply \/ RecReset \/ ResetZero)
  <2>1. q' = q /\ conf' = conf
    BY <1>8 DEF QuotaNext, Tick, Gost, Flush, GostCrash, Sample, SampleGost, SampleReality, Prune, Reconcile,
                RecList, RecFind, RecSum, RecFail, Admin, EditSave, EditFail, ResetTotals, quotaVars, gost
  <2> QED
    BY <2>1
<1> QED
  BY <1>1, <1>2, <1>4, <1>5, <1>6, <1>7, <1>8

\* How a Reconcile comes to compare counts.
LEMMA RecSteps ==
  ASSUME OrderlyInv, [QuotaNext]_quotaVars, rec'.pc \in {"sum", "reset"}
  PROVE  \/ /\ rec.pc \in {"sum", "reset"} /\ rec'.cur = rec.cur
            /\ \/ rec' = rec
               \/ RecSum /\ rec.pc = "sum" /\ rec.cur # Absent /\ rec'.used = WindowUsed
         \/ rec'.pc = "sum" /\ rec'.cur = q /\ UNCHANGED <<q, conf, now>>
<1>0. rec \in [pc : RecPcs, row : Rows \cup {Absent}, cur : GostQuota \cup {Absent}, used : Nat]
      /\ qsc.env \cap {"overlap", "findFail"} = {}
  BY DEF OrderlyInv, QuotaTypeInv, Orderly
<1>1. CASE RecList
  <2>1. PICK pc \in {"update", "sum"} : rec' = [rec EXCEPT !.pc = pc, !.row = row, !.cur = q]
    BY <1>1 DEF RecList
  <2>2. rec'.cur = q /\ rec'.pc = pc
    BY <1>0, <2>1
  <2> QED
    BY <1>1, <2>1, <2>2 DEF RecList, gost
<1>2. CASE RecFind
  <2>1. rec' = [rec EXCEPT !.pc = "sum", !.cur = q]
    BY <1>0, <1>2 DEF RecFind, May
  <2> QED
    BY <1>0, <1>2, <2>1 DEF RecFind, gost
<1>3. CASE RecSum
  <2>1. rec.pc = "sum" /\ rec' = IF rec.cur = Absent \/ WindowUsed <= rec.cur.used THEN RecIdle
                               ELSE [rec EXCEPT !.pc = "reset", !.used = WindowUsed]
    BY <1>3 DEF RecSum
  <2>2. RecIdle.pc = "idle"
    BY DEF RecIdle
  <2>3. rec.cur # Absent /\ rec' = [rec EXCEPT !.pc = "reset", !.used = WindowUsed]
    BY <2>1, <2>2
  <2>4. rec'.cur = rec.cur /\ rec'.used = WindowUsed
    BY <1>0, <2>3
  <2> QED
    BY <1>3, <2>1, <2>3, <2>4
<1>4. CASE RecUpdate \/ RecReset \/ RecFail
  <2>1. rec'.pc \in {"find", "idle"}
    BY <1>0, <1>4 DEF RecUpdate, RecReset, RecFail, RecIdle
  <2> QED
    BY <2>1
<1>5. CASE ~Reconcile
  BY <1>5 DEF QuotaNext, Tick, Carry, Gost, Flush, GostCrash, GostStart, Sample, SampleGost, SampleReality, Prune,
              Admin, EditSave, EditApply, EditFail, ResetZero, ResetTotals, quotaVars
<1> QED
  BY <1>1, <1>2, <1>3, <1>4, <1>5 DEF Reconcile

\* Windows:
LEMMA WindowsStep ==
  ASSUME OrderlyInv, [QuotaNext]_quotaVars
  PROVE  WindowsOK'
<1>0. /\ now \in 0..MaxNow /\ now \in Nat /\ row.since \in Nat /\ row.quota \in Quota /\ conf.win.from \in Nat
      /\ conf.quota \in Quota
      /\ q # Absent => q.win.from \in Nat
      /\ file # Absent => file.win.from \in Nat
      /\ rec.cur # Absent => rec.cur.win.from \in Nat
  BY OrderlyTypes
<1>1. TurnsOK /\ ConfOK /\ WindowsOK
  BY DEF OrderlyInv, GostQuotaInv
<1>2. now' = now \/ now' = now + 1
  BY DEF QuotaNext, Tick, Carry, Gost, Flush, GostCrash, GostStart, Sample, SampleGost, SampleReality, Prune,
         Reconcile, RecList, RecUpdate, RecFind, RecSum, RecReset, RecFail, Admin, EditSave, EditApply, EditFail,
         ResetZero, ResetTotals, quotaVars
<1>3. now <= now' /\ now' \in Nat
  BY <1>0, <1>2
<1>4. QuotaWindow(row.quota.period, now).from \in Nat /\ QuotaWindow(row.quota.period, now).from <= now
      /\ QuotaWindow(conf.quota.period, now).from \in Nat /\ QuotaWindow(conf.quota.period, now).from <= now
  BY <1>0, QuotaParts, WindowType DEF Windows
<1>5. conf.win.from <= now
      /\ (adm.pc # "apply" => conf.win.from <= QuotaWindow(row.quota.period, now).from)
  BY <1>0, <1>1, <1>4 DEF ConfOK
<1>6. row'.since <= now' /\ (adm'.pc = "apply" => adm'.old.since <= now')
  <2>0. row.since <= now /\ (adm.pc = "apply" => adm.old.since <= now /\ adm.old.since \in Nat)
    <3>1. adm.pc = "apply" => adm.old \in Rows
      BY DEF OrderlyInv, QuotaTypeInv
    <3> QED
      BY <1>1, <3>1, TimesTypes DEF WindowsOK, Rows
  <2>1. CASE Admin
    <3>1. now' = now
      BY <2>1 DEF Admin, EditSave, EditApply, EditFail, ResetZero, ResetTotals
    <3>2. ASSUME NEW c \in qsc.quotas, EditSave(c) PROVE row'.since <= now /\ adm'.old.since <= now
      BY <1>0, <2>0, <3>2 DEF EditSave
    <3>3. CASE EditApply \/ ResetTotals
      BY <2>0, <3>3 DEF EditApply, ResetTotals, AdmIdle
    <3>4. CASE EditFail
      <4>1. CASE adm.pc = "apply"
        BY <2>0, <3>4, <4>1 DEF EditFail, OrderlyInv, QuotaTypeInv
      <4>2. CASE adm.pc # "apply"
        BY <2>0, <3>4, <4>2 DEF EditFail, AdmIdle
      <4> QED
        BY <4>1, <4>2
    <3>5. CASE ResetZero
      BY <2>0, <3>5 DEF ResetZero, OrderlyInv, QuotaTypeInv
    <3> QED
      BY <2>1, <3>1, <3>2, <3>3, <3>4, <3>5 DEF Admin
  <2>2. CASE ~Admin
    <3>1. row' = row /\ adm' = adm
      BY <2>2 DEF QuotaNext, Tick, Carry, Gost, Flush, GostCrash, GostStart, Sample, SampleGost, SampleReality,
                  Prune, Reconcile, RecList, RecUpdate, RecFind, RecSum, RecReset, RecFail, quotaVars
    <3> QED
      BY <1>0, <1>3, <2>0, <3>1
  <2> QED
    BY <2>1, <2>2
<1>7. file' # Absent => file'.win.from <= now'
  <2>1. CASE Flush
    <3>1. q # Absent /\ file'.win = q.win
      BY <2>1 DEF Flush
    <3> QED
      BY <1>0, <1>1, <1>3, <3>1 DEF WindowsOK
  <2>2. CASE ~Flush
    <3>1. file' = file
      BY <2>2 DEF QuotaNext, Tick, Carry, Gost, GostCrash, GostStart, Sample, SampleGost, SampleReality, Prune,
                  Reconcile, RecList, RecUpdate, RecFind, RecSum, RecReset, RecFail, Admin, EditSave, EditApply,
                  EditFail, ResetZero, ResetTotals, quotaVars, gost
    <3> QED
      BY <1>0, <1>1, <1>3, <3>1 DEF WindowsOK
  <2> QED
    BY <2>1, <2>2
<1>8. ASSUME q' # Absent PROVE conf'.win.from <= q'.win.from /\ q'.win.from <= now'
  <2>1. CASE q # Absent /\ q'.win = q.win /\ conf' = conf
    BY <1>0, <1>1, <1>3, <2>1 DEF WindowsOK
  <2>2. CASE q'.win = conf.win /\ UNCHANGED <<conf, now, rec>>
    BY <1>0, <1>3, <1>5, <2>2
  <2>3. CASE /\ q'.win = QuotaWindow(row.quota.period, now) /\ now' = now
             /\ \/ conf'.win = q'.win /\ adm.pc \in {"apply", "undo"}
                \/ conf' = conf /\ rec.pc = "update" /\ rec'.pc = "find"
    <3>1. CASE conf'.win = q'.win
      BY <1>0, <1>4, <2>3, <3>1
    <3>2. CASE conf' = conf /\ rec.pc = "update"
      <4>1. adm.pc = "idle"
        BY <1>1, <3>2 DEF TurnsOK
      <4> QED
        BY <1>0, <1>4, <1>5, <2>3, <3>2, <4>1
    <3> QED
      BY <2>3, <3>1, <3>2
  <2> QED
    BY <1>8, <2>1, <2>2, <2>3, QuotaSteps
<1>9. ASSUME rec'.pc \in {"sum", "reset"}, rec'.cur # Absent
      PROVE  /\ conf'.win.from <= rec'.cur.win.from /\ rec'.cur.win.from <= now'
             /\ q' # Absent => q'.win.from <= rec'.cur.win.from
  <2>1. CASE rec'.cur = q /\ UNCHANGED <<q, conf, now>>
    BY <1>0, <1>1, <1>3, <1>9, <2>1 DEF WindowsOK
  <2>2. CASE rec.pc \in {"sum", "reset"} /\ rec'.cur = rec.cur
    <3>1. adm.pc = "idle" /\ rec.cur # Absent
      BY <1>1, <1>9, <2>2 DEF TurnsOK
    <3>2. conf.win.from <= rec.cur.win.from /\ rec.cur.win.from <= now
          /\ (q # Absent => q.win.from <= rec.cur.win.from)
      BY <1>1, <2>2, <3>1 DEF WindowsOK
    <3>3. conf'.win = conf.win
      <4>1. ~EditApply
        BY <3>1 DEF EditApply
      <4> QED
        BY <4>1, ConfStep
    <3>4. ASSUME q' # Absent PROVE q'.win.from <= rec.cur.win.from
      <4>1. \/ q # Absent /\ q'.win = q.win
            \/ q'.win = conf.win
        BY <2>2, <3>1, <3>4, QuotaSteps
      <4> QED
        BY <3>2, <4>1
    <3> QED
      BY <1>0, <1>3, <2>2, <3>1, <3>2, <3>3, <3>4
  <2> QED
    BY <1>9, <2>1, <2>2, RecSteps
<1> QED
  BY <1>6, <1>7, <1>8, <1>9 DEF WindowsOK

\* What may be charged since two times.
LEMMA DueLater ==
  ASSUME QuotaTypeInv, BytesInv, NEW d \in Directions, NEW f \in Nat, NEW g \in Nat, f <= g, g <= now
  PROVE  Due(carried, late, d, g, now) <= Due(carried, late, d, f, now)
<1> DEFINE hf == LocalHourStart(f)
           hg == LocalHourStart(g)
<1>1. now \in 0..MaxNow /\ now \in Nat
  BY BytesTypes
<1>2. hf \in Hours /\ hg \in Hours /\ hg <= now /\ hf <= hg
  BY <1>1, BegunHour, FloorOrder, HourLenType DEF LocalHourStart
<1>3. Due(carried, late, d, f, now) = Due(carried, late, d, hf, now)
      /\ Due(carried, late, d, g, now) = Due(carried, late, d, hg, now)
  BY SinceHour
<1> HIDE DEF hf, hg
<1> QED
  BY <1>2, <1>3 DEF BytesInv, LaterAt

\* The panel's sum is of bytes carried in the window it compares with.
LEMMA SumBounded ==
  ASSUME OrderlyInv, rec.pc = "sum", rec.cur # Absent
  PROVE  WindowUsed <= Due(carried, late, row.quota.dir, rec.cur.win.from, now)
<1> DEFINE d == row.quota.dir
           since == row.since
           cur == rec.cur.win.from
           from == IF since > cur THEN since ELSE cur
           h == LocalHourStart(from)
<1>1. rec.row = row /\ row.since <= now /\ rec.cur.win.from <= now
  BY DEF OrderlyInv, GostQuotaInv, TurnsOK, WindowsOK
<1>2. /\ QuotaTypeInv /\ BytesInv /\ d \in Directions /\ since \in Nat /\ cur \in Nat /\ now \in Nat /\ now \in 0..MaxNow
      /\ points \in Points /\ carried \in Points /\ late \in Points /\ pend \in Bytes
  BY OrderlyTypes, BytesTypes DEF OrderlyInv
<1>3. WindowUsed = Since(points, d, from, now)
  BY <1>1, RangeIs DEF WindowUsed
<1> HIDE DEF d, since, cur
<1>4. from \in Nat /\ from <= now /\ cur <= from
  BY <1>1, <1>2 DEF since, cur
<1> HIDE DEF from
<1>5. h \in Hours /\ h <= now /\ h \in Nat
  BY <1>2, <1>4, BegunHour, HourAt
<1>6. Since(points, d, from, now) = Since(points, d, h, now)
      /\ Due(carried, late, d, from, now) = Due(carried, late, d, h, now)
  BY <1>4, SinceHour
<1> HIDE DEF h
<1>7. Since(points, d, h, now) + Charge(d, pend) <= Due(carried, late, d, h, now)
  BY <1>2, <1>5 DEF BytesInv, SampledAt
<1>8. Since(points, d, h, now) \in Nat /\ Charge(d, pend) \in Nat
      /\ Due(carried, late, d, from, now) \in Nat /\ Due(carried, late, d, cur, now) \in Nat
  <2>1. cur <= now
    BY <1>2, <1>4
  <2> QED
    BY <1>2, <1>4, <1>5, <2>1, SinceType, ChargeType, DueType
<1>9. Due(carried, late, d, from, now) <= Due(carried, late, d, cur, now)
  BY <1>2, <1>4, DueLater
<1>10. WindowUsed <= Due(carried, late, d, cur, now)
  BY <1>3, <1>6, <1>7, <1>8, <1>9
<1> QED
  BY <1>10 DEF d, cur

\* A count that was bounded stays so, whoever keeps it: bytes are only added to what may be
\* charged, and no edit changes the direction.
LEMMA BoundKept ==
  ASSUME OrderlyInv, [QuotaNext]_quotaVars, NEW used \in Nat, NEW from \in Nat, from <= now,
         used <= Due(carried, late, row.quota.dir, from, now)
  PROVE  used <= Due(carried', late', row'.quota.dir, from, now')
<1>1. Grows /\ QuotaTypeInv'
  BY BytesStep, QuotaTypeStep DEF OrderlyInv
<1>2. qsc' = qsc
  BY DEF QuotaNext, Tick, Carry, Gost, Flush, GostCrash, GostStart, Sample, SampleGost, SampleReality, Prune,
         Reconcile, RecList, RecUpdate, RecFind, RecSum, RecReset, RecFail, Admin, EditSave, EditApply, EditFail,
         ResetZero, ResetTotals, quotaVars
<1>3. row'.quota.dir = row.quota.dir /\ row.quota.dir \in Directions
  <2>1. row.quota \in qsc.quotas /\ row'.quota \in qsc.quotas /\ row.quota.dir \in Directions
    BY <1>1, <1>2, OrderlyTypes DEF QuotaTypeInv
  <2> QED
    BY <2>1 DEF OrderlyInv, Orderly, DirectionKept
<1>4. Due(carried, late, row.quota.dir, from, now) <= Due(carried', late', row.quota.dir, from, now')
  BY <1>1, <1>3 DEF Grows
<1>5. Due(carried, late, row.quota.dir, from, now) \in Nat /\ Due(carried', late', row.quota.dir, from, now') \in Nat
  <2>1. carried \in Points /\ late \in Points /\ now \in 0..MaxNow /\ now \in Nat
    BY BytesTypes DEF OrderlyInv
  <2>2. carried' \in Points /\ late' \in Points /\ now' \in 0..MaxNow
    BY <1>1 DEF QuotaTypeInv, QuotaTypeOK
  <2>3. now' = now \/ now' = now + 1
    BY DEF QuotaNext, Tick, Carry, Gost, Flush, GostCrash, GostStart, Sample, SampleGost, SampleReality, Prune,
           Reconcile, RecList, RecUpdate, RecFind, RecSum, RecReset, RecFail, Admin, EditSave, EditApply, EditFail,
           ResetZero, ResetTotals, quotaVars
  <2>4. from <= now'
    BY <2>1, <2>3
  <2> QED
    BY <1>3, <2>1, <2>2, <2>4, DueType
<1> QED
  BY <1>3, <1>4, <1>5

\* Nothing is within any bound.
LEMMA BoundZero ==
  ASSUME OrderlyInv, [QuotaNext]_quotaVars, NEW from \in Nat, from <= now
  PROVE  0 <= Due(carried', late', row'.quota.dir, from, now')
<1>1. Due(carried, late, row.quota.dir, from, now) \in Nat
  BY OrderlyTypes, BytesTypes, DueType DEF OrderlyInv
<1>2. 0 <= Due(carried, late, row.quota.dir, from, now)
  BY <1>1
<1> QED
  BY <1>2, BoundKept

\* Counts:
LEMMA CountsStep ==
  ASSUME OrderlyInv, [QuotaNext]_quotaVars
  PROVE  CountsOK'
<1> DEFINE Bound(from) == Due(carried', late', row'.quota.dir, from, now')
<1>0. /\ now \in 0..MaxNow /\ now \in Nat /\ row.quota \in Quota /\ conf.win.from \in Nat /\ conf.quota \in Quota
      /\ q # Absent => q.win.from \in Nat /\ q.used \in Nat
      /\ file # Absent => file.win.from \in Nat /\ file.used \in Nat
      /\ rec.cur # Absent => rec.cur.win.from \in Nat
      /\ rec.used \in Nat
  BY OrderlyTypes
<1>1. TurnsOK /\ ConfOK /\ WindowsOK /\ CountsOK
  BY DEF OrderlyInv, GostQuotaInv
<1>2. /\ q # Absent => q.win.from <= now
      /\ file # Absent => file.win.from <= now
      /\ rec.pc \in {"sum", "reset"} /\ rec.cur # Absent =>
             rec.cur.win.from <= now /\ (q # Absent => q.win.from <= rec.cur.win.from)
  BY <1>1 DEF WindowsOK
<1>3. /\ q # Absent => q.used <= Bound(q.win.from) /\ 0 <= Bound(q.win.from)
      /\ file # Absent => file.used <= Bound(file.win.from)
      /\ rec.pc = "reset" => rec.cur # Absent /\ rec.used <= Bound(rec.cur.win.from)
  BY <1>0, <1>1, <1>2, BoundKept, BoundZero DEF CountsOK
<1>4. conf.win.from <= now /\ 0 <= Bound(conf.win.from)
  <2>1. QuotaWindow(conf.quota.period, now).from \in Nat /\ QuotaWindow(conf.quota.period, now).from <= now
    BY <1>0, QuotaParts, WindowType DEF Windows
  <2>2. conf.win.from <= QuotaWindow(conf.quota.period, now).from
    BY <1>1 DEF ConfOK
  <2>3. conf.win.from <= now
    BY <1>0, <2>1, <2>2
  <2> QED
    BY <1>0, <2>3, BoundZero
<1>5. 0 <= Bound(QuotaWindow(row.quota.period, now).from)
  BY <1>0, QuotaParts, WindowType, BoundZero DEF Windows
<1> HIDE DEF Bound
<1>6. ASSUME q' # Absent PROVE q'.used <= Bound(q'.win.from)
  <2>1. CASE /\ q # Absent /\ q'.win = q.win
             /\ q'.used = q.used \/ q'.used = 0
    BY <1>3, <2>1
  <2>2. CASE q # Absent /\ q'.win = q.win /\ RecReset /\ q'.used = rec.used
    <3>1. rec.pc = "reset" /\ rec.cur # Absent
      BY <1>3, <2>2 DEF RecReset
    <3>2. rec.used <= Due(carried, late, row.quota.dir, rec.cur.win.from, now)
      BY <1>1, <3>1 DEF CountsOK
    <3>3. q.win.from \in Nat /\ rec.cur.win.from \in Nat /\ q.win.from <= rec.cur.win.from /\ rec.cur.win.from <= now
      BY <1>0, <1>2, <2>2, <3>1
    <3>4. row.quota.dir \in Directions /\ QuotaTypeInv /\ BytesInv
      BY OrderlyTypes DEF OrderlyInv
    <3>5. Due(carried, late, row.quota.dir, rec.cur.win.from, now) <= Due(carried, late, row.quota.dir, q.win.from, now)
      BY <3>3, <3>4, DueLater
    <3>6. q.win.from <= now
      BY <1>2, <2>2
    <3>7. Due(carried, late, row.quota.dir, rec.cur.win.from, now) \in Nat
          /\ Due(carried, late, row.quota.dir, q.win.from, now) \in Nat
      BY <1>0, <3>3, <3>4, <3>6, BytesTypes, DueType
    <3>8. rec.used <= Due(carried, late, row.quota.dir, q.win.from, now)
      BY <1>0, <3>2, <3>5, <3>7
    <3>9. rec.used <= Bound(q.win.from)
      BY <1>0, <3>3, <3>6, <3>8, BoundKept DEF Bound
    <3> QED
      BY <2>2, <3>9
  <2>3. ASSUME NEW e \in qsc.flows, Carry(e), q # Absent, q'.win = q.win, q'.used \in Nat,
               q'.used <= q.used + (IF row.quota.dir \in {e, "total"} THEN 1 ELSE 0)
        PROVE  q'.used <= Bound(q'.win.from)
    <3>1. row' = row /\ row.quota.dir \in Directions /\ QuotaTypeInv /\ BytesInv
      BY <2>3, OrderlyTypes DEF Carry, OrderlyInv
    <3>2. q.used <= Due(carried, late, row.quota.dir, q.win.from, now) /\ q.win.from \in Nat /\ q.win.from <= now /\ q.used \in Nat
      BY <1>0, <1>1, <1>2, <2>3 DEF CountsOK
    <3>3. Due(carried', late', row.quota.dir, q.win.from, now')
              = Due(carried, late, row.quota.dir, q.win.from, now) + (IF row.quota.dir \in {e, "total"} THEN 1 ELSE 0)
      BY <2>3, <3>1, <3>2, BytesCarry
    <3>4. Due(carried, late, row.quota.dir, q.win.from, now) \in Nat
      BY <1>0, <3>1, <3>2, BytesTypes, DueType
    <3>5. q'.used <= Due(carried', late', row.quota.dir, q.win.from, now')
      BY <2>3, <3>2, <3>3, <3>4
    <3> QED
      BY <2>3, <3>1, <3>5 DEF Bound
  <2>4. CASE /\ q'.win = conf.win
             /\ q'.used = 0 \/ (file # Absent /\ file.win = conf.win /\ q'.used = file.used)
    BY <1>3, <1>4, <2>4
  <2>5. CASE /\ q'.win = QuotaWindow(row.quota.period, now)
             /\ q'.used = 0 \/ (q # Absent /\ q'.win = q.win /\ q'.used = q.used)
    BY <1>3, <1>5, <2>5
  <2> QED
    BY <1>6, <2>1, <2>2, <2>3, <2>4, <2>5, QuotaSteps
<1>7. file' # Absent => file'.used <= Bound(file'.win.from)
  <2>1. CASE Flush
    <3>1. q # Absent /\ file'.win = q.win /\ file'.used = q.used
      BY <2>1 DEF Flush
    <3> QED
      BY <1>3, <3>1
  <2>2. CASE ~Flush
    <3>1. file' = file
      BY <2>2 DEF QuotaNext, Tick, Carry, Gost, GostCrash, GostStart, Sample, SampleGost, SampleReality, Prune,
                  Reconcile, RecList, RecUpdate, RecFind, RecSum, RecReset, RecFail, Admin, EditSave, EditApply,
                  EditFail, ResetZero, ResetTotals, quotaVars, gost
    <3> QED
      BY <1>3, <3>1
  <2> QED
    BY <2>1, <2>2
<1>8. rec'.pc = "reset" => rec'.cur # Absent /\ rec'.used <= Bound(rec'.cur.win.from)
  <2> SUFFICES ASSUME rec'.pc = "reset" PROVE rec'.cur # Absent /\ rec'.used <= Bound(rec'.cur.win.from)
    OBVIOUS
  <2>1. CASE rec' = rec
    BY <1>3, <2>1
  <2>2. CASE RecSum /\ rec.pc = "sum" /\ rec.cur # Absent /\ rec'.used = WindowUsed /\ rec'.cur = rec.cur
    <3>1. WindowUsed <= Due(carried, late, row.quota.dir, rec.cur.win.from, now)
      BY <2>2, SumBounded
    <3>2. WindowUsed \in Nat /\ rec.cur.win.from \in Nat /\ rec.cur.win.from <= now
      BY <1>0, <1>2, <2>2, WindowUsedType DEF OrderlyInv
    <3>3. WindowUsed <= Bound(rec.cur.win.from)
      BY <3>1, <3>2, BoundKept DEF Bound
    <3> QED
      BY <2>2, <3>3
  <2> QED
    BY <2>1, <2>2, RecSteps
<1> QED
  BY <1>6, <1>7, <1>8 DEF CountsOK, Bound

LEMMA GostInit ==
  ASSUME QuotaInit, qsc.kind = "gost"
  PROVE  GostQuotaInv
<1>1. QuotaTypeInv /\ BytesInv
  BY QuotaTypeInit, BytesInit
<1>2. now = 0 /\ now \in 0..MaxNow /\ row \in Rows /\ row.quota \in Quota /\ row.since = 0
  BY <1>1 DEF QuotaInit, QuotaTypeInv, QuotaTypeOK, Rows
<1>3. rec.pc = "idle" /\ adm.pc = "idle" /\ file = Absent
  BY DEF QuotaInit, RecIdle, AdmIdle
<1>4. conf.quota = row.quota /\ conf.win = QuotaWindow(row.quota.period, now)
  BY <1>2, WantType DEF QuotaInit
<1>5. q.win = conf.win /\ q.used = 0
  BY <1>4 DEF QuotaInit
<1>6. conf.win.from \in Nat /\ conf.win.from <= now
  BY <1>2, <1>4, QuotaParts, WindowType DEF Windows
<1>7. Due(carried, late, row.quota.dir, conf.win.from, now) \in Nat
  BY <1>1, <1>2, <1>6, BytesTypes, QuotaParts, DueType
<1>8. TurnsOK
  BY <1>3 DEF TurnsOK
<1>9. ConfOK
  BY <1>3, <1>4, <1>6 DEF ConfOK
<1>10. WindowsOK
  BY <1>2, <1>3, <1>5, <1>6 DEF WindowsOK
<1>11. CountsOK
  BY <1>3, <1>5, <1>7 DEF CountsOK
<1> QED
  BY <1>8, <1>9, <1>10, <1>11 DEF GostQuotaInv

LEMMA QuotaInvInit == QuotaInit => QuotaInv
<1> SUFFICES ASSUME QuotaInit PROVE QuotaInv
  OBVIOUS
<1>1. PausedInv
  BY DEF QuotaInit, PausedInv
<1>2. Orderly => GostQuotaInv
  BY GostInit DEF Orderly
<1> QED
  BY <1>1, <1>2, QuotaTypeInit, BytesInit DEF QuotaInv

LEMMA QuotaInvStep == QuotaInv /\ [QuotaNext]_quotaVars => QuotaInv'
<1> SUFFICES ASSUME QuotaInv, [QuotaNext]_quotaVars PROVE QuotaInv'
  OBVIOUS
<1>1. QuotaTypeInv' /\ BytesInv' /\ PausedInv'
  BY QuotaTypeStep, BytesStep, PausedStep DEF QuotaInv
<1>2. Orderly' => Orderly
  <2>1. qsc' = qsc
    BY DEF QuotaNext, Tick, Carry, Gost, Flush, GostCrash, GostStart, Sample, SampleGost, SampleReality, Prune,
           Reconcile, RecList, RecUpdate, RecFind, RecSum, RecReset, RecFail, Admin, EditSave, EditApply, EditFail,
           ResetZero, ResetTotals, quotaVars
  <2> QED
    BY <2>1 DEF Orderly, DirectionKept
<1>3. OrderlyInv => GostQuotaInv'
  BY TurnsStep, ConfStep, WindowsStep, CountsStep DEF GostQuotaInv
<1> QED
  BY <1>1, <1>2, <1>3 DEF QuotaInv, OrderlyInv

LEMMA QuotaInvBounds == QuotaInv => NoOvercharge
<1> SUFFICES ASSUME QuotaInv PROVE NoOvercharge
  OBVIOUS
<1>1. ASSUME q # Absent, qsc.env \cap {"overlap", "findFail"} = {}, DirectionKept
      PROVE  q.used <= Chargeable(q.quota.dir, q.win.from)
  <2>1. OrderlyInv
    BY <1>1, ScenarioTypes DEF QuotaInv, OrderlyInv, Orderly, QuotaTypeInv, QuotaTypeOK
  <2>2. q.quota.dir = row.quota.dir
    BY <1>1, <2>1, OrderlyTypes
  <2>3. q.used <= Due(carried, late, row.quota.dir, q.win.from, now)
    BY <1>1, <2>1 DEF OrderlyInv, GostQuotaInv, CountsOK
  <2> QED
    BY <2>2, <2>3, ChargeableIs
<1>2. ASSUME paused # Absent
      PROVE  paused.used <= Chargeable(RealityDir(paused.by.dir), QuotaWindow(paused.by.period, paused.at).from)
  BY <1>2, ChargeableIs DEF QuotaInv, PausedInv
<1> QED
  BY <1>1, <1>2 DEF NoOvercharge

\* gost's count, and the sum that pauses a reality node, never exceed what was carried in the
\* window they stand for, whatever the scenario, its quotas and its faults, and however long
\* hours, days and months are: no byte is charged twice by a crash of gost, a midnight, a
\* restored count (Reconcile, restoreQuotaUsage) or a pruned table.
THEOREM NoOverchargeHolds == QuotaSpec => []NoOvercharge
  BY QuotaInvInit, QuotaInvStep, QuotaInvBounds, PTL DEF QuotaSpec
=============================================================================

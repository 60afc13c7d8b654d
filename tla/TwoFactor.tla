----------------------------- MODULE TwoFactor ------------------------------
(***************************************************************************)
(* Login, two-factor authentication and its management                     *)
(* (internal/server/server.go, twofa.go, internal/auth/totp.go).           *)
(*                                                                         *)
(* The secret, the flag that enables it, the last time step accepted and   *)
(* the recovery codes are settings of the database, each written by a      *)
(* transaction of its own; remembered devices are a bucket.  The setup in  *)
(* progress, the challenges and the failure counts are in memory.  Every   *)
(* read of the settings that a later write depends on is a step, and every *)
(* write is a step, so that another request, a failed write or the end of  *)
(* the process can come between.                                           *)
(*                                                                         *)
(* A binding is the enrolment of one secret.  What belongs to a binding    *)
(* carries its number, which the code does not have: it tells the codes    *)
(* and the devices of a secret from those of an earlier one.               *)
(* The clock ticks in time steps of a code (Period).  Challenges, setups   *)
(* and devices may expire at any moment.  What a session is after it has   *)
(* been opened, and what revokes it, is the matter of Sessions.            *)
(***************************************************************************)
EXTENDS Integers, Sequences, FiniteSets, LoginGuard

CONSTANTS
    Threads, Clients,
    CodesPerBatch,      \* recoveryCodeCount
    MaxTries,           \* challengeMaxTries
    Skew,               \* time steps a code may be early or late
    MaxBindings, MaxBatches, MaxNow, MaxFaults,
    Scenarios

EnvEvents ==
    { "wrong",      \* wrong passwords and codes are tried
      "setup", "disable", "recovery", "change",   \* what the admin asks for, besides to log in
      "remember",   \* with "remember this device"
      "writeFail",  \* a write of the database fails
      "expire",     \* challenges, setups and devices expire
      "restart",    \* the panel dies and starts again, perhaps after -reset-2fa
      "overlap" }   \* requests that check or change the second factor may overlap

Start == Skew + 1   \* the first instant; time step 0, long ago, stands for no last step

\* requests: how many the clients make; until: the last instant; bound: 2FA is enabled at first.
Scenario == [env : SUBSET EnvEvents, requests : Nat, until : Start..MaxNow, bound : BOOLEAN]
ASSUME TwoFactorScenarios == Scenarios \subseteq Scenario
ASSUME TwoFactorBounds ==
    /\ MaxTries \in Nat \ {0} /\ CodesPerBatch \in Nat
    /\ MaxBindings \in Nat \ {0} /\ MaxBatches \in Nat \ {0}
    /\ MaxNow \in Nat /\ MaxFaults \in Nat

\* LastStep takes a step more than two ahead for a clock set back: a code must not be that early.
ASSUME SkewAssumption == Skew \in 0..2

VARIABLES
    sc,         \* the scenario, never changed
    left,       \* requests the clients may still make
    faults,     \* failed writes and restarts so far
    now,
    secret,     \* totp_secret: the binding in force, 0 for none
    enabled,    \* totp_enabled
    lastStep,   \* totp_last_step
    recovery,   \* totp_recovery_codes
    devices,    \* bucket devices
    pending,    \* Server.pending: the binding being set up, 0 for none
    chals,      \* Server.chals: challenge -> client and attempts
    byIP, byUser,   \* loginGuard
    pc,         \* what each request in progress does next
    made,       \* ghost: the bindings, batches and challenges made
    opened,     \* ghost: the sessions opened with a code: which code, which challenge
    torn,       \* ghost: how many enable and disable requests a fault left incomplete
    failures    \* ghost: when each client and the account failed, since its last success

settings == <<secret, enabled, lastStep, recovery>>
guard == <<byIP, byUser, failures>>
world == <<sc, now>>
vars == <<sc, left, faults, now, settings, devices, pending, chals, guard, pc, made, opened, torn>>

\* The account, and what a login under another name fails for besides its client.
Account == "admin"
NoAccount == "none"
Keys == Clients \union {Account}

\* Addresses are not names of accounts.
ASSUME ClientsAssumption == IsFiniteSet(Threads) /\ Clients \intersect {Account, NoAccount} = {}

Idle == [at |-> "idle"]
At(r, where) == pc[r].at = where
Goto(r, rec) == pc' = [pc EXCEPT ![r] = rec]

\* A code of the authenticator for time step n, and the i-th recovery code of a batch.
Totp(b, n) == [kind |-> "totp", bind |-> b, batch |-> 0, n |-> n]
Batch(b, g) == { [kind |-> "recovery", bind |-> b, batch |-> g, n |-> i] : i \in 1..CodesPerBatch }
WrongCode == [kind |-> "totp", bind |-> 0, batch |-> 0, n |-> 0]

\* What a client may type: the present codes of the binding in force or in preparation, a
\* recovery code of any batch, something wrong.
Present == { Totp(b, n) : b \in ({secret, pending} \ {0}), n \in (now - Skew)..(now + Skew) }
Printed == UNION { Batch(b, g) : b \in 0..made.bindings, g \in 1..made.batches }
Typed == Present \union Printed \union { c \in {WrongCode} : "wrong" \in sc.env }

\* TwoFactorEnabled.
Enabled == enabled /\ secret # 0

-----------------------------------------------------------------------------
Init ==
    /\ sc \in Scenarios
    /\ left = sc.requests /\ faults = 0 /\ now = Start
    /\ secret = IF sc.bound THEN 1 ELSE 0
    /\ enabled = sc.bound
    /\ lastStep = 0
    /\ recovery = IF sc.bound THEN Batch(1, 1) ELSE {}
    /\ devices = {} /\ pending = 0 /\ chals = << >>
    /\ byIP = << >> /\ byUser = << >>
    /\ pc = [r \in Threads |-> Idle]
    /\ made = [bindings |-> IF sc.bound THEN 1 ELSE 0,
               batches |-> IF sc.bound THEN 1 ELSE 0, chals |-> 0]
    /\ opened = << >> /\ torn = 0
    /\ failures = [k \in Keys |-> << >>]

-----------------------------------------------------------------------------
(* loginGuard, as the handlers call it *)

BlockedFor(c, account) ==
    Blocked(byIP, c, now) \/ (account # NoAccount /\ Blocked(byUser, account, now))

Fail(c, account) ==
    /\ byIP' = Bump(byIP, c, now)
    /\ byUser' = IF account = NoAccount THEN byUser ELSE Bump(byUser, account, now)
    /\ failures' = [k \in Keys |-> IF k \in {c, account} THEN Append(failures[k], now) ELSE failures[k]]

Success(c) ==
    /\ byIP' = Clear(byIP, c)
    /\ byUser' = Clear(byUser, Account)
    /\ failures' = [failures EXCEPT ![c] = << >>, ![Account] = << >>]

\* The ten minute clean-up.
GuardCleanup ==
    /\ Stale(byIP, now) \union Stale(byUser, now) # {}
    /\ byIP' = Cleanup(byIP, now)
    /\ byUser' = Cleanup(byUser, now)
    /\ UNCHANGED <<sc, left, faults, now, settings, devices, pending, chals, pc, made, opened, torn, failures>>

-----------------------------------------------------------------------------
(* Requests that begin with the password *)

\* Stages that check or change the second factor; without "overlap" one request at a time.
FactorStages == {"code", "spend", "accepted", "remember", "manage", "consume",
                 "clear", "regen", "forget", "enable"}
MyTurn(r) == "overlap" \in sc.env \/ \A q \in Threads \ {r} : pc[q].at \notin FactorStages

\* The password is compared after the guard has let the request pass.  A login under another
\* name counts for the client alone.
Begin(r, c, what, account) ==
    /\ At(r, "idle") /\ left > 0
    /\ ~ BlockedFor(c, account)
    /\ what = "recovery" => Enabled
    /\ left' = left - 1
    /\ Goto(r, [at |-> "password", what |-> what, client |-> c, account |-> account])
    /\ UNCHANGED <<world, faults, settings, devices, pending, chals, guard, made, opened, torn>>

PasswordWrong(r) ==
    /\ At(r, "password") /\ "wrong" \in sc.env
    /\ Fail(pc[r].client, pc[r].account)
    /\ Goto(r, Idle)
    /\ UNCHANGED <<world, left, faults, settings, devices, pending, chals, made, opened, torn>>

PasswordRight(r, what) ==
    At(r, "password") /\ pc[r].what = what /\ pc[r].account = Account

\* handleLogin: without two-factor authentication the session is opened here.
LoginPassword(r) ==
    /\ PasswordRight(r, "login")
    /\ Success(pc[r].client)
    /\ Goto(r, IF Enabled THEN [at |-> "factor", client |-> pc[r].client] ELSE Idle)
    /\ UNCHANGED <<world, left, faults, settings, devices, pending, chals, made, opened, torn>>

\* knownDevice: a device of this browser opens a session without a code.
LoginDevice(r) ==
    /\ At(r, "factor")
    /\ \E d \in devices : d.client = pc[r].client
    /\ Goto(r, Idle)
    /\ UNCHANGED <<world, left, faults, settings, devices, pending, chals, guard, made, opened, torn>>

\* createChallenge; a device cookie that came to another browser is deleted.
LoginChallenge(r) ==
    /\ At(r, "factor")
    /\ \E moved \in {{}} \union { {d} : d \in { x \in devices : x.client # pc[r].client } } :
          devices' = devices \ moved
    /\ LET id == made.chals + 1
       IN  /\ chals' = [k \in DOMAIN chals \union {id} |->
                          IF k = id THEN [client |-> pc[r].client, attempts |-> 0] ELSE chals[k]]
           /\ made' = [made EXCEPT !.chals = id]
    /\ Goto(r, Idle)
    /\ UNCHANGED <<world, left, faults, settings, pending, guard, opened, torn>>

\* handle2FASetup: the failure counts are cleared even when the setup is refused.
SetupPassword(r) ==
    /\ PasswordRight(r, "setup")
    /\ Success(pc[r].client)
    /\ \/ Enabled /\ UNCHANGED <<pending, made>>
       \/ /\ ~ Enabled /\ made.bindings < MaxBindings
          /\ pending' = made.bindings + 1
          /\ made' = [made EXCEPT !.bindings = @ + 1]
    /\ Goto(r, Idle)
    /\ UNCHANGED <<world, left, faults, settings, devices, chals, opened, torn>>

\* handle2FADisable, handle2FARecovery, handleChangePassword: the code comes next, if there
\* is a second factor.
ManagePassword(r, what) ==
    /\ PasswordRight(r, what) /\ MyTurn(r)
    /\ Goto(r, [at |-> IF Enabled \/ what = "recovery" THEN "manage"
                       ELSE IF what = "disable" THEN "clear" ELSE "forget",
                what |-> what, client |-> pc[r].client, k |-> 1])
    /\ UNCHANGED <<world, left, faults, settings, devices, pending, chals, guard, made, opened, torn>>

-----------------------------------------------------------------------------
(* Codes *)

\* Verify, with the check of the last step when the code is to be recorded.  A last step more
\* than two ahead of the clock is taken for a clock set back.
InTime(code, b) ==
    /\ b # 0 /\ code.kind = "totp" /\ code.bind = b
    /\ code.n \in (now - Skew)..(now + Skew)

LastStep == IF lastStep > now + 2 THEN 0 ELSE lastStep

\* Mutant: the step is compared with the clock only.
NewInTime(code) == InTime(code, secret)

NewCode(code) == InTime(code, secret) /\ code.n > LastStep

\* handleLogin2FA, lookupChallenge: the challenge of another client is dropped.
AnswerForeign(c, id) ==
    /\ left > 0
    /\ chals[id].client # c
    /\ left' = left - 1
    /\ chals' = [k \in DOMAIN chals \ {id} |-> chals[k]]
    /\ UNCHANGED <<world, faults, settings, devices, pending, guard, pc, made, opened, torn>>

Answer(r, id, code, remember) ==
    /\ At(r, "idle") /\ left > 0 /\ MyTurn(r)
    /\ ~ BlockedFor(chals[id].client, Account)
    /\ left' = left - 1
    /\ Goto(r, [at |-> "code", client |-> chals[id].client, id |-> id, code |-> code, remember |-> remember])
    /\ UNCHANGED <<world, faults, settings, devices, pending, chals, guard, made, opened, torn>>

\* checkSecondFactor, up to the write: for a recovery code the list without it is made now.
CheckCode(r) ==
    /\ At(r, "code")
    /\ Goto(r, IF NewCode(pc[r].code) \/ pc[r].code \in recovery
               THEN [at |-> "spend", client |-> pc[r].client, id |-> pc[r].id, code |-> pc[r].code,
                     remember |-> pc[r].remember, rest |-> recovery \ {pc[r].code}]
               ELSE [at |-> "failed", client |-> pc[r].client, id |-> pc[r].id])
    /\ UNCHANGED <<world, left, faults, settings, devices, pending, chals, guard, made, opened, torn>>

\* A fault of the environment.
MayFault(what) == what \in sc.env /\ faults < MaxFaults /\ faults' = faults + 1

\* The code is spent before the session is opened; when the write fails it is refused.
SpendCode(r) ==
    /\ At(r, "spend")
    /\ \/ /\ IF pc[r].code.kind = "totp"
             THEN lastStep' = pc[r].code.n /\ UNCHANGED recovery
             ELSE recovery' = pc[r].rest /\ UNCHANGED lastStep
          /\ Goto(r, [at |-> "accepted", client |-> pc[r].client, id |-> pc[r].id,
                      code |-> pc[r].code, remember |-> pc[r].remember])
          /\ UNCHANGED faults
       \/ /\ MayFault("writeFail")
          /\ Goto(r, [at |-> "failed", client |-> pc[r].client, id |-> pc[r].id])
          /\ UNCHANGED <<lastStep, recovery>>
    /\ UNCHANGED <<world, left, secret, enabled, devices, pending, chals, guard, made, opened, torn>>

\* failChallenge: the last attempt drops the challenge.
AnswerFailed(r) ==
    /\ At(r, "failed")
    /\ LET id == pc[r].id
       IN  chals' = IF id \notin DOMAIN chals THEN chals
                    ELSE IF chals[id].attempts + 1 >= MaxTries THEN [k \in DOMAIN chals \ {id} |-> chals[k]]
                    ELSE [chals EXCEPT ![id].attempts = @ + 1]
    /\ Fail(pc[r].client, Account)
    /\ Goto(r, Idle)
    /\ UNCHANGED <<world, left, faults, settings, devices, pending, made, opened, torn>>

\* dropChallenge, guard.success, startSession.
AnswerAccepted(r) ==
    /\ At(r, "accepted")
    /\ chals' = [k \in DOMAIN chals \ {pc[r].id} |-> chals[k]]
    /\ Success(pc[r].client)
    /\ opened' = Append(opened, [code |-> pc[r].code, id |-> pc[r].id])
    /\ Goto(r, IF pc[r].remember
               THEN [at |-> "remember", client |-> pc[r].client, bind |-> pc[r].code.bind] ELSE Idle)
    /\ UNCHANGED <<world, left, faults, settings, devices, pending, made, torn>>

\* issueDeviceToken; a failed write is only logged.
RememberDevice(r) ==
    /\ At(r, "remember")
    /\ \/ devices' = devices \union {[client |-> pc[r].client, bind |-> pc[r].bind]} /\ UNCHANGED faults
       \/ MayFault("writeFail") /\ UNCHANGED devices
    /\ Goto(r, Idle)
    /\ UNCHANGED <<world, left, settings, pending, chals, guard, made, opened, torn>>

-----------------------------------------------------------------------------
(* Management *)

Granted(what) == CASE what = "disable" -> "clear" [] what = "recovery" -> "regen" [] OTHER -> "forget"

\* checkManageCode: a code of the authenticator is not recorded, a recovery code is spent.
ManageCode(r, code) ==
    /\ At(r, "manage")
    /\ \/ /\ InTime(code, secret)
          /\ Goto(r, [pc[r] EXCEPT !.at = Granted(pc[r].what)]) /\ UNCHANGED guard
       \/ /\ code \in recovery
          /\ Goto(r, [at |-> "consume", what |-> pc[r].what, client |-> pc[r].client, k |-> 1,
                      rest |-> recovery \ {code}])
          /\ UNCHANGED guard
       \/ /\ code = WrongCode /\ "wrong" \in sc.env
          /\ Fail(pc[r].client, Account)
          /\ Goto(r, Idle)
    /\ UNCHANGED <<world, left, faults, settings, devices, pending, chals, made, opened, torn>>

\* When the list cannot be written the code counts as wrong.
ManageConsume(r) ==
    /\ At(r, "consume")
    /\ \/ /\ recovery' = pc[r].rest
          /\ Goto(r, [at |-> Granted(pc[r].what), what |-> pc[r].what, client |-> pc[r].client, k |-> 1])
          /\ UNCHANGED <<faults, guard>>
       \/ /\ MayFault("writeFail")
          /\ Fail(pc[r].client, Account)
          /\ Goto(r, Idle)
          /\ UNCHANGED recovery
    /\ UNCHANGED <<world, left, secret, enabled, lastStep, devices, pending, chals, made, opened, torn>>

\* A write in the middle of clearing or enabling that fails ends the request there.
CutOff(r) ==
    /\ MayFault("writeFail")
    /\ torn' = torn + 1
    /\ Goto(r, Idle)
    /\ UNCHANGED <<settings, devices, pending, guard, made>>

\* Mutant: the devices are forgotten by the change of the password only.
ClearStepsShort == <<"secret", "enabled", "lastStep", "recovery", "pending">>

\* clearTOTP: the settings one by one, the setup in progress, the devices.
ClearSteps == <<"secret", "enabled", "lastStep", "recovery", "pending", "devices">>

ClearStep(r) ==
    /\ At(r, "clear")
    /\ LET step == ClearSteps[pc[r].k]
           last == pc[r].k = Len(ClearSteps)
       IN  \/ /\ secret' = IF step = "secret" THEN 0 ELSE secret
              /\ enabled' = (enabled /\ step # "enabled")
              /\ lastStep' = IF step = "lastStep" THEN 0 ELSE lastStep
              /\ recovery' = IF step = "recovery" THEN {} ELSE recovery
              /\ pending' = IF step = "pending" THEN 0 ELSE pending
              /\ devices' = IF step = "devices" THEN {} ELSE devices
              /\ IF last THEN Success(pc[r].client) ELSE UNCHANGED guard
              /\ Goto(r, IF last THEN Idle ELSE [pc[r] EXCEPT !.k = @ + 1])
              /\ UNCHANGED <<faults, torn, made>>
           \/ step # "pending" /\ CutOff(r)
    /\ UNCHANGED <<world, left, chals, opened>>

\* handle2FARecovery: one write replaces the batch.
RegenCodes(r) ==
    /\ At(r, "regen")
    /\ \/ /\ made.batches < MaxBatches
          /\ recovery' = Batch(secret, made.batches + 1)
          /\ made' = [made EXCEPT !.batches = @ + 1]
          /\ Success(pc[r].client)
          /\ UNCHANGED faults
       \/ MayFault("writeFail") /\ UNCHANGED <<recovery, made, guard>>
    /\ Goto(r, Idle)
    /\ UNCHANGED <<world, left, secret, enabled, lastStep, devices, pending, chals, opened, torn>>

\* handleChangePassword: the new password may be refused or its hash not be written; when it
\* is, the devices go (a failure of that is ignored) and the challenges stay.
ForgetDevices(r) ==
    /\ At(r, "forget")
    /\ \/ devices' = {} /\ Success(pc[r].client) /\ UNCHANGED faults
       \/ UNCHANGED <<devices, guard, faults>>
       \/ MayFault("writeFail") /\ Success(pc[r].client) /\ UNCHANGED devices
    /\ Goto(r, Idle)
    /\ UNCHANGED <<world, left, settings, pending, chals, made, opened, torn>>

\* handle2FAEnable: a code of the binding in preparation.
EnableCheck(r, c, code) ==
    /\ At(r, "idle") /\ left > 0 /\ MyTurn(r)
    /\ pending # 0 /\ ~ BlockedFor(c, Account)
    /\ left' = left - 1
    /\ IF InTime(code, pending)
       THEN Goto(r, [at |-> "enable", client |-> c, bind |-> pending, k |-> 1]) /\ UNCHANGED guard
       ELSE code = WrongCode /\ Fail(c, Account) /\ UNCHANGED pc
    /\ UNCHANGED <<world, faults, settings, devices, pending, chals, made, opened, torn>>

EnableSteps == <<"secret", "enabled", "lastStep", "recovery", "pending">>

\* handle2FAEnable looks at the errors of two of its writes and passes over those of the others.
\* When the flag cannot be written the request goes on, and 2FA is not enabled at its end.
EnableStep(r) ==
    /\ At(r, "enable")
    /\ LET step == EnableSteps[pc[r].k]
           last == pc[r].k = Len(EnableSteps)
           b == pc[r].bind
       IN  \/ /\ step = "recovery" => made.batches < MaxBatches
              /\ secret' = IF step = "secret" THEN b ELSE secret
              /\ enabled' = (enabled \/ step = "enabled")
              /\ lastStep' = IF step = "lastStep" THEN 0 ELSE lastStep
              /\ recovery' = IF step = "recovery" THEN Batch(b, made.batches + 1) ELSE recovery
              /\ made' = IF step = "recovery" THEN [made EXCEPT !.batches = @ + 1] ELSE made
              /\ pending' = IF step = "pending" THEN 0 ELSE pending
              /\ IF last THEN Success(pc[r].client) ELSE UNCHANGED guard
              /\ Goto(r, IF last THEN Idle ELSE [pc[r] EXCEPT !.k = @ + 1])
              /\ UNCHANGED <<faults, torn, devices>>
           \/ step \in {"secret", "recovery"} /\ CutOff(r)
           \/ /\ step \in {"enabled", "lastStep"} /\ MayFault("writeFail")
              /\ torn' = IF step = "enabled" THEN torn + 1 ELSE torn
              /\ Goto(r, [pc[r] EXCEPT !.k = @ + 1])
              /\ UNCHANGED <<settings, pending, made, guard, devices>>
    /\ UNCHANGED <<world, left, chals, opened>>

-----------------------------------------------------------------------------
(* Time, expiry, restarts *)

Tick ==
    /\ now < sc.until
    /\ now' = now + 1
    /\ UNCHANGED <<sc, left, faults, settings, devices, pending, chals, guard, pc, made, opened, torn>>

\* A device also goes when its browser logs out.
Expire ==
    /\ "expire" \in sc.env
    /\ \/ /\ \E id \in DOMAIN chals : chals' = [k \in DOMAIN chals \ {id} |-> chals[k]]
          /\ UNCHANGED <<pending, devices>>
       \/ pending # 0 /\ pending' = 0 /\ UNCHANGED <<chals, devices>>
       \/ (\E d \in devices : devices' = devices \ {d}) /\ UNCHANGED <<chals, pending>>
    /\ UNCHANGED <<world, left, faults, settings, guard, pc, made, opened, torn>>

\* What was in memory is gone.  With the panel stopped -reset-2fa deletes all there is of the
\* second factor (cli.go, syncDB).
Restart ==
    /\ MayFault("restart")
    /\ \/ UNCHANGED <<settings, devices>>
       \/ secret' = 0 /\ enabled' = FALSE /\ lastStep' = 0 /\ recovery' = {} /\ devices' = {}
    /\ pending' = 0 /\ chals' = << >>
    /\ byIP' = << >> /\ byUser' = << >> /\ failures' = [k \in Keys |-> << >>]
    /\ pc' = [r \in Threads |-> Idle]
    /\ torn' = IF \E r \in Threads : pc[r].at \in {"clear", "enable"} THEN torn + 1 ELSE torn
    /\ UNCHANGED <<world, left, made, opened>>

ManageRequests == {"setup", "disable", "recovery", "change"}

Requests(r) ==
    \/ \E c \in Clients : Begin(r, c, "login", Account)
    \/ \E c \in Clients : "wrong" \in sc.env /\ Begin(r, c, "login", NoAccount)
    \/ \E c \in Clients, what \in ManageRequests \intersect sc.env : Begin(r, c, what, Account)
    \/ PasswordWrong(r) \/ LoginPassword(r) \/ LoginDevice(r) \/ LoginChallenge(r)
    \/ SetupPassword(r)
    \/ \E what \in {"disable", "recovery", "change"} : ManagePassword(r, what)
    \/ \E id \in DOMAIN chals, code \in Typed, remember \in {FALSE, "remember" \in sc.env} :
          Answer(r, id, code, remember)
    \/ CheckCode(r) \/ SpendCode(r) \/ AnswerFailed(r) \/ AnswerAccepted(r) \/ RememberDevice(r)
    \/ \E code \in Typed : ManageCode(r, code)
    \/ ManageConsume(r) \/ ClearStep(r) \/ RegenCodes(r) \/ ForgetDevices(r)
    \/ \E c \in Clients, code \in Typed : EnableCheck(r, c, code)
    \/ EnableStep(r)

Next ==
    \/ \E r \in Threads : Requests(r)
    \/ \E c \in Clients, id \in DOMAIN chals : AnswerForeign(c, id)
    \/ GuardCleanup \/ Expire \/ Restart \/ Tick

Spec == Init /\ [][Next]_vars

-----------------------------------------------------------------------------
Stages == FactorStages \union {"idle", "password", "factor", "failed"}
CodeIn(c) == c.bind \in 0..MaxBindings /\ c.batch \in 0..MaxBatches

\* A challenge that has been answered wrongly often enough is gone, a last step is never that
\* of a code still to come, and an entry that makes a client wait has the failures for it.
TypeOK ==
    /\ left \in Nat /\ faults \in 0..MaxFaults /\ torn \in 0..MaxFaults /\ now \in 0..MaxNow
    /\ secret \in 0..MaxBindings /\ pending \in 0..MaxBindings /\ enabled \in BOOLEAN
    /\ lastStep \in 0..(now + Skew)
    /\ \A c \in recovery : c.kind = "recovery" /\ CodeIn(c)
    /\ \A d \in devices : d.client \in Clients /\ d.bind \in 0..MaxBindings
    /\ \A id \in DOMAIN chals : id <= made.chals /\ chals[id].attempts \in 0..(MaxTries - 1)
    /\ \A r \in Threads : pc[r].at \in Stages
    /\ DOMAIN byIP \subseteq Clients /\ DOMAIN byUser \subseteq {Account}
    /\ \A c \in DOMAIN byIP : byIP[c].until # NoWait => byIP[c].fails >= FreeAttempts

\* A challenge and a recovery code each open one session at most, also across failed writes,
\* restarts, and disabling and enabling again, when the requests that check codes take turns.
\* A code of the authenticator does while no enable or disable was left incomplete.
CodeOnce ==
    \A i, j \in 1..Len(opened) :
        i # j => /\ opened[i].id # opened[j].id
                 /\ opened[i].code = opened[j].code => opened[i].code.kind = "totp" /\ torn > 0

\* README.md: "a code can be used only once".  An enable that cannot write the recovery codes
\* fails with the second factor in force and the setup still in progress; to enable once
\* more forgets the last step.
CodeNeverTwice ==
    \A i, j \in 1..Len(opened) : i # j => opened[i].code # opened[j].code

Quiet == \A r \in Threads : pc[r].at \notin {"clear", "enable"}

\* Whenever the second factor is enabled, the recovery codes and the remembered devices that
\* are accepted in its place belong to the binding in force.  An interrupted disable may
\* leave the codes and the devices of the old binding, an interrupted enable those it found,
\* and one that could not write the flag a binding that is not in force: the codes of another
\* binding take two such faults to be accepted, its devices one.
OwnBinding ==
    Enabled /\ Quiet =>
        /\ torn <= 1 => \A c \in recovery : c.bind = secret
        /\ torn = 0 => \A d \in devices : d.bind = secret

\* However the requests overlap, a client or an account that has failed FreeAttempts times
\* waits before it may fail again; the requests already past the check are all it has extra.
Throttled ==
    LET window == FreeAttempts + Cardinality(Threads)
        wait == CHOOSE w \in DOMAIN Tiers : Tiers[w] = FreeAttempts
    IN  \A k \in Keys : \A i \in 1..(Len(failures[k]) - window + 1) :
            failures[k][i + window - 1] - failures[k][i] > wait

\* README.md: failures wait longer the more there are, the fifth a minute, the tenth five, the
\* twentieth thirty.
LongerWaits ==
    \A c \in DOMAIN byIP, w \in DOMAIN Tiers :
        LET n == Len(failures[c])
        IN  n = Tiers[w] /\ now = failures[c][n] => byIP[c].until >= now + w
=============================================================================

------------------------------ MODULE Sessions ------------------------------
(***************************************************************************)
(* Login sessions (internal/server/server.go, internal/store/store.go).    *)
(*                                                                         *)
(* A session is kept twice: in the process's map, which answers most       *)
(* requests, and in the database, so that a restart of the panel does not  *)
(* log everybody out.  Each is changed under its own lock, so every        *)
(* operation is a step on the map followed by a step on the database, and  *)
(* requests interleave between them.  A lookup that misses the map reads   *)
(* the database and copies what it finds into the map in a third step.     *)
(* The refinement says that the two copies together behave as the one      *)
(* table of SessionTable.                                                  *)
(*                                                                         *)
(* Time is counted in whole seconds, as the database does.  A session just *)
(* opened expires at a fraction of a second in the map and on the second   *)
(* in the database, so the map may honour it one tick longer.              *)
(***************************************************************************)
EXTENDS Integers

CONSTANTS
    Tokens, Threads,
    Agents,             \* digests of the clients' User-Agent
    Blank,              \* the digest of a request without User-Agent
    TTL,                \* sessionTTL, in ticks
    MaxNow,             \* last instant of the model
    MaxRestarts,
    Scenarios

EnvEvents ==
    { "logout",
      "revoke",         \* the admin ends all other sessions (handleRevokeOtherSessions)
      "change",         \* a change of the password or a disabled second factor does
      "saveFail",       \* SaveSession fails; create ignores it
      "deleteFail",     \* a deletion fails; all but handleRevokeOtherSessions ignore it
      "restart",        \* the panel dies and is started again
      "overlap" }       \* a removal may overlap a lookup of the same session

ASSUME ScenariosAssumption == Scenarios \subseteq SUBSET EnvEvents
ASSUME TimesAssumption == TTL \in Nat \ {0} /\ MaxNow \in Nat /\ MaxRestarts \in Nat
ASSUME BlankAssumption == Blank \notin Agents

Clients == Agents \union {Blank}

VARIABLES
    env,        \* what the environment may do, never changed
    now,
    mem,        \* sessionStore.m: token -> client and last instant of validity
    db,         \* bucket sessions: token -> client and ExpiresAt
    pc,         \* what each request in progress does next
    opened,     \* ghost: the sessions whose token a client has received
    told,       \* ghost: the sessions an answered logout or revocation ended
    kept,       \* ghost: those it was answered for although their rows stayed
    restarts

vars == <<env, now, mem, db, pc, opened, told, kept, restarts>>

Idle == [at |-> "idle"]
At(r, where) == pc[r].at = where
Goto(r, rec) == pc' = [pc EXCEPT ![r] = rec]

Without(f, S) == [t \in DOMAIN f \ S |-> f[t]]
With(f, t, v) == [u \in DOMAIN f \union {t} |-> IF u = t THEN v ELSE f[u]]

-----------------------------------------------------------------------------
(* The mapping to the one table *)

LiveInMem(t) == t \in DOMAIN mem /\ now <= mem[t].till
LiveInDb(t) == t \in DOMAIN db /\ now < db[t].exp

\* What auth would accept if the client that opened the session asked now.
Valid == { t \in DOMAIN opened : LiveInMem(t) \/ LiveInDb(t) }

Table == INSTANCE SessionTable WITH valid <- Valid, used <- DOMAIN opened

-----------------------------------------------------------------------------
(* Turns: without "overlap" a request that ends a session and one that looks the same       *)
(* session up in the database are not in progress together.                                 *)

\* session.bound: a side without a digest is not restricted.
Bound(client, ua) == client = Blank \/ ua = Blank \/ client = ua

Looking(r) == IF pc[r].at \in {"read", "fill"} THEN {pc[r].token} ELSE {}

Removing(r) ==
    CASE pc[r].at = "unbind" -> {pc[r].token}
      [] pc[r].at = "read" /\ ~ Bound(opened[pc[r].token], pc[r].ua) -> {pc[r].token}
      [] pc[r].at = "logout" -> {pc[r].token}
      [] pc[r].at = "revoke" -> Tokens \ {pc[r].keep}
      [] OTHER -> {}

MayLook(t, ua) ==
    \/ "overlap" \in env
    \/ \A r \in Threads :
          /\ t \notin Removing(r)
          /\ t \in Looking(r) => Bound(opened[t], ua)

MayRemove(S) == "overlap" \in env \/ \A r \in Threads : Looking(r) \intersect S = {}

-----------------------------------------------------------------------------
Init ==
    /\ env \in Scenarios
    /\ now = 0
    /\ mem = << >> /\ db = << >>
    /\ pc = [r \in Threads |-> Idle]
    /\ opened = << >> /\ told = {} /\ kept = {} /\ restarts = 0

\* Tokens are 32 random bytes: no two creations draw the same one.
Saving == { pc[r].token : r \in { x \in Threads : At(x, "save") } }
Drawn == DOMAIN opened \union DOMAIN mem \union Saving

\* startSession, create: into the map...
CreateMem(r, t, ua) ==
    /\ At(r, "idle")
    /\ t \notin Drawn
    /\ mem' = With(mem, t, [client |-> ua, till |-> now + TTL])
    /\ Goto(r, [at |-> "save", token |-> t, ua |-> ua, exp |-> now + TTL])
    /\ UNCHANGED <<env, now, db, opened, told, kept, restarts>>

\* ...into the database, and the cookie goes out whether that worked or not.
CreateSave(r) ==
    /\ At(r, "save")
    /\ \/ db' = With(db, pc[r].token, [client |-> pc[r].ua, exp |-> pc[r].exp])
       \/ "saveFail" \in env /\ UNCHANGED db
    /\ opened' = With(opened, pc[r].token, pc[r].ua)
    /\ Goto(r, Idle)
    /\ UNCHANGED <<env, now, mem, told, kept, restarts>>

\* What an authenticated request goes on with.
After(then, t) == IF then = "view" THEN Idle ELSE [at |-> "clear", keep |-> t, by |-> then]

Purposes == {"view"} \union ({"revoke", "change"} \intersect env)

\* auth, get: the map answers.
GetHit(r, t, ua, then) ==
    /\ At(r, "idle")
    /\ LiveInMem(t) /\ Bound(mem[t].client, ua)
    /\ Goto(r, After(then, t))
    /\ UNCHANGED <<env, now, mem, db, opened, told, kept, restarts>>

\* The map has nothing, or something it drops: an expired session or another client's.
GetMiss(r, t, ua, then) ==
    /\ At(r, "idle")
    /\ ~ (LiveInMem(t) /\ Bound(mem[t].client, ua))
    /\ MayLook(t, ua) /\ (Bound(opened[t], ua) \/ MayRemove({t}))
    /\ mem' = Without(mem, {t})
    /\ Goto(r, [at |-> "read", token |-> t, ua |-> ua, then |-> then])
    /\ UNCHANGED <<env, now, db, opened, told, kept, restarts>>

\* GetSession: the row, unless it is missing or expired.
GetRead(r) ==
    /\ At(r, "read")
    /\ LET t == pc[r].token
           ua == pc[r].ua
       IN  IF ~ LiveInDb(t) THEN Goto(r, Idle)
           ELSE Goto(r, IF Bound(db[t].client, ua)
                        THEN [at |-> "fill", token |-> t, row |-> db[t], then |-> pc[r].then]
                        ELSE [at |-> "unbind", token |-> t])
    /\ UNCHANGED <<env, now, mem, db, opened, told, kept, restarts>>

\* A transaction that deletes the rows of S; in the code most callers ignore its error.
Delete(S) == db' = Without(db, S) \/ ("deleteFail" \in env /\ UNCHANGED db)

\* A request that was to end the sessions S is answered with success.
Answered(S) ==
    /\ told' = told \union (S \ DOMAIN db')
    /\ kept' = kept \union (S \intersect DOMAIN db')

\* Another client's session is deleted and the request refused.
GetUnbind(r) ==
    /\ At(r, "unbind")
    /\ Delete({pc[r].token})
    /\ Goto(r, Idle)
    /\ UNCHANGED <<env, now, mem, opened, told, kept, restarts>>

\* Mutants of the definitions that follow them.
FilledAnew(row) == [client |-> row.client, till |-> now + TTL]
LogoutDbForgotten(r) ==
    /\ At(r, "logout")
    /\ told' = told \union {pc[r].token}
    /\ Goto(r, Idle)
    /\ UNCHANGED <<env, now, mem, db, opened, kept, restarts>>
PrunedLive == { t \in DOMAIN db : db[t].exp > now }

\* The copy expires on the second: it is not honoured in the second of ExpiresAt.
Filled(row) == [client |-> row.client, till |-> row.exp - 1]

GetFill(r) ==
    /\ At(r, "fill")
    /\ mem' = With(mem, pc[r].token, Filled(pc[r].row))
    /\ Goto(r, After(pc[r].then, pc[r].token))
    /\ UNCHANGED <<env, now, db, opened, told, kept, restarts>>

\* handleLogout, remove: the session of the cookie, looked up or not.
LogoutMem(r, t) ==
    /\ "logout" \in env
    /\ At(r, "idle")
    /\ MayRemove({t})
    /\ mem' = Without(mem, {t})
    /\ Goto(r, [at |-> "logout", token |-> t])
    /\ UNCHANGED <<env, now, db, opened, told, kept, restarts>>

\* handleLogout answers ok whether the row could be deleted or not.
LogoutDb(r) ==
    /\ At(r, "logout")
    /\ Delete({pc[r].token})
    /\ Answered({pc[r].token})
    /\ Goto(r, Idle)
    /\ UNCHANGED <<env, now, mem, opened, restarts>>

\* removeOthers; `others` is what the requester may expect to be over.
RevokeMem(r) ==
    /\ At(r, "clear")
    /\ LET keep == pc[r].keep
       IN  /\ MayRemove(Tokens \ {keep})
           /\ mem' = Without(mem, Tokens \ {keep})
           /\ Goto(r, [at |-> "revoke", keep |-> keep, others |-> DOMAIN opened \ {keep},
                       by |-> pc[r].by])
    /\ UNCHANGED <<env, now, db, opened, told, kept, restarts>>

\* DeleteOtherSessions, one transaction.  When it fails handleRevokeOtherSessions answers with
\* an error, revokeOtherSessions ignores it.
RevokeDb(r) ==
    /\ At(r, "revoke")
    /\ \/ db' = Without(db, Tokens \ {pc[r].keep}) /\ Answered(pc[r].others)
       \/ /\ "deleteFail" \in env /\ UNCHANGED db
          /\ IF pc[r].by = "change" THEN Answered(pc[r].others) ELSE UNCHANGED <<told, kept>>
    /\ Goto(r, Idle)
    /\ UNCHANGED <<env, now, mem, opened, restarts>>

Expired == { t \in DOMAIN mem : now > mem[t].till }

\* The ten minute sweep of newSessionStore; each row is deleted in a transaction of its own.
Sweep ==
    /\ Expired # {}
    /\ mem' = Without(mem, Expired)
    /\ \E S \in SUBSET Expired :
          db' = Without(db, S) /\ (S = Expired \/ "deleteFail" \in env)
    /\ UNCHANGED <<env, now, pc, opened, told, kept, restarts>>

\* PruneSessions.
Pruned == { t \in DOMAIN db : db[t].exp < now }

\* The process dies with its map and its requests; newSessionStore starts from the database.
Restart ==
    /\ "restart" \in env /\ restarts < MaxRestarts
    /\ restarts' = restarts + 1
    /\ mem' = << >>
    /\ Delete(Pruned)
    /\ pc' = [r \in Threads |-> Idle]
    /\ UNCHANGED <<env, now, opened, told, kept>>

Tick ==
    /\ now < MaxNow
    /\ now' = now + 1
    /\ UNCHANGED <<env, mem, db, pc, opened, told, kept, restarts>>

Requests(r) ==
    \/ \E t \in Tokens, ua \in Clients : CreateMem(r, t, ua)
    \/ CreateSave(r)
    \/ \E t \in DOMAIN opened, ua \in Clients, then \in Purposes :
          GetHit(r, t, ua, then) \/ GetMiss(r, t, ua, then)
    \/ GetRead(r) \/ GetUnbind(r) \/ GetFill(r)
    \/ \E t \in DOMAIN opened : LogoutMem(r, t)
    \/ LogoutDb(r) \/ RevokeMem(r) \/ RevokeDb(r)

Next == (\E r \in Threads : Requests(r)) \/ Sweep \/ Restart \/ Tick

Spec == Init /\ [][Next]_vars

-----------------------------------------------------------------------------
Stages == {"idle", "save", "read", "fill", "unbind", "logout", "clear", "revoke"}

\* A copy in the map never outlives the row it was made with by more than the fraction of a
\* second the database drops, and every row is of a session some request has opened.
TypeOK ==
    /\ now \in 0..MaxNow /\ restarts \in 0..MaxRestarts
    /\ told \union kept \subseteq DOMAIN opened /\ DOMAIN opened \subseteq Tokens
    /\ DOMAIN db \subseteq DOMAIN opened /\ DOMAIN mem \subseteq DOMAIN opened \union Saving
    /\ \A r \in Threads : pc[r].at \in Stages
    /\ \A t \in DOMAIN db : db[t].client \in Clients /\ db[t].exp \in TTL..(MaxNow + TTL)
    /\ \A t \in DOMAIN mem : mem[t].client \in Clients /\ mem[t].till \in 0..(MaxNow + TTL)
    /\ \A t \in DOMAIN mem \intersect DOMAIN db : mem[t].till - db[t].exp \in {-1, 0}

\* The map and the database together are one table of sessions (SessionTable): every token
\* is opened once, no session comes back after it ended - by expiry, by a restart that lost
\* it, by another client's use, by logout or revocation - and an answered logout or
\* revocation has ended what it names, wherever the row could be deleted (told).
OneTable == Table!Spec

\* The promise alone: what logout (server.go, handleLogout) and revocation
\* (revokeOtherSessions, handleRevokeOtherSessions) have answered for stays out, whether the
\* row could be deleted or not.
RevokedStayOut == (told \union kept) \intersect Valid = {}

\* Why this step may end session t: its time is up, a request ends it or another client has
\* shown it, or the process dies before the database held it or after it expired there.
Reason(t) ==
    \/ now' # now /\ (LiveInMem(t) => now' > mem[t].till)
                  /\ (LiveInDb(t) => now' >= db[t].exp)
    \/ \E r \in Threads : pc'[r] # pc[r] /\
          \/ At(r, "clear") /\ pc[r].keep # t
          \/ t \in Removing(r)
          \/ pc'[r].at = "logout" /\ pc'[r].token = t
          \/ pc'[r].at = "read" /\ pc'[r].token = t /\ ~ Bound(opened[t], pc'[r].ua)
    \/ restarts' # restarts /\ ~ LiveInDb(t)

\* A session ends only for one of those reasons; in particular a restart ends none that the
\* database holds unexpired, the sweep none at all, and a revocation never the session that asked.
EndsForAReason == [][ \A t \in Valid \ Valid' : Reason(t) ]_vars
=============================================================================

--------------------------- MODULE SessionsProofs ---------------------------
(***************************************************************************)
(* Sessions implements SessionTable as long as no removal of a session     *)
(* overlaps a lookup of the same session in the database.                  *)
(*                                                                         *)
(* A step of SessionTable may end any sessions at any time, so what has to *)
(* be shown of a step of Sessions is that it makes no session valid but    *)
(* one that is being opened, and that what it answers for is over.  The    *)
(* invariant says why: a row in the hands of a lookup is the row of the    *)
(* database, and what a removal has taken from the map stays out of it.    *)
(***************************************************************************)
EXTENDS Sessions, TLAPS

-----------------------------------------------------------------------------
(* The invariant *)

\* The session a request has put into the map is what it is going to save.
SaveOK(r) ==
    At(r, "save") =>
        /\ pc[r].token \in Tokens /\ pc[r].token \notin DOMAIN opened
        /\ pc[r].ua \in Clients /\ pc[r].exp \in TTL..(MaxNow + TTL)
        /\ pc[r].token \in DOMAIN mem =>
              mem[pc[r].token].client = pc[r].ua /\ mem[pc[r].token].till = pc[r].exp

\* The row a lookup has read is the row of the database, where it is until it expires.
FillOK(r) ==
    At(r, "fill") =>
        /\ pc[r].row.client \in Clients /\ pc[r].row.exp \in TTL..(MaxNow + TTL)
        /\ pc[r].row.client = opened[pc[r].token]
        /\ pc[r].token \in DOMAIN db => db[pc[r].token] = pc[r].row
        /\ now < pc[r].row.exp => pc[r].token \in DOMAIN db

\* A copy that is in the map during a lookup was filled in by another one: it does not last
\* longer than the copy this lookup is going to make.
CopyOK(r) ==
    /\ At(r, "read") /\ pc[r].token \in DOMAIN mem /\ pc[r].token \in DOMAIN db =>
          mem[pc[r].token].till = db[pc[r].token].exp - 1
    /\ At(r, "fill") /\ pc[r].token \in DOMAIN mem =>
          mem[pc[r].token].till = pc[r].row.exp - 1

\* What a logout or a revocation has taken from the map stays out of it.
RemoveOK(r) ==
    /\ At(r, "logout") => pc[r].token \in DOMAIN opened /\ pc[r].token \notin DOMAIN mem
    /\ At(r, "revoke") => \A t \in pc[r].others :
          t \in DOMAIN opened /\ t # pc[r].keep /\ t \notin DOMAIN mem

RequestOK(r) ==
    /\ pc[r].at \in Stages
    /\ pc[r].at \in {"read", "fill"} => pc[r].token \in DOMAIN opened
    /\ SaveOK(r) /\ FillOK(r) /\ CopyOK(r) /\ RemoveOK(r)

\* Two requests at once: tokens are drawn once, lookups of one session have read the same
\* row, and turns are kept.
PairOK(r, q) ==
    /\ At(r, "save") /\ At(q, "save") => pc[r].token # pc[q].token
    /\ At(r, "fill") /\ At(q, "fill") /\ pc[r].token = pc[q].token => pc[r].row = pc[q].row
    /\ \A t \in Looking(r) : t \notin Removing(q)

TablesOK ==
    /\ now \in 0..MaxNow /\ restarts \in 0..MaxRestarts
    /\ told \union kept \subseteq DOMAIN opened /\ DOMAIN opened \subseteq Tokens
    /\ DOMAIN mem \subseteq DOMAIN opened \union Saving
    /\ \A t \in DOMAIN db :
          /\ t \in DOMAIN opened /\ db[t].client = opened[t]
          /\ db[t].client \in Clients /\ db[t].exp \in TTL..(MaxNow + TTL)
    /\ \A t \in DOMAIN mem :
          /\ mem[t].client \in Clients /\ mem[t].till \in 0..(MaxNow + TTL)
          /\ t \in DOMAIN opened => mem[t].client = opened[t]
    /\ \A t \in DOMAIN mem : t \in DOMAIN db => mem[t].till - db[t].exp \in {-1, 0}

PcFunction == pc = [r \in Threads |-> pc[r]]

IInv ==
    /\ "overlap" \notin env
    /\ PcFunction
    /\ TablesOK
    /\ \A r \in Threads : RequestOK(r)
    /\ \A r, q \in Threads : r # q => PairOK(r, q)

-----------------------------------------------------------------------------
(* What a request does to the program counters *)

LEMMA GotoFacts ==
  ASSUME PcFunction, NEW r \in Threads, NEW rec, Goto(r, rec)
  PROVE  /\ PcFunction'
         /\ pc'[r] = rec
         /\ \A q \in Threads : q # r => pc'[q] = pc[q]
  BY DEF PcFunction, Goto

-----------------------------------------------------------------------------
LEMMA InitInv == ASSUME \A s \in Scenarios : "overlap" \notin s PROVE Init => IInv
<1> SUFFICES ASSUME Init PROVE IInv
  OBVIOUS
<1>1. "overlap" \notin env /\ PcFunction
  BY DEF Init, PcFunction
<1>2. DOMAIN mem = {} /\ DOMAIN db = {} /\ DOMAIN opened = {}
  BY DEF Init
<1>3. TablesOK
  BY <1>2, TimesAssumption DEF Init, TablesOK
<1>4. \A r \in Threads : pc[r].at = "idle"
  BY DEF Init, Idle
<1>5. \A r \in Threads : RequestOK(r)
  BY <1>4 DEF RequestOK, SaveOK, FillOK, CopyOK, RemoveOK, At, Stages
<1>6. \A r, q \in Threads : PairOK(r, q)
  BY <1>4 DEF PairOK, At, Looking
<1> QED
  BY <1>1, <1>3, <1>5, <1>6 DEF IInv

-----------------------------------------------------------------------------
(* Opening a session *)

LEMMA CreateMemInv ==
  ASSUME IInv, NEW r \in Threads, NEW t \in Tokens, NEW ua \in Clients, CreateMem(r, t, ua)
  PROVE  IInv'
<1> DEFINE rec == [at |-> "save", token |-> t, ua |-> ua, exp |-> now + TTL]
           row == [client |-> ua, till |-> now + TTL]
<1>1. PcFunction' /\ pc'[r] = rec /\ \A q \in Threads : q # r => pc'[q] = pc[q]
  BY GotoFacts DEF IInv, CreateMem
<1>2. /\ DOMAIN mem' = DOMAIN mem \union {t} /\ mem'[t] = row
      /\ \A u \in DOMAIN mem : u # t => mem'[u] = mem[u]
  <2>1. mem' = With(mem, t, row)
    BY DEF CreateMem
  <2> QED
    BY <2>1 DEF With
<1>3. UNCHANGED <<env, now, db, opened, told, kept, restarts>>
  BY DEF CreateMem
<1>4. t \notin DOMAIN opened /\ t \notin DOMAIN mem /\ t \notin Saving
  BY DEF CreateMem, Drawn
<1>5. Saving' = Saving \union {t}
  BY <1>1, <1>3 DEF Saving, At, CreateMem
<1>6. TablesOK'
  BY <1>2, <1>3, <1>4, <1>5, TimesAssumption DEF IInv, TablesOK
<1>7. ASSUME NEW q \in Threads PROVE RequestOK(q)'
  <2>1. CASE q = r
    BY <1>1, <1>2, <1>3, <1>4, <2>1, TimesAssumption
    DEF IInv, TablesOK, RequestOK, SaveOK, FillOK, CopyOK, RemoveOK, At, Stages
  <2>2. CASE q # r
    <3>1. RequestOK(q) /\ pc'[q] = pc[q]
      BY <1>1, <2>2 DEF IInv
    <3>2. At(q, "save") => pc[q].token # t
      BY <1>4 DEF Saving
    <3> QED
      BY <1>2, <1>3, <1>4, <3>1, <3>2 DEF RequestOK, SaveOK, FillOK, CopyOK, RemoveOK, At
  <2> QED
    BY <2>1, <2>2
<1>8. ASSUME NEW q \in Threads, NEW p \in Threads, q # p PROVE PairOK(q, p)'
  <2>1. PairOK(q, p)
    BY <1>8 DEF IInv
  <2>2. \A x \in Threads : At(x, "save") => pc[x].token # t
    BY <1>4 DEF Saving
  <2> QED
    BY <1>1, <1>3, <1>8, <2>1, <2>2 DEF PairOK, At, Looking, Removing
<1> QED
  BY <1>1, <1>3, <1>6, <1>7, <1>8 DEF IInv

-----------------------------------------------------------------------------
(* Steps that only take sessions out of the tables *)

Part(f, g) == DOMAIN f \subseteq DOMAIN g /\ \A u \in DOMAIN f : f[u] = g[u]

LEMMA PartFacts ==
  ASSUME NEW g
  PROVE  Part(g, g) /\ \A S : Part(Without(g, S), g) /\ DOMAIN Without(g, S) = DOMAIN g \ S
  BY DEF Part, Without

LEMMA RemovalInv ==
  ASSUME IInv, NEW r \in Threads,
         UNCHANGED <<env, now, opened, restarts>>, (told \union kept)' \subseteq DOMAIN opened,
         Part(mem', mem), Part(db', db),
         PcFunction', \A q \in Threads : q # r => pc'[q] = pc[q],
         ~ At(r, "save"), pc'[r].at # "save", RequestOK(r)',
         \A q \in Threads : q # r =>
            /\ Looking(q) \intersect Removing(r)' = {}
            /\ Looking(r)' \intersect Removing(q) = {}
            /\ \A t \in Looking(q) : t \in DOMAIN db => t \in DOMAIN db'
            /\ pc'[r].at = "fill" /\ At(q, "fill") /\ pc'[r].token = pc[q].token =>
                  pc'[r].row = pc[q].row
  PROVE  IInv'
<1>1. Saving' = Saving
  BY DEF Saving, At
<1>2. TablesOK'
  BY <1>1 DEF IInv, TablesOK, Part
<1>3. ASSUME NEW q \in Threads, q # r PROVE RequestOK(q)'
  <2>1. RequestOK(q) /\ pc'[q] = pc[q]
    BY <1>3 DEF IInv
  <2>2. At(q, "fill") /\ pc[q].token \in DOMAIN db => pc[q].token \in DOMAIN db'
    BY <1>3 DEF Looking, At
  <2> QED
    BY <2>1, <2>2 DEF RequestOK, SaveOK, FillOK, CopyOK, RemoveOK, At, Part
<1>4. ASSUME NEW p \in Threads, NEW q \in Threads, p # q PROVE PairOK(p, q)'
  <2>1. PairOK(p, q)
    BY <1>4 DEF IInv
  <2>2. CASE p = r
    <3>1. Removing(q)' = Removing(q) /\ pc'[p].at # "save" /\ pc'[q] = pc[q]
      BY <1>4, <2>2 DEF Removing
    <3> QED
      BY <1>4, <2>2, <3>1 DEF PairOK, At
  <2>3. CASE q = r
    <3>1. Looking(p)' = Looking(p) /\ pc'[q].at # "save" /\ pc'[p] = pc[p]
      BY <1>4, <2>3 DEF Looking
    <3> QED
      BY <1>4, <2>3, <3>1 DEF PairOK, At
  <2>4. CASE p # r /\ q # r
    <3>1. /\ Looking(p)' = Looking(p) /\ Removing(q)' = Removing(q)
          /\ pc'[p] = pc[p] /\ pc'[q] = pc[q]
      BY <2>4 DEF Looking, Removing
    <3> QED
      BY <2>1, <3>1 DEF PairOK, At
  <2> QED
    BY <2>2, <2>3, <2>4
<1> QED
  BY <1>2, <1>3, <1>4 DEF IInv

\* The turns a request waits for (MayLook, MayRemove).
LEMMA LookTurn ==
  ASSUME IInv, NEW t, NEW ua, MayLook(t, ua)
  PROVE  \A q \in Threads : t \notin Removing(q)
  BY DEF MayLook, IInv

LEMMA RemoveTurn ==
  ASSUME IInv, NEW S, MayRemove(S)
  PROVE  \A q \in Threads : Looking(q) \intersect S = {}
  BY DEF MayRemove, IInv

\* What one request is removing no other is looking up.
LEMMA Turns ==
  ASSUME IInv, NEW r \in Threads, NEW q \in Threads, q # r
  PROVE  /\ Looking(q) \intersect Removing(r) = {}
         /\ Looking(r) \intersect Removing(q) = {}
  BY DEF IInv, PairOK

LEMMA GetHitInv ==
  ASSUME IInv, NEW r \in Threads, NEW t \in DOMAIN opened, NEW ua \in Clients,
         NEW then \in Purposes, GetHit(r, t, ua, then)
  PROVE  IInv'
<1>1. PcFunction' /\ pc'[r] = After(then, t) /\ \A q \in Threads : q # r => pc'[q] = pc[q]
  BY GotoFacts DEF IInv, GetHit
<1>2. UNCHANGED <<env, now, mem, db, opened, told, kept, restarts>> /\ ~ At(r, "save")
  BY DEF GetHit, At
<1>3. pc'[r].at \in {"idle", "clear"}
  BY <1>1 DEF After, Idle
<1>4. RequestOK(r)' /\ pc'[r].at \notin {"save", "fill"} /\ Looking(r)' = {} /\ Removing(r)' = {}
  BY <1>3 DEF RequestOK, SaveOK, FillOK, CopyOK, RemoveOK, At, Stages, Looking, Removing
<1>5. Part(mem', mem) /\ Part(db', db) /\ (told \union kept)' \subseteq DOMAIN opened
  BY <1>2, PartFacts DEF IInv, TablesOK
<1> QED
  BY <1>1, <1>2, <1>4, <1>5, RemovalInv

LEMMA GetMissInv ==
  ASSUME IInv, NEW r \in Threads, NEW t \in DOMAIN opened, NEW ua \in Clients,
         NEW then \in Purposes, GetMiss(r, t, ua, then)
  PROVE  IInv'
<1> DEFINE rec == [at |-> "read", token |-> t, ua |-> ua, then |-> then]
<1>1. PcFunction' /\ pc'[r] = rec /\ \A q \in Threads : q # r => pc'[q] = pc[q]
  BY GotoFacts DEF IInv, GetMiss
<1>2. /\ UNCHANGED <<env, now, db, opened, told, kept, restarts>> /\ ~ At(r, "save")
      /\ MayLook(t, ua) /\ (Bound(opened[t], ua) \/ MayRemove({t}))
      /\ mem' = Without(mem, {t})
  BY DEF GetMiss, At
<1>3. RequestOK(r)' /\ pc'[r].at \notin {"save", "fill"}
  BY <1>1, <1>2 DEF Without, RequestOK, SaveOK, FillOK, CopyOK, RemoveOK, At, Stages
<1>4. Looking(r)' = {t}
  BY <1>1 DEF Looking
<1>5. Removing(r)' = IF Bound(opened[t], ua) THEN {} ELSE {t}
  BY <1>1, <1>2 DEF Removing
<1>6. ASSUME NEW q \in Threads, q # r
      PROVE  Looking(q) \intersect Removing(r)' = {} /\ Looking(r)' \intersect Removing(q) = {}
  BY <1>2, <1>4, <1>5, LookTurn, RemoveTurn
<1>7. Part(mem', mem) /\ Part(db', db) /\ (told \union kept)' \subseteq DOMAIN opened
  BY <1>2, PartFacts DEF IInv, TablesOK
<1> QED
  BY <1>1, <1>2, <1>3, <1>6, <1>7, RemovalInv

LEMMA GetReadInv ==
  ASSUME IInv, NEW r \in Threads, GetRead(r)
  PROVE  IInv'
<1> DEFINE t == pc[r].token
           filling == [at |-> "fill", token |-> t, row |-> db[t], then |-> pc[r].then]
           unbinding == [at |-> "unbind", token |-> t]
<1>1. UNCHANGED <<env, now, mem, db, opened, told, kept, restarts>> /\ At(r, "read")
  BY DEF GetRead
<1>2. PICK rec : /\ Goto(r, rec)
                 /\ \/ rec = Idle
                    \/ LiveInDb(t) /\ rec = filling
                    \/ LiveInDb(t) /\ ~ Bound(db[t].client, pc[r].ua) /\ rec = unbinding
  BY DEF GetRead
<1>3. PcFunction' /\ pc'[r] = rec /\ \A q \in Threads : q # r => pc'[q] = pc[q]
  BY <1>2, GotoFacts DEF IInv
<1>4. t \in DOMAIN opened /\ Looking(r) = {t}
  BY <1>1 DEF IInv, RequestOK, Looking, At
<1>5. pc'[r].at # "save" /\ Looking(r)' \subseteq Looking(r)
  BY <1>2, <1>3, <1>4 DEF Looking, Idle
<1>6. Removing(r)' \subseteq Removing(r)
  <2>1. CASE rec = unbinding /\ ~ Bound(db[t].client, pc[r].ua) /\ LiveInDb(t)
    <3>1. db[t].client = opened[t]
      BY <2>1 DEF LiveInDb, IInv, TablesOK
    <3> QED
      BY <1>1, <1>3, <2>1, <3>1 DEF Removing, At
  <2>2. CASE rec = Idle \/ rec = filling
    BY <1>3, <2>2 DEF Removing, Idle
  <2> QED
    BY <1>2, <2>1, <2>2
<1>7. RequestOK(r)'
  <2>1. CASE rec = filling /\ LiveInDb(t)
    BY <1>1, <1>3, <1>4, <2>1
    DEF IInv, TablesOK, RequestOK, SaveOK, FillOK, CopyOK, RemoveOK, At, Stages, LiveInDb
  <2>2. CASE rec = Idle \/ rec = unbinding
    BY <1>3, <1>4, <2>2 DEF RequestOK, SaveOK, FillOK, CopyOK, RemoveOK, At, Stages, Idle
  <2> QED
    BY <1>2, <2>1, <2>2
<1>8. ASSUME NEW q \in Threads, q # r
      PROVE  /\ Looking(q) \intersect Removing(r)' = {} /\ Looking(r)' \intersect Removing(q) = {}
             /\ pc'[r].at = "fill" /\ At(q, "fill") /\ pc'[r].token = pc[q].token =>
                   pc'[r].row = pc[q].row
  <2>1. Looking(q) \intersect Removing(r)' = {} /\ Looking(r)' \intersect Removing(q) = {}
    BY <1>5, <1>6, <1>8, Turns
  <2>2. ASSUME pc'[r].at = "fill", At(q, "fill"), pc'[r].token = pc[q].token
        PROVE  pc'[r].row = pc[q].row
    <3>1. pc'[r].token = t /\ pc'[r].row = db[t] /\ t \in DOMAIN db
      BY <1>2, <1>3, <2>2 DEF Idle, LiveInDb
    <3> QED
      BY <2>2, <3>1 DEF IInv, RequestOK, FillOK
  <2> QED
    BY <2>1, <2>2
<1>9. Part(mem', mem) /\ Part(db', db) /\ (told \union kept)' \subseteq DOMAIN opened /\ ~ At(r, "save")
  BY <1>1, PartFacts DEF IInv, TablesOK, At
<1> QED
  BY <1>1, <1>3, <1>5, <1>7, <1>8, <1>9, RemovalInv

-----------------------------------------------------------------------------
(* Removals: the map first, then the database *)

LEMMA IdleFacts ==
  ASSUME NEW r \in Threads, pc'[r] = Idle
  PROVE  RequestOK(r)' /\ pc'[r].at \notin {"save", "fill"} /\ Looking(r)' = {} /\ Removing(r)' = {}
  BY DEF RequestOK, SaveOK, FillOK, CopyOK, RemoveOK, At, Stages, Looking, Removing, Idle

LEMMA DeleteFacts ==
  ASSUME NEW S, Delete(S)
  PROVE  Part(db', db)
  BY DEF Delete, Part, Without

\* A row that a removal takes from the database is in the hands of no other lookup.
LEMMA RowsKept ==
  ASSUME IInv, NEW r \in Threads, NEW S, Delete(S), S \subseteq Removing(r)
  PROVE  \A q \in Threads : q # r => \A t \in Looking(q) : t \in DOMAIN db => t \in DOMAIN db'
  BY Turns, PartFacts DEF Delete

LEMMA GetUnbindInv ==
  ASSUME IInv, NEW r \in Threads, GetUnbind(r)
  PROVE  IInv'
<1>1. PcFunction' /\ pc'[r] = Idle /\ \A q \in Threads : q # r => pc'[q] = pc[q]
  BY GotoFacts DEF IInv, GetUnbind
<1>2. /\ UNCHANGED <<env, now, mem, opened, told, kept, restarts>> /\ ~ At(r, "save")
      /\ Delete({pc[r].token}) /\ Removing(r) = {pc[r].token}
  BY DEF GetUnbind, At, Removing
<1>3. Part(mem', mem) /\ Part(db', db) /\ (told \union kept)' \subseteq DOMAIN opened
  BY <1>2, PartFacts, DeleteFacts DEF IInv, TablesOK
<1> QED
  BY <1>1, <1>2, <1>3, IdleFacts, RowsKept, RemovalInv

LEMMA LogoutMemInv ==
  ASSUME IInv, NEW r \in Threads, NEW t \in DOMAIN opened, LogoutMem(r, t)
  PROVE  IInv'
<1> DEFINE rec == [at |-> "logout", token |-> t]
<1>1. PcFunction' /\ pc'[r] = rec /\ \A q \in Threads : q # r => pc'[q] = pc[q]
  BY GotoFacts DEF IInv, LogoutMem
<1>2. /\ UNCHANGED <<env, now, db, opened, told, kept, restarts>> /\ ~ At(r, "save")
      /\ MayRemove({t}) /\ mem' = Without(mem, {t})
  BY DEF LogoutMem, At
<1>3. Part(mem', mem) /\ Part(db', db) /\ (told \union kept)' \subseteq DOMAIN opened /\ t \notin DOMAIN mem'
  BY <1>2 DEF Part, Without, IInv, TablesOK
<1>4. /\ RequestOK(r)' /\ pc'[r].at \notin {"save", "fill"}
      /\ Looking(r)' = {} /\ Removing(r)' = {t}
  BY <1>1, <1>2, <1>3 DEF RequestOK, SaveOK, FillOK, CopyOK, RemoveOK, At, Stages, Looking, Removing
<1>5. \A q \in Threads : Looking(q) \intersect {t} = {}
  BY <1>2, RemoveTurn
<1> QED
  BY <1>1, <1>2, <1>3, <1>4, <1>5, RemovalInv

LEMMA LogoutDbInv ==
  ASSUME IInv, NEW r \in Threads, LogoutDb(r)
  PROVE  IInv'
<1>1. PcFunction' /\ pc'[r] = Idle /\ \A q \in Threads : q # r => pc'[q] = pc[q]
  BY GotoFacts DEF IInv, LogoutDb
<1>2. /\ UNCHANGED <<env, now, mem, opened, restarts>> /\ ~ At(r, "save") /\ At(r, "logout")
      /\ Delete({pc[r].token}) /\ Answered({pc[r].token})
      /\ Removing(r) = {pc[r].token}
  BY DEF LogoutDb, At, Removing
<1>3. pc[r].token \in DOMAIN opened
  BY <1>2 DEF IInv, RequestOK, RemoveOK
<1>4. Part(mem', mem) /\ Part(db', db) /\ (told \union kept)' \subseteq DOMAIN opened
  BY <1>2, <1>3, PartFacts, DeleteFacts DEF IInv, TablesOK, Answered
<1> QED
  BY <1>1, <1>2, <1>4, IdleFacts, RowsKept, RemovalInv

LEMMA RevokeMemInv ==
  ASSUME IInv, NEW r \in Threads, RevokeMem(r)
  PROVE  IInv'
<1> DEFINE keep == pc[r].keep
           rec == [at |-> "revoke", keep |-> keep, others |-> DOMAIN opened \ {keep}, by |-> pc[r].by]
<1>1. PcFunction' /\ pc'[r] = rec /\ \A q \in Threads : q # r => pc'[q] = pc[q]
  BY GotoFacts DEF IInv, RevokeMem
<1>2. /\ UNCHANGED <<env, now, db, opened, told, kept, restarts>> /\ ~ At(r, "save")
      /\ MayRemove(Tokens \ {keep}) /\ mem' = Without(mem, Tokens \ {keep})
  BY DEF RevokeMem, At
<1>3. /\ Part(mem', mem) /\ Part(db', db) /\ (told \union kept)' \subseteq DOMAIN opened
      /\ DOMAIN mem' = DOMAIN mem \ (Tokens \ {keep}) /\ DOMAIN opened \subseteq Tokens
  BY <1>2, PartFacts DEF IInv, TablesOK
<1>4. RequestOK(r)' /\ pc'[r].at \notin {"save", "fill"}
  BY <1>1, <1>2, <1>3 DEF RequestOK, SaveOK, FillOK, CopyOK, RemoveOK, At, Stages
<1>5. Looking(r)' = {} /\ Removing(r)' = Tokens \ {keep}
  BY <1>1 DEF Looking, Removing
<1>6. \A q \in Threads : Looking(q) \intersect (Tokens \ {keep}) = {}
  BY <1>2, RemoveTurn
<1> QED
  BY <1>1, <1>2, <1>3, <1>4, <1>5, <1>6, RemovalInv

LEMMA RevokeDbInv ==
  ASSUME IInv, NEW r \in Threads, RevokeDb(r)
  PROVE  IInv'
<1>1. PcFunction' /\ pc'[r] = Idle /\ \A q \in Threads : q # r => pc'[q] = pc[q]
  BY GotoFacts DEF IInv, RevokeDb
<1>2. /\ UNCHANGED <<env, now, mem, opened, restarts>> /\ ~ At(r, "save") /\ At(r, "revoke")
      /\ Delete(Tokens \ {pc[r].keep}) /\ (Answered(pc[r].others) \/ UNCHANGED <<told, kept>>)
      /\ Removing(r) = Tokens \ {pc[r].keep}
  BY DEF RevokeDb, Delete, At, Removing
<1>3. pc[r].others \subseteq DOMAIN opened
  BY <1>2 DEF IInv, RequestOK, RemoveOK
<1>4. Part(mem', mem) /\ Part(db', db) /\ (told \union kept)' \subseteq DOMAIN opened
  BY <1>2, <1>3, PartFacts, DeleteFacts DEF IInv, TablesOK, Answered
<1>5. \A q \in Threads : q # r => \A t \in Looking(q) : t \in DOMAIN db => t \in DOMAIN db'
  BY <1>2, RowsKept
<1> QED
  BY <1>1, <1>2, <1>4, <1>5, IdleFacts, RemovalInv

-----------------------------------------------------------------------------
(* The steps that put a session into a table *)

LEMMA CreateSaveInv ==
  ASSUME IInv, NEW r \in Threads, CreateSave(r)
  PROVE  IInv'
<1> DEFINE t == pc[r].token
           row == [client |-> pc[r].ua, exp |-> pc[r].exp]
<1>1. PcFunction' /\ pc'[r] = Idle /\ \A q \in Threads : q # r => pc'[q] = pc[q]
  BY GotoFacts DEF IInv, CreateSave
<1>2. UNCHANGED <<env, now, mem, told, kept, restarts>> /\ At(r, "save")
  BY DEF CreateSave
<1>3. /\ DOMAIN opened' = DOMAIN opened \union {t} /\ opened'[t] = pc[r].ua
      /\ \A u \in DOMAIN opened : u # t => opened'[u] = opened[u]
  BY DEF CreateSave, With
<1>4. \/ /\ DOMAIN db' = DOMAIN db \union {t} /\ db'[t] = row
         /\ \A u \in DOMAIN db : u # t => db'[u] = db[u]
      \/ db' = db
  BY DEF CreateSave, With
<1>5. t \in Tokens /\ t \notin DOMAIN opened /\ t \notin DOMAIN db
  BY <1>2 DEF IInv, RequestOK, SaveOK, TablesOK
<1>6. \A q \in Threads : q # r /\ At(q, "save") => pc[q].token # t
  BY <1>2 DEF IInv, PairOK
<1>7. Saving' = Saving \ {t}
  BY <1>1, <1>2, <1>6 DEF Saving, At, Idle
<1>8. TablesOK'
  <2>1. SaveOK(r)
    BY DEF IInv, RequestOK
  <2>2. TablesOK
    BY DEF IInv
  <2>3. DOMAIN mem' \subseteq DOMAIN opened' \union Saving'
    BY <1>2, <1>3, <1>7, <2>2 DEF TablesOK
  <2>4. now' \in 0..MaxNow /\ restarts' \in 0..MaxRestarts /\ (told \union kept)' \subseteq DOMAIN opened'
    BY <1>2, <1>3, <2>2 DEF TablesOK
  <2>5. DOMAIN opened' \subseteq Tokens
    BY <1>3, <1>5, <2>2 DEF TablesOK
  <2>6. \A u \in DOMAIN db' :
          /\ u \in DOMAIN opened' /\ db'[u].client = opened'[u]
          /\ db'[u].client \in Clients /\ db'[u].exp \in TTL..(MaxNow + TTL)
    BY <1>2, <1>3, <1>4, <1>5, <2>1, <2>2 DEF TablesOK, SaveOK
  <2>7. \A u \in DOMAIN mem' :
          /\ mem'[u].client \in Clients /\ mem'[u].till \in 0..(MaxNow + TTL)
          /\ u \in DOMAIN opened' => mem'[u].client = opened'[u]
    BY <1>2, <1>3, <2>1, <2>2 DEF TablesOK, SaveOK
  <2>8. \A u \in DOMAIN mem' : u \in DOMAIN db' => mem'[u].till - db'[u].exp \in {-1, 0}
    BY <1>2, <1>4, <1>5, <2>1, <2>2, TimesAssumption DEF TablesOK, SaveOK
  <2> QED
    BY <2>3, <2>4, <2>5, <2>6, <2>7, <2>8 DEF TablesOK
<1>9. ASSUME NEW q \in Threads PROVE RequestOK(q)'
  <2>1. CASE q = r
    BY <1>1, <2>1 DEF RequestOK, SaveOK, FillOK, CopyOK, RemoveOK, At, Stages, Idle
  <2>2. CASE q # r
    <3>1. RequestOK(q) /\ pc'[q] = pc[q] /\ (At(q, "save") => pc[q].token # t)
      BY <1>1, <1>6, <2>2 DEF IInv
    <3> QED
      BY <1>2, <1>3, <1>4, <1>5, <3>1 DEF RequestOK, SaveOK, FillOK, CopyOK, RemoveOK, At
  <2> QED
    BY <2>1, <2>2
<1>10. ASSUME NEW p \in Threads, NEW q \in Threads, p # q PROVE PairOK(p, q)'
  <2>1. PairOK(p, q) /\ RequestOK(q)
    BY <1>10 DEF IInv
  <2>2. CASE p = r \/ q = r
    BY <1>1, <2>2 DEF PairOK, At, Looking, Removing, Idle
  <2>3. CASE p # r /\ q # r
    <3>1. pc'[p] = pc[p] /\ pc'[q] = pc[q] /\ Looking(p)' = Looking(p)
      BY <1>1, <2>3 DEF Looking
    <3>2. Removing(q)' = Removing(q)
      BY <1>3, <1>5, <2>1, <3>1 DEF Removing, RequestOK
    <3> QED
      BY <2>1, <3>1, <3>2 DEF PairOK, At
  <2> QED
    BY <2>2, <2>3
<1> QED
  BY <1>1, <1>2, <1>8, <1>9, <1>10 DEF IInv

LEMMA GetFillInv ==
  ASSUME IInv, NEW r \in Threads, GetFill(r)
  PROVE  IInv'
<1> DEFINE t == pc[r].token
           row == pc[r].row
<1>1. PcFunction' /\ pc'[r] = After(pc[r].then, t) /\ \A q \in Threads : q # r => pc'[q] = pc[q]
  BY GotoFacts DEF IInv, GetFill
<1>2. UNCHANGED <<env, now, db, opened, told, kept, restarts>> /\ At(r, "fill")
  BY DEF GetFill
<1>3. /\ DOMAIN mem' = DOMAIN mem \union {t} /\ mem'[t] = Filled(row)
      /\ \A u \in DOMAIN mem : u # t => mem'[u] = mem[u]
  BY DEF GetFill, With
<1>4. /\ t \in DOMAIN opened /\ row.client \in Clients /\ row.exp \in TTL..(MaxNow + TTL)
      /\ row.client = opened[t]
      /\ t \in DOMAIN db => db[t] = row
  BY <1>2 DEF IInv, RequestOK, FillOK, At
<1>5. pc'[r].at \in {"idle", "clear"}
  BY <1>1 DEF After, Idle
<1>6. Saving' = Saving
  BY <1>1, <1>2, <1>5 DEF Saving, At
<1>7. TablesOK'
  <2>1. row.exp - 1 \in 0..(MaxNow + TTL)
    BY <1>4, TimesAssumption
  <2>2. t \in DOMAIN db' => mem'[t].till - db'[t].exp \in {-1, 0}
    BY <1>2, <1>3, <1>4, TimesAssumption DEF Filled
  <2> QED
    BY <1>2, <1>3, <1>4, <1>6, <2>1, <2>2 DEF IInv, TablesOK, Filled
<1>8. \A q \in Threads : q # r => t \notin Removing(q)
  BY <1>2, Turns DEF Looking, At
<1>9. ASSUME NEW q \in Threads PROVE RequestOK(q)'
  <2>1. CASE q = r
    BY <1>5, <2>1 DEF RequestOK, SaveOK, FillOK, CopyOK, RemoveOK, At, Stages
  <2>2. CASE q # r
    <3>1. RequestOK(q) /\ pc'[q] = pc[q]
      BY <1>1, <2>2 DEF IInv
    <3>2. At(q, "logout") => pc[q].token # t
      BY <1>8, <2>2 DEF Removing, At
    <3>3. At(q, "revoke") => pc[q].keep = t \/ t \notin Tokens
      BY <1>8, <2>2 DEF Removing, At
    <3>4. t \in Tokens
      BY <1>4 DEF IInv, TablesOK
    <3>5. CopyOK(q)'
      <4>1. At(q, "fill") /\ pc[q].token = t => pc[q].row = row
        BY <1>2, <2>2 DEF IInv, PairOK
      <4> QED
        BY <1>2, <1>3, <1>4, <3>1, <4>1 DEF RequestOK, CopyOK, Filled, At
    <3> QED
      BY <1>2, <1>3, <1>4, <3>1, <3>2, <3>3, <3>4, <3>5
      DEF RequestOK, SaveOK, FillOK, RemoveOK, At
  <2> QED
    BY <2>1, <2>2
<1>10. ASSUME NEW p \in Threads, NEW q \in Threads, p # q PROVE PairOK(p, q)'
  <2>1. PairOK(p, q)
    BY <1>10 DEF IInv
  <2>2. CASE p = r \/ q = r
    BY <1>5, <2>2 DEF PairOK, At, Looking, Removing
  <2>3. CASE p # r /\ q # r
    <3>1. /\ pc'[p] = pc[p] /\ pc'[q] = pc[q]
          /\ Looking(p)' = Looking(p) /\ Removing(q)' = Removing(q)
      BY <1>1, <1>2, <2>3 DEF Looking, Removing
    <3> QED
      BY <2>1, <3>1 DEF PairOK, At
  <2> QED
    BY <2>2, <2>3
<1> QED
  BY <1>1, <1>2, <1>7, <1>9, <1>10 DEF IInv

-----------------------------------------------------------------------------
(* The sweep, the clock and the restart *)

LEMMA SweepInv == ASSUME IInv, Sweep PROVE IInv'
<1>1. UNCHANGED <<env, now, pc, opened, told, kept, restarts>>
  BY DEF Sweep
<1>2. Part(mem', mem) /\ Part(db', db) /\ DOMAIN db \ Expired \subseteq DOMAIN db'
  BY DEF Sweep, Part, Without
<1>3. Saving' = Saving
  BY <1>1 DEF Saving, At
<1>4. TablesOK'
  BY <1>1, <1>2, <1>3 DEF IInv, TablesOK, Part
<1>5. \A t \in DOMAIN db : t \in Expired => now >= db[t].exp
  BY TimesAssumption DEF Expired, IInv, TablesOK
<1>6. ASSUME NEW r \in Threads PROVE RequestOK(r)'
  <2>1. RequestOK(r)
    BY DEF IInv
  <2>2. SaveOK(r)' /\ CopyOK(r)' /\ RemoveOK(r)'
    BY <1>1, <1>2, <2>1 DEF RequestOK, SaveOK, CopyOK, RemoveOK, At, Part
  <2>3. FillOK(r)'
    <3>1. now \in Int
      BY DEF IInv, TablesOK
    <3> QED
      BY <1>1, <1>2, <1>5, <2>1, <3>1, TimesAssumption DEF RequestOK, FillOK, At, Part
  <2> QED
    BY <1>1, <2>1, <2>2, <2>3 DEF RequestOK
<1>7. ASSUME NEW p \in Threads, NEW q \in Threads, p # q PROVE PairOK(p, q)'
  BY <1>1, <1>7 DEF IInv, PairOK, At, Looking, Removing
<1> QED
  BY <1>1, <1>4, <1>6, <1>7 DEF IInv, PcFunction

LEMMA RestartInv == ASSUME IInv, Restart PROVE IInv'
<1>1. UNCHANGED <<env, now, opened, told, kept>> /\ restarts' \in 0..MaxRestarts
  BY TimesAssumption DEF Restart, IInv, TablesOK
<1>2. DOMAIN mem' = {} /\ Part(db', db)
  BY DeleteFacts DEF Restart
<1>3. pc' = [r \in Threads |-> Idle]
  BY DEF Restart
<1>4. TablesOK'
  BY <1>1, <1>2 DEF IInv, TablesOK, Part
<1>5. PcFunction' /\ \A r \in Threads : pc'[r].at = "idle"
  BY <1>3 DEF PcFunction, Idle
<1>6. ASSUME NEW r \in Threads PROVE RequestOK(r)'
  BY <1>5 DEF RequestOK, SaveOK, FillOK, CopyOK, RemoveOK, At, Stages
<1>7. ASSUME NEW p \in Threads, NEW q \in Threads PROVE PairOK(p, q)'
  BY <1>5 DEF PairOK, At, Looking
<1> QED
  BY <1>1, <1>4, <1>5, <1>6, <1>7 DEF IInv

LEMMA TickInv == ASSUME IInv, Tick PROVE IInv'
<1>1. UNCHANGED <<env, mem, db, pc, opened, told, kept, restarts>>
  BY DEF Tick
<1>2. now \in Int /\ now' = now + 1 /\ now' \in 0..MaxNow
  BY TimesAssumption DEF Tick, IInv, TablesOK
<1>3. TablesOK'
  BY <1>1, <1>2 DEF IInv, TablesOK, Saving, At
<1>4. ASSUME NEW r \in Threads PROVE RequestOK(r)'
  <2>1. RequestOK(r)
    BY DEF IInv
  <2>2. SaveOK(r)' /\ CopyOK(r)' /\ RemoveOK(r)'
    BY <1>1, <2>1 DEF RequestOK, SaveOK, CopyOK, RemoveOK, At
  <2>3. FillOK(r)'
    BY <1>1, <1>2, <2>1, TimesAssumption DEF RequestOK, FillOK, At
  <2> QED
    BY <1>1, <2>1, <2>2, <2>3 DEF RequestOK
<1>5. ASSUME NEW p \in Threads, NEW q \in Threads, p # q PROVE PairOK(p, q)'
  BY <1>1, <1>5 DEF IInv, PairOK, At, Looking, Removing
<1> QED
  BY <1>1, <1>3, <1>4, <1>5 DEF IInv, PcFunction

-----------------------------------------------------------------------------
LEMMA RequestInv == ASSUME IInv, NEW r \in Threads, Requests(r) PROVE IInv'
<1>1. CASE \E t \in Tokens, ua \in Clients : CreateMem(r, t, ua)
  BY <1>1, CreateMemInv
<1>2. CASE CreateSave(r)
  BY <1>2, CreateSaveInv
<1>3. CASE \E t \in DOMAIN opened, ua \in Clients, then \in Purposes :
              GetHit(r, t, ua, then) \/ GetMiss(r, t, ua, then)
  BY <1>3, GetHitInv, GetMissInv
<1>4. CASE GetRead(r) \/ GetUnbind(r) \/ GetFill(r)
  BY <1>4, GetReadInv, GetUnbindInv, GetFillInv
<1>5. CASE \E t \in DOMAIN opened : LogoutMem(r, t)
  BY <1>5, LogoutMemInv
<1>6. CASE LogoutDb(r) \/ RevokeMem(r) \/ RevokeDb(r)
  BY <1>6, LogoutDbInv, RevokeMemInv, RevokeDbInv
<1> QED
  BY <1>1, <1>2, <1>3, <1>4, <1>5, <1>6 DEF Requests

LEMMA StepInv == ASSUME IInv, [Next]_vars PROVE IInv'
<1>1. CASE UNCHANGED vars
  BY <1>1 DEF vars, IInv, PcFunction, TablesOK, Saving, RequestOK, SaveOK, FillOK, CopyOK, RemoveOK,
              PairOK, Looking, Removing, At
<1>2. CASE Next
  BY <1>2, RequestInv, SweepInv, RestartInv, TickInv DEF Next
<1> QED
  BY <1>1, <1>2

-----------------------------------------------------------------------------
(* The steps of the one table *)

\* A step that makes no session valid ends some of them, or none.
LEMMA EndStep ==
  ASSUME IInv, UNCHANGED <<opened, told>>, Valid' \subseteq Valid
  PROVE  Table!Next
<1>1. Valid \ Valid' \in SUBSET Tokens
  BY DEF Valid, IInv, TablesOK
<1>2. Table!End(Valid \ Valid')
  BY DEF Table!End
<1> QED
  BY <1>1, <1>2 DEF Table!Next

\* Taking sessions out of the tables makes none valid.
LEMMA PartEnds ==
  ASSUME UNCHANGED <<now, opened>>, Part(mem', mem), Part(db', db)
  PROVE  Valid' \subseteq Valid
  BY DEF Valid, LiveInMem, LiveInDb, Part

LEMMA CreateMemStep ==
  ASSUME IInv, NEW r \in Threads, NEW t \in Tokens, NEW ua \in Clients, CreateMem(r, t, ua)
  PROVE  Table!Next
<1>1. UNCHANGED <<now, db, opened, told>> /\ t \notin DOMAIN opened
  BY DEF CreateMem, Drawn
<1>2. \A u \in DOMAIN opened :
        /\ u \in DOMAIN mem' <=> u \in DOMAIN mem
        /\ u \in DOMAIN mem => mem'[u] = mem[u]
  BY <1>1 DEF CreateMem, With
<1>3. Valid' \subseteq Valid
  BY <1>1, <1>2 DEF Valid, LiveInMem, LiveInDb
<1> QED
  BY <1>1, <1>3, EndStep

\* The token goes out: the session is valid from here, unless it is over already.
LEMMA CreateSaveStep ==
  ASSUME IInv, NEW r \in Threads, CreateSave(r)
  PROVE  Table!Next
<1> DEFINE t == pc[r].token
<1>1. UNCHANGED <<now, mem, told>> /\ At(r, "save")
  BY DEF CreateSave
<1>2. DOMAIN opened' = DOMAIN opened \union {t}
  BY DEF CreateSave, With
<1>3. t \in Tokens /\ t \notin DOMAIN opened
  BY <1>1 DEF IInv, RequestOK, SaveOK
<1>4. \A u \in DOMAIN opened :
        /\ u \in DOMAIN db' <=> u \in DOMAIN db
        /\ u \in DOMAIN db => db'[u] = db[u]
  BY <1>3 DEF CreateSave, With
<1>5. Valid' \in {Valid, Valid \union {t}}
  BY <1>1, <1>2, <1>3, <1>4 DEF Valid, LiveInMem, LiveInDb
<1>6. Table!Open(t)
  BY <1>1, <1>2, <1>3, <1>5 DEF Table!Open
<1> QED
  BY <1>3, <1>6 DEF Table!Next

\* What a lookup puts into the map is valid in the database.
LEMMA GetFillStep ==
  ASSUME IInv, NEW r \in Threads, GetFill(r)
  PROVE  Table!Next
<1> DEFINE t == pc[r].token
           row == pc[r].row
<1>1. UNCHANGED <<now, db, opened, told>> /\ At(r, "fill")
  BY DEF GetFill
<1>2. /\ DOMAIN mem' = DOMAIN mem \union {t} /\ mem'[t] = Filled(row)
      /\ \A u \in DOMAIN mem : u # t => mem'[u] = mem[u]
  BY DEF GetFill, With
<1>3. now <= mem'[t].till => LiveInDb(t)
  <2>1. /\ now \in Int /\ row.exp \in Int /\ (now < row.exp => t \in DOMAIN db)
        /\ t \in DOMAIN db => db[t] = row
    BY <1>1, TimesAssumption DEF IInv, TablesOK, RequestOK, FillOK
  <2> QED
    BY <1>1, <1>2, <2>1 DEF LiveInDb, Filled
<1>4. Valid' \subseteq Valid
  <2> SUFFICES ASSUME NEW u \in Valid' PROVE u \in Valid
    OBVIOUS
  <2>1. CASE u = t
    BY <1>1, <1>3, <2>1 DEF Valid, LiveInMem, LiveInDb
  <2>2. CASE u # t
    BY <1>1, <1>2, <2>2 DEF Valid, LiveInMem, LiveInDb
  <2> QED
    BY <2>1, <2>2
<1> QED
  BY <1>1, <1>4, EndStep

\* Out of the map since the first step of the logout, out of the database with the second.
LEMMA LogoutDbStep ==
  ASSUME IInv, NEW r \in Threads, LogoutDb(r)
  PROVE  Table!Next
<1> DEFINE t == pc[r].token
           S == {t} \ DOMAIN db'
<1>1. /\ UNCHANGED <<now, mem, opened>> /\ At(r, "logout")
      /\ told' = told \union S /\ Part(db', db) /\ S \intersect DOMAIN db' = {} /\ S \subseteq {t}
  BY DeleteFacts DEF LogoutDb, Answered
<1>2. t \in DOMAIN opened /\ t \notin DOMAIN mem /\ DOMAIN opened \subseteq Tokens
  BY <1>1 DEF IInv, RequestOK, RemoveOK, TablesOK
<1>3. Valid' \subseteq Valid \ S
  BY <1>1, <1>2 DEF Valid, LiveInMem, LiveInDb, Part
<1>4. Table!Promise(S)
  BY <1>1, <1>2, <1>3 DEF Table!Promise
<1> QED
  BY <1>2, <1>4 DEF Table!Next

LEMMA RevokeDbStep ==
  ASSUME IInv, NEW r \in Threads, RevokeDb(r)
  PROVE  Table!Next
<1> DEFINE S == pc[r].others \ DOMAIN db'
<1>1. UNCHANGED <<now, mem, opened>> /\ At(r, "revoke")
  BY DEF RevokeDb
<1>2. /\ S \subseteq DOMAIN opened /\ DOMAIN opened \subseteq Tokens
      /\ \A t \in S : t # pc[r].keep /\ t \notin DOMAIN mem
  BY <1>1 DEF IInv, RequestOK, RemoveOK, TablesOK
<1>3. Part(db', db)
  BY DeleteFacts DEF RevokeDb, Delete
<1>4. CASE told' = told
  BY <1>1, <1>3, <1>4, PartFacts, PartEnds, EndStep
<1>5. CASE told' = told \union S
  <2>1. Valid' \subseteq Valid \ S
    BY <1>1, <1>2, <1>3 DEF Valid, LiveInMem, LiveInDb, Part
  <2>2. Table!Promise(S)
    BY <1>1, <1>2, <1>5, <2>1 DEF Table!Promise
  <2> QED
    BY <1>2, <2>2 DEF Table!Next
<1> QED
  BY <1>4, <1>5 DEF RevokeDb, Answered

\* Lookups that change no more than the map, the other removals, the sweep, the clock and the
\* restart make nothing valid.
LEMMA OtherSteps ==
  ASSUME IInv, NEW r \in Threads,
         \/ \E t \in DOMAIN opened, ua \in Clients, then \in Purposes :
               GetHit(r, t, ua, then) \/ GetMiss(r, t, ua, then)
         \/ GetRead(r) \/ GetUnbind(r) \/ RevokeMem(r)
         \/ \E t \in DOMAIN opened : LogoutMem(r, t)
  PROVE  Table!Next
<1>1. UNCHANGED <<now, opened, told>>
  BY DEF GetHit, GetMiss, GetRead, GetUnbind, RevokeMem, LogoutMem
<1>2. mem' = mem \/ \E S : mem' = Without(mem, S)
  BY DEF GetHit, GetMiss, GetRead, GetUnbind, RevokeMem, LogoutMem
<1>3. db' = db \/ \E S : db' = Without(db, S)
  BY DEF GetHit, GetMiss, GetRead, GetUnbind, Delete, RevokeMem, LogoutMem
<1>4. Part(mem', mem) /\ Part(db', db)
  BY <1>2, <1>3 DEF Part, Without
<1> QED
  BY <1>1, <1>4, PartEnds, EndStep

LEMMA PassiveSteps ==
  ASSUME IInv, Sweep \/ Restart \/ Tick
  PROVE  Table!Next
<1>1. CASE Sweep \/ Restart
  <2>1. UNCHANGED <<now, opened, told>>
    BY <1>1 DEF Sweep, Restart
  <2>2. Part(mem', mem)
    BY <1>1 DEF Sweep, Restart, Part, Without
  <2>3. Part(db', db)
    BY <1>1, DeleteFacts, PartFacts DEF Sweep, Restart
  <2> QED
    BY <2>1, <2>2, <2>3, PartEnds, EndStep
<1>2. CASE Tick
  <2>1. UNCHANGED <<mem, db, opened, told>> /\ now \in Int /\ now' = now + 1
    BY <1>2 DEF Tick, IInv, TablesOK
  <2>2. /\ \A t \in DOMAIN mem : mem[t].till \in Int
        /\ \A t \in DOMAIN db : db[t].exp \in Int
    BY TimesAssumption DEF IInv, TablesOK
  <2>3. Valid' \subseteq Valid
    BY <2>1, <2>2 DEF Valid, LiveInMem, LiveInDb
  <2> QED
    BY <2>1, <2>3, EndStep
<1> QED
  BY <1>1, <1>2

LEMMA Simulation == ASSUME IInv, [Next]_vars PROVE [Table!Next]_(Table!vars)
<1>1. CASE UNCHANGED vars
  BY <1>1 DEF vars, Table!vars, Valid, LiveInMem, LiveInDb
<1>2. ASSUME NEW r \in Threads, Requests(r) PROVE Table!Next
  BY <1>2, CreateMemStep, CreateSaveStep, GetFillStep, LogoutDbStep, RevokeDbStep, OtherSteps
  DEF Requests
<1>3. CASE Next
  BY <1>2, <1>3, PassiveSteps DEF Next
<1> QED
  BY <1>1, <1>3

\* As long as no logout and no revocation overlaps a lookup of a session it ends (server.go,
\* auth; store.go, GetSession), the map and the database are one table of sessions.
THEOREM OneTableHolds ==
  ASSUME \A s \in Scenarios : "overlap" \notin s
  PROVE  Spec => OneTable
<1>1. Init => IInv
  BY InitInv
<1>2. Init => Table!Init
  BY DEF Init, Table!Init, Valid
<1>3. IInv /\ [Next]_vars => IInv'
  BY StepInv
<1>4. IInv /\ [Next]_vars => [Table!Next]_(Table!vars)
  BY Simulation
<1> QED
  BY <1>1, <1>2, <1>3, <1>4, PTL DEF Spec, OneTable, Table!Spec

\* Under the same condition: the tables hold sessions that some request has opened, and the
\* two copies of one session expire within a second of each other (create, GetSession).
THEOREM TypeCorrect ==
  ASSUME \A s \in Scenarios : "overlap" \notin s
  PROVE  Spec => []TypeOK
<1>1. IInv => TypeOK
  BY DEF IInv, TablesOK, RequestOK, TypeOK
<1> QED
  BY <1>1, InitInv, StepInv, PTL DEF Spec

\* As long as deletions reach the database, none is answered for that left a row.
LEMMA KeptStep ==
  ASSUME IInv, "deleteFail" \notin env, [Next]_vars, kept = {}
  PROVE  kept' = {}
<1>1. ASSUME NEW r \in Threads, LogoutDb(r) PROVE kept' = {}
  BY <1>1 DEF LogoutDb, Delete, Answered, Without
<1>2. ASSUME NEW r \in Threads, RevokeDb(r) PROVE kept' = {}
  <2>1. \A t \in pc[r].others : t \in Tokens /\ t # pc[r].keep
    BY <1>2 DEF RevokeDb, IInv, RequestOK, RemoveOK, TablesOK
  <2> QED
    BY <1>2, <2>1 DEF RevokeDb, Answered, Without
<1> QED
  BY <1>1, <1>2
  DEF Next, Requests, CreateMem, CreateSave, GetHit, GetMiss, GetRead, GetUnbind, GetFill, LogoutMem,
      RevokeMem, Sweep, Restart, Tick, vars

\* As long as, besides, no deletion fails: what logout and revocation have answered for stays
\* out (handleLogout, revokeOtherSessions, handleRevokeOtherSessions).
THEOREM RevokedStayOutHolds ==
  ASSUME \A s \in Scenarios : "overlap" \notin s /\ "deleteFail" \notin s
  PROVE  Spec => []RevokedStayOut
<1> DEFINE Inv == IInv /\ "deleteFail" \notin env /\ kept = {} /\ RevokedStayOut
<1>1. Init => Inv
  BY InitInv DEF Init, RevokedStayOut
<1>2. ASSUME Inv, [Next]_vars PROVE Inv'
  <2>1. told \subseteq DOMAIN opened /\ told \intersect Valid = {} /\ kept' = {}
    BY <1>2, KeptStep DEF IInv, TablesOK, RevokedStayOut
  <2>2. ASSUME UNCHANGED Table!vars PROVE (told \intersect Valid = {})'
    BY <2>1, <2>2 DEF Table!vars
  <2>3. ASSUME NEW t \in Tokens, Table!Open(t) PROVE (told \intersect Valid = {})'
    BY <2>1, <2>3 DEF Table!Open
  <2>4. ASSUME NEW S \in SUBSET Tokens, Table!End(S) \/ Table!Promise(S) PROVE (told \intersect Valid = {})'
    BY <2>1, <2>4 DEF Table!End, Table!Promise
  <2>5. RevokedStayOut'
    <3>1. (told \intersect Valid = {})'
      BY <1>2, <2>2, <2>3, <2>4, Simulation DEF Table!Next
    <3> QED
      BY <2>1, <3>1 DEF RevokedStayOut
  <2>6. env' = env
    BY <1>2
    DEF Next, Requests, CreateMem, CreateSave, GetHit, GetMiss, GetRead, GetUnbind, GetFill, LogoutMem,
        LogoutDb, RevokeDb, RevokeMem, Sweep, Restart, Tick, vars
  <2> QED
    BY <1>2, <2>1, <2>5, <2>6, StepInv
<1> QED
  BY <1>1, <1>2, PTL DEF Spec

-----------------------------------------------------------------------------
(* Why a session ends *)

\* What stays in one of the tables with its time to come stays valid.
LEMMA StaysValid ==
  ASSUME UNCHANGED <<now, opened>>, NEW t \in Valid,
         \/ LiveInMem(t) /\ t \in DOMAIN mem' /\ mem'[t] = mem[t]
         \/ LiveInDb(t) /\ t \in DOMAIN db' /\ db'[t] = db[t]
  PROVE  t \in Valid'
  BY DEF Valid, LiveInMem, LiveInDb

LEMMA CreateReason ==
  ASSUME IInv, NEW r \in Threads, NEW t \in Valid \ Valid',
         \/ \E s \in Tokens, ua \in Clients : CreateMem(r, s, ua)
         \/ CreateSave(r)
  PROVE  FALSE
<1>1. CASE \E s \in Tokens, ua \in Clients : CreateMem(r, s, ua)
  BY <1>1, StaysValid DEF CreateMem, Drawn, With, Valid, LiveInMem, LiveInDb
<1>2. CASE CreateSave(r)
  <2>1. /\ UNCHANGED <<now, mem>> /\ DOMAIN opened \subseteq DOMAIN opened'
        /\ pc[r].token \notin DOMAIN opened
    BY <1>2 DEF CreateSave, With, IInv, RequestOK, SaveOK
  <2>2. t \in DOMAIN db => t \in DOMAIN db' /\ db'[t] = db[t]
    BY <1>2, <2>1 DEF CreateSave, With, Valid
  <2> QED
    BY <2>1, <2>2 DEF Valid, LiveInMem, LiveInDb
<1> QED
  BY <1>1, <1>2

\* A lookup drops a live copy from the map only if another client has shown it.
LEMMA GetMissReason ==
  ASSUME IInv, NEW r \in Threads, NEW s \in DOMAIN opened, NEW ua \in Clients,
         NEW then \in Purposes, GetMiss(r, s, ua, then), NEW t \in Valid \ Valid'
  PROVE  Reason(t)
<1>1. /\ UNCHANGED <<now, db, opened>> /\ At(r, "idle")
      /\ ~ (LiveInMem(s) /\ Bound(mem[s].client, ua))
  BY DEF GetMiss
<1>2. pc'[r].at = "read" /\ pc'[r].token = s /\ pc'[r].ua = ua
  BY GotoFacts DEF GetMiss, IInv
<1>3. t \in DOMAIN mem /\ t # s => t \in DOMAIN mem' /\ mem'[t] = mem[t]
  BY DEF GetMiss, Without
<1>4. t = s /\ LiveInMem(t)
  BY <1>1, <1>3, StaysValid DEF Valid, LiveInMem, LiveInDb
<1>5. mem[s].client = opened[s]
  BY <1>4 DEF LiveInMem, IInv, TablesOK
<1> QED
  BY <1>1, <1>2, <1>4, <1>5 DEF Reason, At

\* The copy a lookup makes lasts as long as any that was there.
LEMMA GetFillReason ==
  ASSUME IInv, NEW r \in Threads, GetFill(r), NEW t \in Valid \ Valid'
  PROVE  FALSE
<1>1. UNCHANGED <<now, db, opened>> /\ At(r, "fill")
  BY DEF GetFill
<1>2. DOMAIN mem' = DOMAIN mem \union {pc[r].token} /\ mem'[pc[r].token] = Filled(pc[r].row)
      /\ \A u \in DOMAIN mem : u # pc[r].token => mem'[u] = mem[u]
  BY DEF GetFill, With
<1>3. t \in DOMAIN mem => t \in DOMAIN mem' /\ mem'[t].till = mem[t].till
  BY <1>1, <1>2 DEF IInv, RequestOK, CopyOK, Filled
<1> QED
  BY <1>1, <1>3 DEF Valid, LiveInMem, LiveInDb

\* The first steps of logout and revocation take sessions from the map, the last steps, and
\* the lookup by another client, from the database: each those it is about.
LEMMA RemovalReason ==
  ASSUME IInv, NEW r \in Threads, NEW t \in Valid \ Valid',
         \/ \E s \in DOMAIN opened : LogoutMem(r, s)
         \/ LogoutDb(r) \/ GetUnbind(r) \/ RevokeMem(r) \/ RevokeDb(r)
  PROVE  Reason(t)
<1>1. UNCHANGED <<now, opened>>
  BY DEF LogoutMem, LogoutDb, GetUnbind, RevokeMem, RevokeDb
<1>2. CASE \E s \in DOMAIN opened : LogoutMem(r, s)
  <2>1. PICK s \in DOMAIN opened : LogoutMem(r, s)
    BY <1>2
  <2>2. pc'[r] = [at |-> "logout", token |-> s] /\ At(r, "idle") /\ UNCHANGED db
    BY <2>1, GotoFacts DEF LogoutMem, IInv
  <2>3. t \in DOMAIN mem /\ t # s => t \in DOMAIN mem' /\ mem'[t] = mem[t]
    BY <2>1 DEF LogoutMem, Without
  <2>4. t = s
    BY <1>1, <2>2, <2>3, StaysValid DEF Valid, LiveInMem, LiveInDb
  <2> QED
    BY <2>2, <2>4 DEF Reason, At
<1>3. CASE LogoutDb(r) \/ GetUnbind(r)
  <2>1. pc'[r] = Idle /\ (At(r, "logout") \/ At(r, "unbind")) /\ UNCHANGED mem
    BY <1>3, GotoFacts DEF LogoutDb, GetUnbind, IInv
  <2>2. t \in DOMAIN db /\ t # pc[r].token => t \in DOMAIN db' /\ db'[t] = db[t]
    BY <1>3 DEF LogoutDb, GetUnbind, Delete, Without
  <2>3. t = pc[r].token
    BY <1>1, <2>1, <2>2, StaysValid DEF Valid, LiveInMem, LiveInDb
  <2> QED
    BY <2>1, <2>3 DEF Reason, Removing, At, Idle
<1>4. CASE RevokeMem(r)
  <2>1. pc'[r].at = "revoke" /\ At(r, "clear") /\ UNCHANGED db
    BY <1>4, GotoFacts DEF RevokeMem, IInv
  <2>2. t \in DOMAIN mem /\ t = pc[r].keep => t \in DOMAIN mem' /\ mem'[t] = mem[t]
    BY <1>4 DEF RevokeMem, Without
  <2>3. t # pc[r].keep
    BY <1>1, <2>1, <2>2, StaysValid DEF Valid, LiveInMem, LiveInDb
  <2> QED
    BY <2>1, <2>3 DEF Reason, At
<1>5. CASE RevokeDb(r)
  <2>1. pc'[r] = Idle /\ At(r, "revoke") /\ UNCHANGED mem
    BY <1>5, GotoFacts DEF RevokeDb, IInv
  <2>2. t \in DOMAIN db /\ t = pc[r].keep => t \in DOMAIN db' /\ db'[t] = db[t]
    BY <1>5 DEF RevokeDb, Without
  <2>3. t \in Tokens /\ t # pc[r].keep
    BY <1>1, <2>1, <2>2, StaysValid DEF Valid, LiveInMem, LiveInDb, IInv, TablesOK
  <2> QED
    BY <2>1, <2>3 DEF Reason, Removing, At, Idle
<1> QED
  BY <1>2, <1>3, <1>4, <1>5

\* The sweep ends nothing, the clock what expires, a restart what the database does not hold.
LEMMA PassiveReason ==
  ASSUME IInv, NEW t \in Valid \ Valid', Sweep \/ Restart \/ Tick
  PROVE  Reason(t)
<1>1. /\ now \in Int /\ \A u \in DOMAIN mem : mem[u].till \in Int
      /\ \A u \in DOMAIN db : db[u].exp \in Int
  BY TimesAssumption DEF IInv, TablesOK
<1>2. CASE Sweep
  <2>1. \A u \in DOMAIN db : u \in Expired => now >= db[u].exp
    BY TimesAssumption DEF Expired, IInv, TablesOK
  <2>2. LiveInMem(t) => t \in DOMAIN mem' /\ mem'[t] = mem[t]
    BY <1>1, <1>2 DEF Sweep, Without, Expired, LiveInMem
  <2>3. LiveInDb(t) => t \in DOMAIN db' /\ db'[t] = db[t]
    BY <1>1, <1>2, <2>1 DEF Sweep, Without, LiveInDb
  <2> QED
    BY <1>2, <2>2, <2>3, StaysValid DEF Sweep, Valid
<1>3. CASE Restart
  <2>1. restarts' # restarts
    BY <1>3 DEF Restart, IInv, TablesOK
  <2>2. LiveInDb(t) => t \in DOMAIN db' /\ db'[t] = db[t]
    BY <1>1, <1>3 DEF Restart, Delete, Without, Pruned, LiveInDb
  <2> QED
    BY <1>3, <2>1, <2>2, StaysValid DEF Restart, Reason
<1>4. CASE Tick
  <2>1. now' = now + 1 /\ UNCHANGED <<mem, db, opened>>
    BY <1>4 DEF Tick
  <2>2. ~ LiveInMem(t)' /\ ~ LiveInDb(t)'
    BY <2>1 DEF Valid
  <2>3. LiveInMem(t) => now' > mem[t].till
    BY <1>1, <2>1, <2>2 DEF LiveInMem
  <2>4. LiveInDb(t) => now' >= db[t].exp
    BY <1>1, <2>1, <2>2 DEF LiveInDb
  <2>5. now' # now
    BY <1>1, <2>1
  <2> QED
    BY <2>3, <2>4, <2>5 DEF Reason
<1> QED
  BY <1>2, <1>3, <1>4

LEMMA StepReason ==
  ASSUME IInv, [Next]_vars, NEW t \in Valid \ Valid'
  PROVE  Reason(t)
<1>1. CASE UNCHANGED vars
  BY <1>1 DEF vars, Valid, LiveInMem, LiveInDb
<1>2. ASSUME NEW r \in Threads, Requests(r) PROVE Reason(t)
  <2>1. CASE \E s \in DOMAIN opened, ua \in Clients, then \in Purposes : GetHit(r, s, ua, then)
    BY <2>1 DEF GetHit, Valid, LiveInMem, LiveInDb
  <2>2. CASE \E s \in DOMAIN opened, ua \in Clients, then \in Purposes : GetMiss(r, s, ua, then)
    BY <2>2, GetMissReason
  <2>3. CASE GetRead(r)
    BY <2>3 DEF GetRead, Valid, LiveInMem, LiveInDb
  <2>4. CASE GetFill(r)
    BY <2>4, GetFillReason
  <2>5. CASE (\E s \in Tokens, ua \in Clients : CreateMem(r, s, ua)) \/ CreateSave(r)
    BY <2>5, CreateReason
  <2>6. CASE \/ \E s \in DOMAIN opened : LogoutMem(r, s)
             \/ LogoutDb(r) \/ GetUnbind(r) \/ RevokeMem(r) \/ RevokeDb(r)
    BY <2>6, RemovalReason
  <2> QED
    BY <1>2, <2>1, <2>2, <2>3, <2>4, <2>5, <2>6 DEF Requests
<1>3. CASE Next
  BY <1>2, <1>3, PassiveReason DEF Next
<1> QED
  BY <1>1, <1>3

\* Under the same condition: a session ends by its time, by a request that is meant to end it
\* or that shows it for another client, and by a restart only if the database has lost it
\* (auth, handleLogout, removeOthers, newSessionStore).
THEOREM EndsForAReasonHolds ==
  ASSUME \A s \in Scenarios : "overlap" \notin s
  PROVE  Spec => EndsForAReason
<1>1. IInv /\ [Next]_vars => [\A t \in Valid \ Valid' : Reason(t)]_vars
  BY StepReason
<1> QED
  BY <1>1, InitInv, StepInv, PTL DEF Spec, EndsForAReason
=============================================================================

------------------------- MODULE SubListenerProofs --------------------------
(***************************************************************************)
(* SubListener is type correct however requests overlap, and when they     *)
(* take turns a form that was answered with success is in effect once the  *)
(* goroutines have run.                                                    *)
(*                                                                         *)
(* What carries both is who may still touch a server.  A request that      *)
(* stops one has taken it out of its place before, so that nobody else     *)
(* finds it; a request that starts one made it, and only a challenge       *)
(* server is found, and stopped, before its goroutine ran.                 *)
(***************************************************************************)
EXTENDS SubListener, TLAPS

Begun == {"starting", "listening", "taken", "failed"}

Serving(s, kind, sts) == s \in Servers /\ srv[s] \in Served /\ srv[s].kind = kind /\ srv[s].st \in sts

SettingsOK(set) ==
    /\ DOMAIN set = FieldSet
    /\ set.port \in Ports /\ set.suffix \in Suffixes /\ set.cert \in Certs

BaseInv ==
    /\ events \in 0..MaxEvents /\ refused \in BOOLEAN
    /\ sc \in Scenarios
    /\ SettingsOK(settings)
    /\ srv \in [Servers -> Served \union {Nil}]

\* What a request in progress remembers at each of its steps.
ReqOK(p) ==
    /\ p.at \in Stages
    /\ p.at = "save" => /\ p = [at |-> "save", form |-> p.form, k |-> p.k]
                       /\ IsForm(p.form) /\ p.form \in sc.forms /\ p.k \in 1..(Len(Fields) + 1)
    /\ p.at = "take" => p = [at |-> "take", why |-> "save"]
    /\ p.at = "shut" => p = [at |-> "shut", why |-> "save", old |-> p.old]
    /\ p.at = "read" => p = [at |-> "read", why |-> p.why]
    /\ p.at = "reload" => p = [at |-> "reload", why |-> p.why, set |-> p.set]
    /\ p.at = "reloadShut" => p = [at |-> "reloadShut", why |-> p.why, set |-> p.set, old |-> p.old, new |-> p.new]
    /\ p.at = "reloadStart" => p = [at |-> "reloadStart", why |-> p.why, set |-> p.set, new |-> p.new]
    /\ p.at = "build" => p = [at |-> "build", why |-> "save", set |-> p.set]
    /\ p.at = "order" => p = [at |-> "order", why |-> "issue", set |-> p.set]
    /\ p.at = "publish" => p = [at |-> "publish", new |-> p.new]
    /\ p.at \in {"read", "reload", "reloadShut", "reloadStart"} => p.why \in {"save", "issue"}
    /\ p.at \in {"reload", "reloadShut", "reloadStart", "build"} => SettingsOK(p.set)

PcInv == DOMAIN pc = Requesters /\ \A r \in Requesters : ReqOK(pc[r])

\* The published servers: the challenge server may wait for its goroutine.
PublishedInv ==
    /\ acmeSrv # Nil <=> Acme(prov)
    /\ subSrv # Nil => Serving(subSrv, "sub", Begun)
    /\ acmeSrv # Nil => Serving(acmeSrv, "acme", Begun \union {"new"})

\* A server about to be stopped is in nobody's place any more.
OldOK(r) ==
    /\ At(r, "shut") /\ Old(r) # Nil => Serving(Old(r), "sub", Begun) /\ Old(r) # subSrv
    /\ At(r, "reloadShut") /\ Old(r) # Nil => Serving(Old(r), "acme", Begun \union {"new"}) /\ Old(r) # acmeSrv

\* A server about to be started has not run, and may have been stopped.
NewOK(r) ==
    /\ At(r, "publish") => Serving(New(r), "sub", {"new"})
    /\ At(r, "reloadStart") => Serving(New(r), "acme", {"new", "closed"})
    /\ At(r, "reloadShut") /\ New(r) # Nil => Serving(New(r), "acme", {"new", "closed"})

\* Two requests never have the same server to stop, nor the same one to start.
ApartInv ==
    \A q, r \in Requesters : q # r =>
        /\ Old(q) = Old(r) => Old(q) = Nil
        /\ New(q) = New(r) => New(q) = Nil

HeldInv == \A r \in Requesters : OldOK(r) /\ NewOK(r)

TypeInv == BaseInv /\ PcInv /\ PublishedInv /\ HeldInv /\ ApartInv

-----------------------------------------------------------------------------
(* When requests take turns *)

Running == {"starting", "listening", "taken"}

Fits(s, set) ==
    /\ srv[s].port = set.port /\ srv[s].suffix = set.suffix
    /\ set.cert # "bad" => srv[s].tls = TLSEnabled(Given(set))

\* A save replaces the listener from here on; an order of a certificate leaves it alone.
Replacing(r) ==
    \/ pc[r].at \in {"shut", "publish", "build"}
    \/ pc[r].at \in {"read", "reload", "reloadShut", "reloadStart"} /\ pc[r].why = "save"

Alone(r) == \A q \in Requesters : q # r => At(q, "idle")

\* The settings a request read are those of the database, and the provider has them, unless their
\* certificate does not parse.
LoneRead(r) ==
    /\ pc[r].at \in {"reload", "reloadShut", "reloadStart", "build"} => pc[r].set = settings
    /\ pc[r].at \in {"reloadShut", "reloadStart", "build"} /\ settings.cert # "bad" => prov = Given(settings)

\* The only subscription server is the one published, or the one on its way out or in.
LoneSub(r) ==
    /\ At(r, "shut") => Only(Old(r), "sub")
    /\ At(r, "publish") => Only(New(r), "sub") /\ Fits(New(r), settings)
    /\ ~ At(r, "shut") /\ ~ At(r, "publish") => Only(subSrv, "sub")
    /\ Replacing(r) => subSrv = Nil
    /\ ~ Replacing(r) /\ ~ At(r, "take") => subSrv # Nil
    /\ subSrv # Nil => srv[subSrv].st \in Running
    /\ ~ refused /\ ~ Replacing(r) /\ ~ At(r, "take") /\ ~ At(r, "save") => Fits(subSrv, settings)

\* The same of the challenge server, which is published before the old one is stopped.
LoneAcme(r) ==
    /\ At(r, "reloadShut") =>
          /\ acmeSrv = New(r)
          /\ \A x \in Servers : srv[x] # Nil /\ srv[x].kind = "acme" => x = Old(r) \/ x = New(r)
          /\ Old(r) # Nil => srv[Old(r)].st \in Running
          /\ New(r) # Nil => srv[New(r)].st = "new"
    /\ At(r, "reloadStart") => acmeSrv = New(r) /\ Only(New(r), "acme") /\ srv[New(r)].st = "new"
    /\ ~ At(r, "reloadShut") /\ ~ At(r, "reloadStart") =>
          Only(acmeSrv, "acme") /\ (acmeSrv # Nil => srv[acmeSrv].st \in Running)

Lone(r) == LoneRead(r) /\ LoneSub(r) /\ LoneAcme(r)

SerialInv == "overlap" \notin sc.env /\ ChallengePort \notin Ports => \E r \in Requesters : Alone(r) /\ Lone(r)

-----------------------------------------------------------------------------
(* The fields of a form, and the records *)

LEMMA FieldFacts ==
    /\ FieldSet = {"port", "suffix", "domain", "email", "cert"}
    /\ Len(Fields) = 5
    /\ \A k \in 1..5 : Fields[k] \in FieldSet
    /\ Fields[1] = "port" /\ Fields[2] = "suffix" /\ Fields[3] = "domain"
    /\ Fields[4] = "email" /\ Fields[5] = "cert"
  <1>1. /\ Len(Fields) = 5 /\ DOMAIN Fields = 1..5
        /\ Fields[1] = "port" /\ Fields[2] = "suffix" /\ Fields[3] = "domain"
        /\ Fields[4] = "email" /\ Fields[5] = "cert"
    BY DEF Fields
  <1>2. \A k \in 1..5 : k = 1 \/ k = 2 \/ k = 3 \/ k = 4 \/ k = 5
    OBVIOUS
  <1>3. \A x : x \in FieldSet <=> \E k \in 1..5 : x = Fields[k]
    BY <1>1 DEF FieldSet
  <1>4. \A x : x \in FieldSet <=> x \in {"port", "suffix", "domain", "email", "cert"}
    BY <1>1, <1>2, <1>3
  <1> QED BY <1>1, <1>3, <1>4

LEMMA DefaultsOK == SettingsOK(Defaults)
  <1>1. (CHOOSE p \in Ports : TRUE) \in Ports
    BY SubPorts
  <1>2. "default" \in Suffixes
    BY DEF Suffixes
  <1> QED BY <1>1, <1>2, FieldFacts DEF SettingsOK, Defaults, Certs

LEMMA FormSuffix ==
    ASSUME NEW s \in Scenarios, NEW f \in s.forms, "suffix" \in DOMAIN f
    PROVE  f.suffix \in Suffixes
  <1>1. f \in { g \in UNION { t.forms : t \in Scenarios } : "suffix" \in DOMAIN g }
    OBVIOUS
  <1> QED BY <1>1 DEF Suffixes

\* A server changes nothing but its state.
LEMMA StateOnly ==
    ASSUME NEW v \in Served, NEW st \in States
    PROVE  /\ [v EXCEPT !.st = st] \in Served
           /\ [v EXCEPT !.st = st].st = st
           /\ [v EXCEPT !.st = st].kind = v.kind /\ [v EXCEPT !.st = st].port = v.port
           /\ v.kind = "sub" => /\ [v EXCEPT !.st = st].suffix = v.suffix
                                /\ [v EXCEPT !.st = st].tls = v.tls
  <1>1. CASE v \in [kind : {"sub"}, port : Ports, suffix : Suffixes, tls : BOOLEAN, st : States]
    BY <1>1 DEF Served
  <1>2. CASE v \in [kind : {"acme"}, port : {ChallengePort}, st : States]
    BY <1>2 DEF Served
  <1> QED BY <1>1, <1>2 DEF Served

LEMMA ServedFacts ==
    ASSUME NEW v \in Served
    PROVE  /\ v # Nil /\ v.kind \in {"sub", "acme"} /\ v.st \in States
           /\ v.kind = "acme" => v.port = ChallengePort
           /\ v.kind = "sub" => v.port \in Ports
  <1>1. v # Nil
    BY SubNil
  <1> QED BY <1>1 DEF Served

\* A step of one request leaves the others where they were.
LEMMA OneRequest ==
    ASSUME PcInv, NEW r \in Requesters, NEW rec, pc' = [pc EXCEPT ![r] = rec], ReqOK(rec), sc' = sc
    PROVE  /\ PcInv'
           /\ pc'[r] = rec
           /\ \A q \in Requesters : q # r => pc'[q] = pc[q] /\ Old(q)' = Old(q) /\ New(q)' = New(q)
  <1>1. pc'[r] = rec /\ DOMAIN pc' = Requesters /\ \A q \in Requesters : q # r => pc'[q] = pc[q]
    BY DEF PcInv
  <1>2. \A q \in Requesters : q # r => Old(q)' = Old(q) /\ New(q)' = New(q)
    BY <1>1 DEF Old, New
  <1>3. ReqOK(rec)'
    BY DEF ReqOK
  <1>4. \A q \in Requesters : ReqOK(pc[q])'
    <2> TAKE q \in Requesters
    <2>1. CASE q = r
      BY <1>1, <1>3, <2>1 DEF ReqOK
    <2>2. CASE q # r
      BY <1>1, <2>2 DEF ReqOK, PcInv
    <2> QED BY <2>1, <2>2
  <1> QED BY <1>1, <1>2, <1>4 DEF PcInv

-----------------------------------------------------------------------------
(* Type correctness, step by step *)

LEMMA InitType == Init => TypeInv
  <1> SUFFICES ASSUME Init PROVE TypeInv
    OBVIOUS
  <1> USE DEF Init
  <1>a. srv \in [Servers -> Served \union {Nil}]
    OBVIOUS
  <1>b. events \in 0..MaxEvents /\ sc \in Scenarios /\ SettingsOK(settings)
    BY DefaultsOK, SubScenarios
  <1>c. refused \in BOOLEAN
    OBVIOUS
  <1>1. BaseInv
    BY <1>a, <1>b, <1>c DEF BaseInv
  <1>2. \A r \in Requesters : pc[r] = Idle \/ pc[r] = [at |-> "take", why |-> "save"]
    BY DEF Wait
  <1>3. PcInv
    BY <1>2 DEF PcInv, ReqOK, Idle, Stages
  <1>4. \A r \in Requesters : Old(r) = Nil /\ New(r) = Nil /\ pc[r].at \in {"idle", "take"}
    BY <1>2 DEF Old, New, Idle
  <1>5. HeldInv /\ ApartInv
    BY <1>4 DEF HeldInv, ApartInv, OldOK, NewOK, At
  <1>6. PublishedInv
    BY DEF PublishedInv, Acme, NoCertificate
  <1> QED BY <1>1, <1>3, <1>5, <1>6 DEF TypeInv

\* A step that holds no server and touches none.
LEMMA PlainStep ==
    ASSUME TypeInv, NEW r \in Requesters, NEW rec, pc' = [pc EXCEPT ![r] = rec], ReqOK(rec), sc' = sc,
           rec.at \notin {"shut", "reloadShut", "reloadStart", "publish"},
           UNCHANGED servers, BaseInv'
    PROVE  TypeInv'
  <1>1. /\ PcInv' /\ pc'[r] = rec
        /\ \A q \in Requesters : q # r => pc'[q] = pc[q] /\ Old(q)' = Old(q) /\ New(q)' = New(q)
    BY OneRequest DEF TypeInv
  <1>2. Old(r)' = Nil /\ New(r)' = Nil
    BY <1>1 DEF Old, New
  <1>3. PublishedInv'
    BY DEF TypeInv, PublishedInv, Serving, servers
  <1>4. ApartInv'
    BY <1>1, <1>2 DEF TypeInv, ApartInv
  <1>5. ASSUME NEW q \in Requesters PROVE OldOK(q)' /\ NewOK(q)'
    <2>1. CASE q = r
      BY <1>1, <1>2, <2>1 DEF OldOK, NewOK, At
    <2>2. CASE q # r
      BY <1>1, <2>2 DEF TypeInv, HeldInv, OldOK, NewOK, At, Serving, servers
    <2> QED BY <2>1, <2>2
  <1> QED BY <1>1, <1>3, <1>4, <1>5 DEF TypeInv, HeldInv

LEMMA SaveType ==
    ASSUME TypeInv, NEW r \in Threads, NEW form \in sc.forms, Save(r, form) PROVE TypeInv'
  <1>1. r \in Requesters
    BY DEF Requesters
  <1>2. BaseInv'
    BY DEF TypeInv, BaseInv, Save, servers
  <1>3. PICK rec : rec = [at |-> "save", form |-> form, k |-> 1]
    OBVIOUS
  <1>4. IsForm(form)
    BY SubScenarios DEF TypeInv, BaseInv
  <1>5. ReqOK(rec)
    BY <1>3, <1>4, FieldFacts DEF ReqOK, Stages
  <1>6. pc' = [pc EXCEPT ![r] = rec] /\ sc' = sc /\ UNCHANGED servers
    BY <1>3 DEF Save, Goto
  <1> QED BY <1>1, <1>2, <1>3, <1>5, <1>6, PlainStep

LEMMA IdleOK == ReqOK(Idle) /\ Idle.at = "idle"
  BY DEF ReqOK, Idle, Stages

\* The settings stay well formed, whatever field is written.
LEMMA FieldWritten ==
    ASSUME TypeInv, NEW r \in Requesters, SaveField(r) PROVE SettingsOK(settings')
  <1> DEFINE k == pc[r].k
             form == pc[r].form
             field == Fields[k]
  <1>1. /\ pc[r].at = "save" /\ k \in 1..5 /\ IsForm(form) /\ form \in sc.forms
    <2>1. pc[r].at = "save" /\ k <= Len(Fields)
      BY DEF SaveField, At
    <2>2. k \in 1..(Len(Fields) + 1) /\ IsForm(form) /\ form \in sc.forms
      BY <2>1 DEF TypeInv, PcInv, ReqOK
    <2> QED BY <2>1, <2>2, FieldFacts
  <1>2. SettingsOK(settings) /\ sc \in Scenarios
    BY DEF TypeInv, BaseInv
  <1>3. \/ settings' = settings
        \/ field \in DOMAIN form /\ settings' = [settings EXCEPT ![field] = form[field]]
        \/ \E c \in {"none", "bad"} : settings' = [settings EXCEPT !.cert = c]
    BY DEF SaveField
  <1>4. CASE settings' = settings
    BY <1>2, <1>4
  <1>5. ASSUME NEW c \in {"none", "bad"}, settings' = [settings EXCEPT !.cert = c] PROVE SettingsOK(settings')
    BY <1>2, <1>5, FieldFacts DEF SettingsOK, Certs
  <1>6. CASE field \in DOMAIN form /\ settings' = [settings EXCEPT ![field] = form[field]]
    <2>1. DOMAIN settings' = FieldSet
      BY <1>2, <1>6 DEF SettingsOK
    <2>2. settings'.port \in Ports
      <3>1. CASE field = "port"
        BY <1>1, <1>2, <1>6, <3>1, FieldFacts DEF SettingsOK, IsForm
      <3>2. CASE field # "port"
        BY <1>2, <1>6, <3>2, FieldFacts DEF SettingsOK
      <3> QED BY <3>1, <3>2
    <2>3. settings'.suffix \in Suffixes
      <3>1. CASE field = "suffix"
        <4>1. form.suffix \in Suffixes
          BY <1>1, <1>2, <1>6, <3>1, FormSuffix
        <4> QED BY <1>2, <1>6, <3>1, <4>1, FieldFacts DEF SettingsOK
      <3>2. CASE field # "suffix"
        BY <1>2, <1>6, <3>2, FieldFacts DEF SettingsOK
      <3> QED BY <3>1, <3>2
    <2>4. settings'.cert \in Certs
      <3>1. CASE field = "cert"
        BY <1>1, <1>2, <1>6, <3>1, FieldFacts DEF SettingsOK, IsForm
      <3>2. CASE field # "cert"
        BY <1>2, <1>6, <3>2, FieldFacts DEF SettingsOK
      <3> QED BY <3>1, <3>2
    <2> QED BY <2>1, <2>2, <2>3, <2>4 DEF SettingsOK
  <1> QED BY <1>3, <1>4, <1>5, <1>6

LEMMA SaveFieldType ==
    ASSUME TypeInv, NEW r \in Requesters, SaveField(r) PROVE TypeInv'
  <1>1. SettingsOK(settings)'
    BY FieldWritten DEF SettingsOK
  <1>2. events' \in 0..MaxEvents /\ refused' \in BOOLEAN
    <2>1. events \in 0..MaxEvents /\ refused \in BOOLEAN
      BY DEF TypeInv, BaseInv
    <2>2. events' = events \/ (events < MaxEvents /\ events' = events + 1)
      BY DEF SaveField, Happens
    <2>3. refused' = refused \/ refused' = TRUE
      BY DEF SaveField
    <2>4. events' \in 0..MaxEvents
      BY <2>1, <2>2, SubScenarios
    <2>5. refused' \in BOOLEAN
      BY <2>1, <2>3
    <2> QED BY <2>4, <2>5
  <1>3. BaseInv'
    BY <1>1, <1>2 DEF TypeInv, BaseInv, SaveField, admin, servers
  <1>4. pc[r].at = "save" /\ pc[r].k <= 5
    BY FieldFacts DEF SaveField, At
  <1>5. PICK p : p = pc[r]
    OBVIOUS
  <1>6. /\ p = [at |-> "save", form |-> p.form, k |-> p.k] /\ p.k \in 1..6
        /\ IsForm(p.form) /\ p.form \in sc.forms
    BY <1>4, <1>5, FieldFacts DEF TypeInv, PcInv, ReqOK
  <1>7. PICK rec : pc' = [pc EXCEPT ![r] = rec] /\ (rec = Idle \/ rec = [p EXCEPT !.k = @ + 1])
    BY <1>5 DEF SaveField, Goto
  <1>8. ReqOK(rec) /\ rec.at \in {"idle", "save"}
    <2>1. CASE rec = Idle
      BY <2>1, IdleOK
    <2>2. CASE rec = [p EXCEPT !.k = @ + 1]
      <3>1. rec = [at |-> "save", form |-> p.form, k |-> p.k + 1]
        BY <1>6, <2>2
      <3>2. p.k + 1 \in 1..6
        BY <1>4, <1>5, <1>6
      <3> QED BY <1>6, <3>1, <3>2, FieldFacts DEF ReqOK, Stages
    <2> QED BY <1>7, <2>1, <2>2
  <1>9. sc' = sc /\ UNCHANGED servers
    BY DEF SaveField, admin
  <1> QED BY <1>3, <1>7, <1>8, <1>9, PlainStep

LEMMA SavedType ==
    ASSUME TypeInv, NEW r \in Requesters, Saved(r) PROVE TypeInv'
  <1>1. BaseInv'
    BY DEF TypeInv, BaseInv, Saved, admin, servers
  <1>2. PICK rec : rec = [at |-> "take", why |-> "save"]
    OBVIOUS
  <1>3. ReqOK(rec)
    BY <1>2 DEF ReqOK, Stages
  <1>4. pc' = [pc EXCEPT ![r] = rec] /\ sc' = sc /\ UNCHANGED servers
    BY <1>2 DEF Saved, Goto, Wait, admin
  <1> QED BY <1>1, <1>2, <1>3, <1>4, PlainStep

LEMMA IssueType ==
    ASSUME TypeInv, NEW r \in Requesters, Issue(r) PROVE TypeInv'
  <1>1. BaseInv'
    BY DEF TypeInv, BaseInv, Issue, servers
  <1>2. PICK rec : rec = [at |-> "read", why |-> "issue"]
    OBVIOUS
  <1>3. ReqOK(rec)
    BY <1>2 DEF ReqOK, Stages
  <1>4. pc' = [pc EXCEPT ![r] = rec] /\ sc' = sc /\ UNCHANGED servers
    BY <1>2 DEF Issue, Goto
  <1> QED BY <1>1, <1>2, <1>3, <1>4, PlainStep

LEMMA OrderType ==
    ASSUME TypeInv, NEW r \in Requesters, Order(r) PROVE TypeInv'
  <1>1. BaseInv'
    BY DEF TypeInv, BaseInv, Order, admin, servers
  <1>2. PICK rec : pc' = [pc EXCEPT ![r] = rec] /\ (rec = Idle \/ rec = [at |-> "take", why |-> "save"])
    BY DEF Order, Goto, Wait
  <1>3. ReqOK(rec) /\ rec.at \in {"idle", "take"}
    BY <1>2, IdleOK DEF ReqOK, Stages
  <1>4. sc' = sc /\ UNCHANGED servers
    BY DEF Order, admin
  <1> QED BY <1>1, <1>2, <1>3, <1>4, PlainStep

\* What the settings said is a value of its own from here on.
LEMMA ReadType ==
    ASSUME TypeInv, NEW r \in Requesters, Read(r) PROVE TypeInv'
  <1>1. BaseInv'
    BY DEF TypeInv, BaseInv, Read, admin, servers
  <1>2. PICK set, why : set = settings /\ why = pc[r].why
    OBVIOUS
  <1>3. why \in {"save", "issue"} /\ SettingsOK(set)
    BY <1>2 DEF TypeInv, BaseInv, PcInv, ReqOK, Read, At
  <1>4. PICK rec : pc' = [pc EXCEPT ![r] = rec] /\ (rec = Idle \/ rec = [at |-> "reload", why |-> why, set |-> set])
    BY <1>2 DEF Read, Goto
  <1>5. ReqOK(rec) /\ rec.at \in {"idle", "reload"}
    <2>1. CASE rec = Idle
      BY <2>1, IdleOK
    <2>2. CASE rec = [at |-> "reload", why |-> why, set |-> set]
      BY <1>3, <2>2 DEF ReqOK, Stages
    <2> QED BY <1>4, <2>1, <2>2
  <1>6. sc' = sc /\ UNCHANGED servers
    BY DEF Read, admin
  <1> QED BY <1>1, <1>4, <1>5, <1>6, PlainStep

\* What follows the provider.
LEMMA ReloadedOK ==
    ASSUME NEW why \in {"save", "issue"}, NEW set, SettingsOK(set), NEW rec,
           rec = [at |-> IF why = "issue" THEN "order" ELSE "build", why |-> why, set |-> set]
    PROVE  ReqOK(rec) /\ rec.at \in {"order", "build"}
  <1>1. CASE why = "issue"
    BY <1>1 DEF ReqOK, Stages
  <1>2. CASE why = "save"
    BY <1>2 DEF ReqOK, Stages
  <1> QED BY <1>1, <1>2

LEMMA ReloadInvalidType ==
    ASSUME TypeInv, NEW r \in Requesters, ReloadInvalid(r) PROVE TypeInv'
  <1>1. BaseInv'
    BY DEF TypeInv, BaseInv, ReloadInvalid, admin, servers
  <1>2. PICK set, why : set = pc[r].set /\ why = pc[r].why
    OBVIOUS
  <1>3. why \in {"save", "issue"} /\ SettingsOK(set)
    BY <1>2 DEF TypeInv, PcInv, ReqOK, ReloadInvalid, At
  <1>4. PICK rec : /\ pc' = [pc EXCEPT ![r] = rec]
                   /\ \/ rec = Idle
                      \/ rec = [at |-> IF why = "issue" THEN "order" ELSE "build", why |-> why, set |-> set]
    BY <1>2 DEF ReloadInvalid, Goto, Reloaded
  <1>5. ReqOK(rec) /\ rec.at \in {"idle", "order", "build"}
    BY <1>3, <1>4, IdleOK, ReloadedOK
  <1>6. sc' = sc /\ UNCHANGED servers
    BY DEF ReloadInvalid, admin
  <1> QED BY <1>1, <1>4, <1>5, <1>6, PlainStep

-----------------------------------------------------------------------------
(* The steps that touch servers *)

\* A held server exists, and is not the one others find.
LEMMA HeldFacts ==
    ASSUME TypeInv, NEW q \in Requesters
    PROVE  /\ Old(q) # Nil =>
                /\ Old(q) \in Servers /\ srv[Old(q)] \in Served /\ srv[Old(q)].st \in Begun \union {"new"}
                /\ Old(q) \notin {subSrv, acmeSrv}
                /\ \/ At(q, "shut") /\ srv[Old(q)].kind = "sub" /\ srv[Old(q)].st \in Begun
                   \/ At(q, "reloadShut") /\ srv[Old(q)].kind = "acme"
           /\ New(q) # Nil =>
                /\ New(q) \in Servers /\ srv[New(q)] \in Served /\ srv[New(q)].st \in {"new", "closed"}
                /\ New(q) # subSrv
                /\ \/ At(q, "publish") /\ srv[New(q)].kind = "sub" /\ srv[New(q)].st = "new"
                   \/ pc[q].at \in {"reloadShut", "reloadStart"} /\ srv[New(q)].kind = "acme"
  <1>1. OldOK(q) /\ NewOK(q) /\ PublishedInv
    BY DEF TypeInv, HeldInv
  <1>2. Old(q) # Nil => At(q, "shut") \/ At(q, "reloadShut")
    BY DEF Old, At
  <1>3. New(q) # Nil => At(q, "publish") \/ At(q, "reloadStart") \/ At(q, "reloadShut")
    BY DEF New, At
  <1>4. CASE At(q, "shut") /\ Old(q) # Nil
    BY <1>1, <1>3, <1>4 DEF OldOK, NewOK, PublishedInv, Serving, Begun, At
  <1>5. CASE At(q, "reloadShut")
    BY <1>1, <1>5 DEF OldOK, NewOK, PublishedInv, Serving, Begun, At
  <1>6. CASE At(q, "publish") \/ At(q, "reloadStart")
    BY <1>1, <1>6 DEF OldOK, NewOK, PublishedInv, Serving, Begun, At, Old
  <1> QED BY <1>2, <1>3, <1>4, <1>5, <1>6

LEMMA FreeFacts ==
    ASSUME TypeInv, NEW s \in Free
    PROVE  /\ s \in Servers /\ srv[s] = Nil /\ s # Nil
           /\ s # subSrv /\ s # acmeSrv
           /\ \A q \in Requesters : s # Old(q) /\ s # New(q)
  <1>1. /\ s \in Servers /\ srv[s] = Nil /\ s # Nil
        /\ \A q \in Requesters : s # Old(q) /\ s # New(q)
    BY SubNil DEF Free
  <1>2. s # subSrv /\ s # acmeSrv
    BY <1>1, SubNil DEF TypeInv, PublishedInv, Serving
  <1> QED BY <1>1, <1>2

LEMMA OneServer ==
    ASSUME TypeInv, NEW s \in Servers, NEW v \in Served \union {Nil}, srv' = [srv EXCEPT ![s] = v]
    PROVE  /\ srv' \in [Servers -> Served \union {Nil}]
           /\ srv'[s] = v
           /\ \A x \in Servers : x # s => srv'[x] = srv[x]
  BY DEF TypeInv, BaseInv

\* What the steps below have to show: the base, the published servers and what requests hold, once
\* it is known which servers changed.
LEMMA HeldKept ==
    ASSUME TypeInv, NEW q \in Requesters,
           pc'[q] = pc[q],
           Old(q) # Nil => srv'[Old(q)] = srv[Old(q)] /\ Old(q) # subSrv' /\ Old(q) # acmeSrv',
           New(q) # Nil => srv'[New(q)] = srv[New(q)]
    PROVE  OldOK(q)' /\ NewOK(q)'
  <1>1. Old(q)' = Old(q) /\ New(q)' = New(q) /\ \A w : At(q, w)' = At(q, w)
    BY DEF Old, New, At
  <1>2. OldOK(q) /\ NewOK(q)
    BY DEF TypeInv, HeldInv
  <1>3. OldOK(q)'
    BY <1>1, <1>2 DEF OldOK, Serving
  <1>4. NewOK(q)'
    <2>1. At(q, "publish") \/ At(q, "reloadStart") => New(q) # Nil
      BY <1>2, SubNil DEF NewOK, Serving
    <2> QED BY <1>1, <1>2, <2>1 DEF NewOK, Serving
  <1> QED BY <1>3, <1>4

LEMMA TakeType ==
    ASSUME TypeInv, NEW r \in Requesters, Take(r) PROVE TypeInv'
  <1>1. BaseInv'
    BY DEF TypeInv, BaseInv, Take, admin
  <1>2. PICK old : old = subSrv
    OBVIOUS
  <1>3. PICK rec : rec = [at |-> "shut", why |-> "save", old |-> old]
    OBVIOUS
  <1>4. ReqOK(rec)
    BY <1>3 DEF ReqOK, Stages
  <1>5. pc' = [pc EXCEPT ![r] = rec] /\ sc' = sc
    <2>1. pc[r].at = "take" /\ ReqOK(pc[r])
      BY DEF Take, At, TypeInv, PcInv
    <2>2. pc[r].why = "save"
      BY <2>1 DEF ReqOK
    <2> QED BY <1>2, <1>3, <2>2 DEF Take, Goto, admin
  <1>6. /\ PcInv' /\ pc'[r] = rec
        /\ \A q \in Requesters : q # r => pc'[q] = pc[q] /\ Old(q)' = Old(q) /\ New(q)' = New(q)
    BY <1>4, <1>5, OneRequest DEF TypeInv
  <1>7. Old(r)' = old /\ New(r)' = Nil /\ pc'[r].at = "shut"
    BY <1>3, <1>6 DEF Old, New
  <1>8. subSrv' = Nil /\ acmeSrv' = acmeSrv /\ srv' = srv /\ prov' = prov
    BY DEF Take
  <1>9. PublishedInv'
    BY <1>8 DEF TypeInv, PublishedInv, Serving
  <1>10. ASSUME NEW q \in Requesters PROVE OldOK(q)' /\ NewOK(q)'
    <2>1. CASE q = r
      BY <1>2, <1>7, <1>8, <2>1 DEF TypeInv, PublishedInv, OldOK, NewOK, Serving, At
    <2>2. CASE q # r
      BY <1>6, <1>8, <2>2, HeldFacts, HeldKept
    <2> QED BY <2>1, <2>2
  <1>11. ApartInv'
    <2>1. \A q \in Requesters : Old(q) # Nil => Old(q) # old
      BY <1>2, HeldFacts
    <2> QED BY <1>6, <1>7, <2>1 DEF TypeInv, ApartInv
  <1> QED BY <1>1, <1>6, <1>9, <1>10, <1>11 DEF TypeInv, HeldInv

\* Shutdown marks a server whose goroutine has not run, and ends any other.
LEMMA CloseIs ==
    ASSUME TypeInv, NEW s \in Servers, srv[s] \in Served, srv' = Close(s)
    PROVE  \E v \in Served \union {Nil} :
              /\ srv' = [srv EXCEPT ![s] = v]
              /\ \/ srv[s].st = "new" /\ v \in Served /\ v.kind = srv[s].kind /\ v.st = "closed"
                 \/ srv[s].st # "new" /\ v = Nil
  <1>1. srv[s] # Nil
    BY ServedFacts
  <1>2. CASE srv[s].st = "new"
    <2>1. PICK v : v = [srv[s] EXCEPT !.st = "closed"]
      OBVIOUS
    <2>2. v \in Served /\ v.kind = srv[s].kind /\ v.st = "closed"
      BY <2>1, StateOnly DEF States
    <2>3. srv' = [srv EXCEPT ![s] = v]
      BY <1>1, <1>2, <2>1 DEF Close
    <2> QED BY <1>2, <2>2, <2>3
  <1>3. CASE srv[s].st # "new"
    BY <1>3 DEF Close
  <1> QED BY <1>2, <1>3

\* The goroutine begins, unless Shutdown came before.
LEMMA StartedIs ==
    ASSUME TypeInv, NEW s \in Servers, srv[s] \in Served, srv' = Started(s)
    PROVE  \E v \in Served \union {Nil} :
              /\ srv' = [srv EXCEPT ![s] = v]
              /\ \/ /\ srv[s].st = "new" /\ v = [srv[s] EXCEPT !.st = "starting"]
                    /\ v \in Served /\ v.kind = srv[s].kind /\ v.st = "starting"
                 \/ srv[s].st # "new" /\ v = Nil
  <1>1. CASE srv[s].st = "new"
    <2>1. PICK v : v = [srv[s] EXCEPT !.st = "starting"]
      OBVIOUS
    <2>2. v \in Served /\ v.kind = srv[s].kind /\ v.st = "starting"
      BY <2>1, StateOnly DEF States
    <2>3. srv' = [srv EXCEPT ![s] = v]
      BY <1>1, <2>1 DEF Started
    <2> QED BY <1>1, <2>1, <2>2, <2>3
  <1>2. CASE srv[s].st # "new"
    BY <1>2 DEF Started
  <1> QED BY <1>1, <1>2

\* A server that is stopped is nobody's to find or to stop; one request may still have it to start.
LEMMA StopKeeps ==
    ASSUME TypeInv, NEW r \in Requesters, Old(r) # Nil, srv' = Close(Old(r)),
           UNCHANGED <<prov, subSrv, acmeSrv>>
    PROVE  /\ srv' \in [Servers -> Served \union {Nil}]
           /\ PublishedInv'
           /\ \A x \in Servers : x # Old(r) => srv'[x] = srv[x]
           /\ \A q \in Requesters : q # r /\ pc'[q] = pc[q] => OldOK(q)' /\ NewOK(q)'
  <1>1. PICK s : s = Old(r)
    OBVIOUS
  <1>2. /\ s \in Servers /\ srv[s] \in Served /\ srv[s].st \in Begun \union {"new"} /\ s \notin {subSrv, acmeSrv}
        /\ s # Nil
    BY <1>1, HeldFacts
  <1>3. srv' = Close(s)
    BY <1>1
  <1>4. PICK v \in Served \union {Nil} :
            /\ srv' = [srv EXCEPT ![s] = v]
            /\ \/ srv[s].st = "new" /\ v \in Served /\ v.kind = srv[s].kind /\ v.st = "closed"
               \/ srv[s].st # "new" /\ v = Nil
    BY <1>2, <1>3, CloseIs
  <1>5. /\ srv' \in [Servers -> Served \union {Nil}] /\ srv'[s] = v
        /\ \A x \in Servers : x # s => srv'[x] = srv[x]
    BY <1>2, <1>4, OneServer
  <1>6. PublishedInv'
    BY <1>2, <1>5 DEF TypeInv, PublishedInv, Serving
  <1>7. ASSUME NEW q \in Requesters, q # r, pc'[q] = pc[q] PROVE OldOK(q)' /\ NewOK(q)'
    <2>1. Old(q) # Nil => Old(q) # s /\ Old(q) \in Servers /\ Old(q) \notin {subSrv, acmeSrv}
      BY <1>1, <1>2, <1>7, HeldFacts DEF TypeInv, ApartInv
    <2>2. CASE New(q) = Nil \/ New(q) # s
      <3>1. New(q) # Nil => New(q) \in Servers /\ New(q) # s
        BY <2>2, HeldFacts
      <3>2. Old(q) # Nil => srv'[Old(q)] = srv[Old(q)] /\ Old(q) # subSrv' /\ Old(q) # acmeSrv'
        BY <1>5, <2>1
      <3>3. New(q) # Nil => srv'[New(q)] = srv[New(q)]
        BY <1>5, <3>1
      <3> QED BY <1>7, <3>2, <3>3, HeldKept
    <2>3. CASE New(q) = s /\ s # Nil
      <3>1. /\ srv[s].st = "new" /\ srv[s].kind = "acme" /\ pc[q].at \in {"reloadShut", "reloadStart"}
            /\ v \in Served /\ v.kind = srv[s].kind /\ v.st = "closed"
        <4>1. srv[s].st \in {"new", "closed"}
          BY <2>3, HeldFacts
        <4>2. srv[s].st = "new"
          BY <1>2, <4>1 DEF Begun
        <4>3. At(r, "shut") => srv[s].st # "new"
          BY <1>1, <1>2, HeldFacts DEF Begun, At
        <4>4. srv[s].kind = "acme"
          BY <1>1, <1>2, <4>2, <4>3, HeldFacts
        <4> QED BY <1>4, <2>3, <4>2, <4>4, HeldFacts
      <3>2. OldOK(q) /\ NewOK(q)
        BY DEF TypeInv, HeldInv
      <3>3. Old(q)' = Old(q) /\ New(q)' = New(q) /\ pc'[q].at = pc[q].at
        BY <1>7 DEF Old, New
      <3>4. NewOK(q)'
        BY <1>2, <1>5, <2>3, <3>1, <3>3 DEF NewOK, Serving, At
      <3>5. OldOK(q)'
        BY <1>5, <2>1, <3>2, <3>3 DEF OldOK, Serving, At
      <3> QED BY <3>4, <3>5
    <2> QED BY <1>2, <2>2, <2>3
  <1> QED BY <1>1, <1>5, <1>6, <1>7

LEMMA ShutType ==
    ASSUME TypeInv, NEW r \in Requesters, Shut(r) PROVE TypeInv'
  <1>1. pc[r].at = "shut" /\ ReqOK(pc[r]) /\ Old(r) = pc[r].old
    BY DEF TypeInv, PcInv, Shut, At, Old
  <1>2. PICK rec : rec = [at |-> "read", why |-> "save"]
    OBVIOUS
  <1>3. ReqOK(rec)
    BY <1>2 DEF ReqOK, Stages
  <1>4. pc[r].why = "save"
    BY <1>1 DEF ReqOK
  <1>5. pc' = [pc EXCEPT ![r] = rec] /\ sc' = sc /\ UNCHANGED <<prov, subSrv, acmeSrv>>
    BY <1>2, <1>4 DEF Shut, Goto, admin
  <1>6. /\ PcInv' /\ pc'[r] = rec
        /\ \A q \in Requesters : q # r => pc'[q] = pc[q] /\ Old(q)' = Old(q) /\ New(q)' = New(q)
    BY <1>3, <1>5, OneRequest DEF TypeInv
  <1>7. Old(r)' = Nil /\ New(r)' = Nil /\ pc'[r].at = "read"
    BY <1>2, <1>6 DEF Old, New
  <1>8. ApartInv'
    BY <1>6, <1>7 DEF TypeInv, ApartInv
  <1>9. OldOK(r)' /\ NewOK(r)'
    BY <1>7 DEF OldOK, NewOK, At
  <1>10. /\ srv' \in [Servers -> Served \union {Nil}] /\ PublishedInv'
         /\ \A q \in Requesters : q # r => OldOK(q)' /\ NewOK(q)'
    <2>1. CASE Old(r) = Nil
      <3>1. srv' = srv
        BY <1>1, <2>1 DEF Shut
      <3>2. PublishedInv'
        BY <1>5, <3>1 DEF TypeInv, PublishedInv, Serving
      <3>3. \A q \in Requesters : q # r => OldOK(q)' /\ NewOK(q)'
        BY <1>5, <1>6, <3>1, HeldFacts, HeldKept
      <3> QED BY <3>1, <3>2, <3>3 DEF TypeInv, BaseInv
    <2>2. CASE Old(r) # Nil
      <3>1. srv' = Close(Old(r))
        BY <1>1, <2>2 DEF Shut
      <3> QED BY <1>5, <1>6, <2>2, <3>1, StopKeeps
    <2> QED BY <2>1, <2>2
  <1>11. BaseInv'
    BY <1>10 DEF TypeInv, BaseInv, Shut, admin
  <1> QED BY <1>6, <1>8, <1>9, <1>10, <1>11 DEF TypeInv, HeldInv

\* What ReloadShut leaves to do, and that it is well formed.
LEMMA ReloadShutGoes ==
    ASSUME TypeInv, NEW r \in Requesters, ReloadShut(r)
    PROVE  /\ pc[r].at = "reloadShut" /\ Old(r) = pc[r].old /\ New(r) = pc[r].new
           /\ \E rec : /\ pc' = [pc EXCEPT ![r] = rec] /\ ReqOK(rec)
                       /\ rec.set = pc[r].set /\ rec.why = pc[r].why
                       /\ \/ New(r) = Nil /\ rec.at \in {"order", "build"}
                          \/ New(r) # Nil /\ rec.at = "reloadStart" /\ rec.new = New(r)
  <1>1. pc[r].at = "reloadShut" /\ ReqOK(pc[r]) /\ Old(r) = pc[r].old /\ New(r) = pc[r].new
    BY DEF TypeInv, PcInv, ReloadShut, At, Old, New
  <1>2. PICK set, why, new : set = pc[r].set /\ why = pc[r].why /\ new = pc[r].new
    OBVIOUS
  <1>3. why \in {"save", "issue"} /\ SettingsOK(set)
    BY <1>1, <1>2 DEF ReqOK
  <1>4. CASE new = Nil
    <2>1. PICK rec : rec = [at |-> IF why = "issue" THEN "order" ELSE "build", why |-> why, set |-> set]
      OBVIOUS
    <2>2. ReqOK(rec) /\ rec.at \in {"order", "build"} /\ rec.set = set /\ rec.why = why
      BY <1>3, <2>1, ReloadedOK
    <2>3. pc' = [pc EXCEPT ![r] = rec]
      BY <1>2, <1>4, <2>1 DEF ReloadShut, Goto, Reloaded
    <2> QED BY <1>1, <1>2, <1>4, <2>2, <2>3
  <1>5. CASE new # Nil
    <2>1. PICK rec : rec = [at |-> "reloadStart", why |-> why, set |-> set, new |-> new]
      OBVIOUS
    <2>2. ReqOK(rec)
      BY <1>3, <2>1 DEF ReqOK, Stages
    <2>3. pc' = [pc EXCEPT ![r] = rec]
      BY <1>2, <1>5, <2>1 DEF ReloadShut, Goto
    <2>4. rec.at = "reloadStart" /\ rec.set = set /\ rec.why = why /\ rec.new = new
      BY <2>1
    <2> QED BY <1>1, <1>2, <1>5, <2>2, <2>3, <2>4
  <1> QED BY <1>4, <1>5

LEMMA ReloadShutType ==
    ASSUME TypeInv, NEW r \in Requesters, ReloadShut(r) PROVE TypeInv'
  <1>1. /\ pc[r].at = "reloadShut" /\ Old(r) = pc[r].old /\ New(r) = pc[r].new
        /\ sc' = sc /\ UNCHANGED <<prov, subSrv, acmeSrv>>
    BY ReloadShutGoes DEF ReloadShut, admin
  <1>2. PICK rec : /\ pc' = [pc EXCEPT ![r] = rec] /\ ReqOK(rec)
                   /\ \/ New(r) = Nil /\ rec.at \in {"order", "build"}
                      \/ New(r) # Nil /\ rec.at = "reloadStart" /\ rec.new = New(r)
    BY ReloadShutGoes
  <1>3. /\ PcInv' /\ pc'[r] = rec
        /\ \A q \in Requesters : q # r => pc'[q] = pc[q] /\ Old(q)' = Old(q) /\ New(q)' = New(q)
    BY <1>1, <1>2, OneRequest DEF TypeInv
  <1>4. Old(r)' = Nil /\ New(r)' = New(r) /\ pc'[r].at \notin {"shut", "reloadShut", "publish"}
    BY <1>2, <1>3 DEF Old, New
  <1>5. ApartInv'
    BY <1>3, <1>4 DEF TypeInv, ApartInv
  <1>6. /\ srv' \in [Servers -> Served \union {Nil}] /\ PublishedInv'
        /\ \A q \in Requesters : q # r => OldOK(q)' /\ NewOK(q)'
        /\ New(r) # Nil => Serving(New(r), "acme", {"new", "closed"}) /\ New(r) \in Servers
        /\ New(r) # Nil /\ New(r) # Old(r) => srv'[New(r)] = srv[New(r)]
    <2>1. New(r) # Nil => Serving(New(r), "acme", {"new", "closed"}) /\ New(r) \in Servers
      BY <1>1 DEF TypeInv, HeldInv, NewOK, At, Serving
    <2>2. CASE Old(r) = Nil
      <3>1. srv' = srv
        BY <1>1, <2>2 DEF ReloadShut
      <3>2. PublishedInv'
        BY <1>1, <3>1 DEF TypeInv, PublishedInv, Serving
      <3>3. \A q \in Requesters : q # r => OldOK(q)' /\ NewOK(q)'
        BY <1>1, <1>3, <3>1, HeldFacts, HeldKept
      <3> QED BY <2>1, <3>1, <3>2, <3>3 DEF TypeInv, BaseInv
    <2>3. CASE Old(r) # Nil
      <3>1. srv' = Close(Old(r))
        BY <1>1, <2>3 DEF ReloadShut
      <3> QED BY <1>1, <1>3, <2>1, <2>3, <3>1, StopKeeps
    <2> QED BY <2>2, <2>3
  <1>7. OldOK(r)' /\ NewOK(r)'
    <2>1. OldOK(r)'
      BY <1>4 DEF OldOK, At
    <2>2. CASE New(r) = Nil
      BY <1>2, <1>3, <1>4, <2>1, <2>2 DEF NewOK, At
    <2>3. CASE New(r) # Nil /\ New(r) # Old(r)
      BY <1>4, <1>6, <2>1, <2>3 DEF NewOK, At, Serving
    <2>4. CASE New(r) # Nil /\ New(r) = Old(r)
      <3>1. PICK s : s = Old(r)
        OBVIOUS
      <3>2. srv' = Close(s) /\ s \in Servers /\ srv[s] \in Served
        BY <1>1, <1>6, <2>4, <3>1 DEF ReloadShut, Serving
      <3>3. srv[s].st = "new" /\ srv[s].kind = "acme"
        BY <1>6, <2>4, <3>1, HeldFacts DEF Serving, Begun
      <3>4. PICK v \in Served \union {Nil} :
                /\ srv' = [srv EXCEPT ![s] = v]
                /\ \/ srv[s].st = "new" /\ v \in Served /\ v.kind = srv[s].kind /\ v.st = "closed"
                   \/ srv[s].st # "new" /\ v = Nil
        BY <3>2, CloseIs
      <3>5. srv'[s] = v
        BY <3>2, <3>4, OneServer
      <3> QED BY <1>4, <2>1, <2>4, <3>1, <3>2, <3>3, <3>4, <3>5 DEF NewOK, At, Serving
    <2> QED BY <2>1, <2>2, <2>3, <2>4
  <1>8. BaseInv'
    BY <1>6 DEF TypeInv, BaseInv, ReloadShut, admin
  <1> QED BY <1>3, <1>5, <1>6, <1>7, <1>8 DEF TypeInv, HeldInv

LEMMA ReloadStartGoes ==
    ASSUME TypeInv, NEW r \in Requesters, ReloadStart(r)
    PROVE  /\ pc[r].at = "reloadStart" /\ New(r) = pc[r].new
           /\ \E rec : /\ pc' = [pc EXCEPT ![r] = rec] /\ ReqOK(rec)
                       /\ rec.set = pc[r].set /\ rec.why = pc[r].why /\ rec.at \in {"order", "build"}
  <1>1. pc[r].at = "reloadStart" /\ ReqOK(pc[r]) /\ New(r) = pc[r].new
    BY DEF TypeInv, PcInv, ReloadStart, At, New
  <1>2. PICK set, why : set = pc[r].set /\ why = pc[r].why
    OBVIOUS
  <1>3. why \in {"save", "issue"} /\ SettingsOK(set)
    BY <1>1, <1>2 DEF ReqOK
  <1>4. PICK rec : rec = [at |-> IF why = "issue" THEN "order" ELSE "build", why |-> why, set |-> set]
    OBVIOUS
  <1>5. ReqOK(rec) /\ rec.at \in {"order", "build"}
    BY <1>3, <1>4, ReloadedOK
  <1>6. rec.set = set /\ rec.why = why
    BY <1>4
  <1>7. pc' = [pc EXCEPT ![r] = rec]
    BY <1>2, <1>4 DEF ReloadStart, Goto, Reloaded
  <1> QED BY <1>1, <1>2, <1>5, <1>6, <1>7

LEMMA ReloadStartType ==
    ASSUME TypeInv, NEW r \in Requesters, ReloadStart(r) PROVE TypeInv'
  <1>1. /\ pc[r].at = "reloadStart" /\ New(r) = pc[r].new
        /\ sc' = sc /\ UNCHANGED <<prov, subSrv, acmeSrv>>
    BY ReloadStartGoes DEF ReloadStart, admin
  <1>2. PICK rec : pc' = [pc EXCEPT ![r] = rec] /\ ReqOK(rec) /\ rec.at \in {"order", "build"}
    BY ReloadStartGoes
  <1>3. /\ PcInv' /\ pc'[r] = rec
        /\ \A q \in Requesters : q # r => pc'[q] = pc[q] /\ Old(q)' = Old(q) /\ New(q)' = New(q)
    BY <1>1, <1>2, OneRequest DEF TypeInv
  <1>4. Old(r)' = Nil /\ New(r)' = Nil /\ pc'[r].at \in {"order", "build"}
    BY <1>2, <1>3 DEF Old, New
  <1>5. ApartInv'
    BY <1>3, <1>4 DEF TypeInv, ApartInv
  <1>6. OldOK(r)' /\ NewOK(r)'
    BY <1>4 DEF OldOK, NewOK, At
  <1>7. PICK s : s = New(r)
    OBVIOUS
  <1>8. s \in Servers /\ srv[s] \in Served /\ srv[s].kind = "acme" /\ srv[s].st \in {"new", "closed"} /\ s # Nil
    BY <1>1, <1>7, SubNil DEF TypeInv, HeldInv, NewOK, At, Serving
  <1>9. srv' = Started(s)
    BY <1>1, <1>7 DEF ReloadStart
  <1>10. PICK v \in Served \union {Nil} :
            /\ srv' = [srv EXCEPT ![s] = v]
            /\ \/ srv[s].st = "new" /\ v \in Served /\ v.kind = srv[s].kind /\ v.st = "starting"
               \/ srv[s].st # "new" /\ v = Nil
    BY <1>8, <1>9, StartedIs
  <1>11. /\ srv' \in [Servers -> Served \union {Nil}] /\ srv'[s] = v
         /\ \A x \in Servers : x # s => srv'[x] = srv[x]
    BY <1>8, <1>10, OneServer
  <1>12. BaseInv'
    BY <1>11 DEF TypeInv, BaseInv, ReloadStart, admin
  <1>13. PublishedInv'
    <2>1. subSrv # s
      BY <1>7, <1>8, HeldFacts
    <2>2. acmeSrv = s => srv[s].st = "new"
      BY <1>8 DEF TypeInv, PublishedInv, Serving, Begun
    <2> QED BY <1>1, <1>8, <1>10, <1>11, <2>1, <2>2 DEF TypeInv, PublishedInv, Serving, Begun
  <1>14. ASSUME NEW q \in Requesters, q # r PROVE OldOK(q)' /\ NewOK(q)'
    <2>1. New(q) # Nil => New(q) # s /\ New(q) \in Servers
      BY <1>7, <1>8, <1>14, HeldFacts DEF TypeInv, ApartInv
    <2>2. CASE Old(q) # s
      BY <1>1, <1>3, <1>11, <1>14, <2>1, <2>2, HeldFacts, HeldKept
    <2>3. CASE Old(q) = s
      <3>1. OldOK(q) /\ NewOK(q) /\ srv[s].st # "closed"
        BY <1>8, <2>3, HeldFacts DEF TypeInv, HeldInv, Begun
      <3>2. v \in Served /\ v.kind = "acme" /\ v.st = "starting"
        BY <1>8, <1>10, <3>1
      <3>3. Old(q)' = s /\ New(q)' = New(q) /\ pc'[q].at = pc[q].at
        BY <1>3, <1>14, <2>3
      <3>4. At(q, "reloadShut") /\ s \notin {subSrv, acmeSrv}
        BY <1>8, <2>3, HeldFacts
      <3>5. OldOK(q)'
        BY <1>1, <1>8, <1>11, <3>2, <3>3, <3>4 DEF OldOK, Serving, At, Begun
      <3>6. NewOK(q)'
        BY <1>11, <2>1, <3>1, <3>3, <3>4 DEF NewOK, Serving, At
      <3> QED BY <3>5, <3>6
    <2> QED BY <2>2, <2>3
  <1> QED BY <1>3, <1>5, <1>6, <1>12, <1>13, <1>14 DEF TypeInv, HeldInv

LEMMA PublishType ==
    ASSUME TypeInv, NEW r \in Requesters, Publish(r) PROVE TypeInv'
  <1>1. /\ pc[r].at = "publish" /\ New(r) = pc[r].new /\ pc' = [pc EXCEPT ![r] = Idle]
        /\ sc' = sc /\ UNCHANGED <<prov, acmeSrv>>
    BY DEF Publish, admin, At, New, Goto
  <1>2. PICK rec : rec = Idle
    OBVIOUS
  <1>3. /\ PcInv' /\ pc'[r] = rec
        /\ \A q \in Requesters : q # r => pc'[q] = pc[q] /\ Old(q)' = Old(q) /\ New(q)' = New(q)
    BY <1>1, <1>2, IdleOK, OneRequest DEF TypeInv
  <1>4. Old(r)' = Nil /\ New(r)' = Nil /\ pc'[r].at = "idle"
    BY <1>2, <1>3, IdleOK DEF Old, New
  <1>5. ApartInv'
    BY <1>3, <1>4 DEF TypeInv, ApartInv
  <1>6. OldOK(r)' /\ NewOK(r)'
    BY <1>4 DEF OldOK, NewOK, At
  <1>7. PICK s : s = New(r)
    OBVIOUS
  <1>8. s \in Servers /\ srv[s] \in Served /\ srv[s].kind = "sub" /\ srv[s].st = "new" /\ s # Nil
    BY <1>1, <1>7, SubNil DEF TypeInv, HeldInv, NewOK, At, Serving
  <1>9. srv' = Started(s) /\ subSrv' = s
    BY <1>1, <1>7 DEF Publish
  <1>10. PICK v \in Served : srv' = [srv EXCEPT ![s] = v] /\ v.kind = "sub" /\ v.st = "starting"
    BY <1>8, <1>9, StartedIs
  <1>11. /\ srv' \in [Servers -> Served \union {Nil}] /\ srv'[s] = v
         /\ \A x \in Servers : x # s => srv'[x] = srv[x]
    BY <1>8, <1>10, OneServer
  <1>12. BaseInv'
    BY <1>11 DEF TypeInv, BaseInv, Publish, admin
  <1>13. PublishedInv'
    <2>1. acmeSrv # s
      BY <1>8 DEF TypeInv, PublishedInv, Serving
    <2> QED BY <1>1, <1>8, <1>9, <1>10, <1>11, <2>1 DEF TypeInv, PublishedInv, Serving, Begun
  <1>14. ASSUME NEW q \in Requesters, q # r PROVE OldOK(q)' /\ NewOK(q)'
    <2>1. New(q) # Nil => New(q) # s /\ New(q) \in Servers
      BY <1>7, <1>8, <1>14, HeldFacts DEF TypeInv, ApartInv
    <2>2. Old(q) # Nil => Old(q) # s
      BY <1>8, HeldFacts DEF Begun
    <2> QED BY <1>1, <1>3, <1>9, <1>11, <1>14, <2>1, <2>2, HeldFacts, HeldKept
  <1> QED BY <1>3, <1>5, <1>6, <1>12, <1>13, <1>14 DEF TypeInv, HeldInv

\* What Reload leaves to do; the server it makes is new.
LEMMA ReloadGoes ==
    ASSUME TypeInv, NEW r \in Requesters, Reload(r)
    PROVE  /\ pc[r].at = "reload" /\ sc' = sc /\ UNCHANGED <<subSrv, settings>>
           /\ prov' = Given(pc[r].set)
           /\ \E new, rec :
                /\ acmeSrv' = new /\ pc' = [pc EXCEPT ![r] = rec] /\ ReqOK(rec)
                /\ rec.at = "reloadShut" /\ rec.old = acmeSrv /\ rec.new = new
                /\ rec.set = pc[r].set /\ rec.why = pc[r].why
                /\ \/ Acme(prov') /\ new \in Free
                      /\ \E v \in Served : /\ v.kind = "acme" /\ v.st = "new"
                                           /\ srv' = [srv EXCEPT ![new] = v]
                   \/ ~ Acme(prov') /\ new = Nil /\ srv' = srv
  <1>1. pc[r].at = "reload" /\ ReqOK(pc[r])
    BY DEF TypeInv, PcInv, Reload, At
  <1>2. PICK set, why, old, new : set = pc[r].set /\ why = pc[r].why /\ old = acmeSrv /\ new = acmeSrv'
    OBVIOUS
  <1>3. why \in {"save", "issue"} /\ SettingsOK(set)
    BY <1>1, <1>2 DEF ReqOK
  <1>4. PICK rec : rec = [at |-> "reloadShut", why |-> why, set |-> set, old |-> old, new |-> new]
    OBVIOUS
  <1>5. ReqOK(rec)
    BY <1>3, <1>4 DEF ReqOK, Stages
  <1>6. pc' = [pc EXCEPT ![r] = rec]
    BY <1>2, <1>4 DEF Reload, Goto
  <1>7. rec.at = "reloadShut" /\ rec.old = old /\ rec.new = new /\ rec.set = set /\ rec.why = why
    BY <1>4
  <1>8. sc' = sc /\ UNCHANGED <<subSrv, settings>> /\ prov' = Given(set)
    BY <1>2 DEF Reload, admin
  <1>9. \/ Acme(prov') /\ new \in Free
           /\ \E v \in Served : /\ v.kind = "acme" /\ v.st = "new"
                                /\ srv' = [srv EXCEPT ![new] = v]
        \/ ~ Acme(prov') /\ new = Nil /\ srv' = srv
    <2>1. CASE Acme(prov')
      <3>1. PICK s \in Free :
                acmeSrv' = s /\ srv' = [srv EXCEPT ![s] = [kind |-> "acme", port |-> ChallengePort, st |-> "new"]]
        BY <2>1 DEF Reload
      <3>2. PICK v : v = [kind |-> "acme", port |-> ChallengePort, st |-> "new"]
        OBVIOUS
      <3>3. v \in Served /\ v.kind = "acme" /\ v.st = "new"
        BY <3>2 DEF Served, States
      <3> QED BY <1>2, <2>1, <3>1, <3>2, <3>3
    <2>2. CASE ~ Acme(prov')
      BY <1>2, <2>2 DEF Reload
    <2> QED BY <2>1, <2>2
  <1> QED BY <1>1, <1>2, <1>5, <1>6, <1>7, <1>8, <1>9

LEMMA ReloadType ==
    ASSUME TypeInv, NEW r \in Requesters, Reload(r) PROVE TypeInv'
  <1>1. pc[r].at = "reload" /\ sc' = sc /\ UNCHANGED <<subSrv, settings>>
    BY ReloadGoes
  <1>2. PICK new, rec :
            /\ acmeSrv' = new /\ pc' = [pc EXCEPT ![r] = rec] /\ ReqOK(rec)
            /\ rec.at = "reloadShut" /\ rec.old = acmeSrv /\ rec.new = new
            /\ \/ Acme(prov') /\ new \in Free
                  /\ \E v \in Served : /\ v.kind = "acme" /\ v.st = "new"
                                       /\ srv' = [srv EXCEPT ![new] = v]
               \/ ~ Acme(prov') /\ new = Nil /\ srv' = srv
    BY ReloadGoes
  <1>3. /\ PcInv' /\ pc'[r] = rec
        /\ \A q \in Requesters : q # r => pc'[q] = pc[q] /\ Old(q)' = Old(q) /\ New(q)' = New(q)
    BY <1>1, <1>2, OneRequest DEF TypeInv
  <1>4. PICK old : old = acmeSrv
    OBVIOUS
  <1>5. Old(r)' = old /\ New(r)' = new /\ pc'[r].at = "reloadShut"
    BY <1>2, <1>3, <1>4 DEF Old, New
  <1>6. \A q \in Requesters : Old(q) # Nil => Old(q) # old
    BY <1>4, HeldFacts
  <1>7. PublishedInv /\ old # Nil => Serving(old, "acme", Begun \union {"new"})
    BY <1>4 DEF TypeInv, PublishedInv
  <1>8. CASE Acme(prov') /\ new \in Free
    <2>1. PICK v \in Served : v.kind = "acme" /\ v.st = "new" /\ srv' = [srv EXCEPT ![new] = v]
      BY <1>2, <1>8, FreeFacts
    <2>2. /\ new \in Servers /\ srv[new] = Nil /\ new # Nil /\ new # subSrv /\ new # acmeSrv
          /\ \A q \in Requesters : new # Old(q) /\ new # New(q)
      BY <1>8, FreeFacts
    <2>3. /\ srv' \in [Servers -> Served \union {Nil}] /\ srv'[new] = v
          /\ \A x \in Servers : x # new => srv'[x] = srv[x]
      BY <2>1, <2>2, OneServer
    <2>4. BaseInv'
      BY <2>3 DEF TypeInv, BaseInv, Reload, admin
    <2>5. PublishedInv'
      BY <1>1, <1>2, <1>8, <2>1, <2>2, <2>3 DEF TypeInv, PublishedInv, Serving, Begun
    <2>6. ApartInv'
      BY <1>3, <1>5, <1>6, <2>2 DEF TypeInv, ApartInv
    <2>7. OldOK(r)' /\ NewOK(r)'
      <3>1. old # Nil => Serving(old, "acme", Begun \union {"new"}) /\ old # new
        BY <1>4, <1>7, <2>2 DEF TypeInv
      <3>2. OldOK(r)'
        BY <1>2, <1>5, <2>3, <3>1 DEF OldOK, Serving, At
      <3>3. NewOK(r)'
        BY <1>5, <2>1, <2>2, <2>3 DEF NewOK, Serving, At
      <3> QED BY <3>2, <3>3
    <2>8. ASSUME NEW q \in Requesters, q # r PROVE OldOK(q)' /\ NewOK(q)'
      BY <1>1, <1>2, <1>3, <2>2, <2>3, <2>8, HeldFacts, HeldKept
    <2> QED BY <1>3, <2>4, <2>5, <2>6, <2>7, <2>8 DEF TypeInv, HeldInv
  <1>9. CASE ~ Acme(prov') /\ new = Nil /\ srv' = srv
    <2>1. BaseInv'
      BY <1>9 DEF TypeInv, BaseInv, Reload, admin
    <2>2. PublishedInv'
      BY <1>1, <1>2, <1>9 DEF TypeInv, PublishedInv, Serving
    <2>3. ApartInv'
      BY <1>3, <1>5, <1>6, <1>9 DEF TypeInv, ApartInv
    <2>4. OldOK(r)' /\ NewOK(r)'
      <3>1. old # Nil => Serving(old, "acme", Begun \union {"new"}) /\ old # new
        BY <1>4, <1>7, <1>9 DEF TypeInv
      <3>2. OldOK(r)'
        BY <1>2, <1>5, <1>9, <3>1 DEF OldOK, Serving, At
      <3>3. NewOK(r)'
        BY <1>5, <1>9 DEF NewOK, At
      <3> QED BY <3>2, <3>3
    <2>5. ASSUME NEW q \in Requesters, q # r PROVE OldOK(q)' /\ NewOK(q)'
      BY <1>1, <1>2, <1>3, <1>9, <2>5, HeldFacts, HeldKept
    <2> QED BY <1>3, <2>1, <2>2, <2>3, <2>4, <2>5 DEF TypeInv, HeldInv
  <1> QED BY <1>2, <1>8, <1>9

MadeFor(v, set, p) ==
    /\ v.kind = "sub" /\ v.st = "new"
    /\ v.port = set.port /\ v.suffix = set.suffix /\ v.tls = TLSEnabled(p)

\* Build makes a server for what the settings said, and holds it for Publish.
LEMMA BuildGoes ==
    ASSUME TypeInv, NEW r \in Requesters, Build(r)
    PROVE  /\ pc[r].at = "build" /\ sc' = sc /\ UNCHANGED <<prov, subSrv, acmeSrv, settings>>
           /\ \E s \in Free : \E rec : \E v \in Served :
                /\ pc' = [pc EXCEPT ![r] = rec] /\ ReqOK(rec) /\ rec.at = "publish" /\ rec.new = s
                /\ MadeFor(v, pc[r].set, prov) /\ srv' = [srv EXCEPT ![s] = v]
  <1>1. pc[r].at = "build" /\ ReqOK(pc[r])
    BY DEF TypeInv, PcInv, Build, At
  <1>2. PICK set : set = pc[r].set
    OBVIOUS
  <1>3. SettingsOK(set)
    BY <1>1, <1>2 DEF ReqOK
  <1>4. \E b \in BOOLEAN : b = TLSEnabled(prov)
    <2>1. TLSEnabled(prov) \in BOOLEAN
      BY DEF TLSEnabled
    <2> QED BY <2>1
  <1>5. PICK tls \in BOOLEAN : tls = TLSEnabled(prov)
    BY <1>4
  <1>6. PICK s \in Free :
            /\ srv' = [srv EXCEPT ![s] = [kind |-> "sub", port |-> set.port, suffix |-> set.suffix,
                                          tls |-> TLSEnabled(prov), st |-> "new"]]
            /\ pc' = [pc EXCEPT ![r] = [at |-> "publish", new |-> s]]
    BY <1>2 DEF Build, Goto
  <1>7. PICK v : v = [kind |-> "sub", port |-> set.port, suffix |-> set.suffix, tls |-> tls, st |-> "new"]
    OBVIOUS
  <1>8. v \in Served
    BY <1>3, <1>7 DEF Served, States, SettingsOK
  <1>9. v.kind = "sub" /\ v.st = "new" /\ v.port = set.port /\ v.suffix = set.suffix /\ v.tls = tls
    BY <1>7
  <1>10. srv' = [srv EXCEPT ![s] = v]
    BY <1>5, <1>6, <1>7
  <1>11. PICK rec : rec = [at |-> "publish", new |-> s]
    OBVIOUS
  <1>12. ReqOK(rec) /\ rec.at = "publish" /\ rec.new = s
    BY <1>11 DEF ReqOK, Stages
  <1>13. pc' = [pc EXCEPT ![r] = rec]
    BY <1>6, <1>11
  <1>14. sc' = sc /\ UNCHANGED <<prov, subSrv, acmeSrv, settings>>
    BY DEF Build, admin
  <1>15. v.tls = TLSEnabled(prov)
    BY <1>5, <1>9
  <1>16. v.port = pc[r].set.port /\ v.suffix = pc[r].set.suffix
    BY <1>2, <1>9
  <1>17. MadeFor(v, pc[r].set, prov)
    BY <1>9, <1>15, <1>16 DEF MadeFor
  <1>18. \E z \in Free : \E w : \E x \in Served :
            /\ pc' = [pc EXCEPT ![r] = w] /\ ReqOK(w) /\ w.at = "publish" /\ w.new = z
            /\ MadeFor(x, pc[r].set, prov) /\ srv' = [srv EXCEPT ![z] = x]
    <2> WITNESS s \in Free
    <2> WITNESS rec
    <2> WITNESS v \in Served
    <2> QED BY <1>10, <1>12, <1>13, <1>17
  <1> QED BY <1>1, <1>14, <1>18

LEMMA BuildType ==
    ASSUME TypeInv, NEW r \in Requesters, Build(r) PROVE TypeInv'
  <1>1. pc[r].at = "build" /\ sc' = sc /\ UNCHANGED <<prov, subSrv, acmeSrv>>
    BY BuildGoes
  <1>a. PICK s \in Free : \E rec : \E v \in Served :
            /\ pc' = [pc EXCEPT ![r] = rec] /\ ReqOK(rec) /\ rec.at = "publish" /\ rec.new = s
            /\ MadeFor(v, pc[r].set, prov) /\ srv' = [srv EXCEPT ![s] = v]
    BY BuildGoes
  <1>b. PICK rec : \E v \in Served :
            /\ pc' = [pc EXCEPT ![r] = rec] /\ ReqOK(rec) /\ rec.at = "publish" /\ rec.new = s
            /\ MadeFor(v, pc[r].set, prov) /\ srv' = [srv EXCEPT ![s] = v]
    BY <1>a
  <1>c. PICK v \in Served :
            /\ pc' = [pc EXCEPT ![r] = rec] /\ ReqOK(rec) /\ rec.at = "publish" /\ rec.new = s
            /\ MadeFor(v, pc[r].set, prov) /\ srv' = [srv EXCEPT ![s] = v]
    BY <1>b
  <1>2. /\ pc' = [pc EXCEPT ![r] = rec] /\ ReqOK(rec) /\ rec.at = "publish" /\ rec.new = s
        /\ v.kind = "sub" /\ v.st = "new" /\ srv' = [srv EXCEPT ![s] = v]
    BY <1>c DEF MadeFor
  <1>3. /\ PcInv' /\ pc'[r] = rec
        /\ \A q \in Requesters : q # r => pc'[q] = pc[q] /\ Old(q)' = Old(q) /\ New(q)' = New(q)
    BY <1>1, <1>2, OneRequest DEF TypeInv
  <1>4. Old(r)' = Nil /\ New(r)' = s /\ pc'[r].at = "publish"
    BY <1>2, <1>3 DEF Old, New
  <1>5. /\ s \in Servers /\ srv[s] = Nil /\ s # Nil /\ s # subSrv /\ s # acmeSrv
        /\ \A q \in Requesters : s # Old(q) /\ s # New(q)
    BY FreeFacts
  <1>6. /\ srv' \in [Servers -> Served \union {Nil}] /\ srv'[s] = v
        /\ \A x \in Servers : x # s => srv'[x] = srv[x]
    BY <1>2, <1>5, OneServer
  <1>7. BaseInv'
    BY <1>6 DEF TypeInv, BaseInv, Build, admin
  <1>8. PublishedInv'
    BY <1>1, <1>5, <1>6 DEF TypeInv, PublishedInv, Serving
  <1>9. ApartInv'
    BY <1>3, <1>4, <1>5 DEF TypeInv, ApartInv
  <1>10. OldOK(r)' /\ NewOK(r)'
    BY <1>2, <1>4, <1>5, <1>6 DEF OldOK, NewOK, Serving, At
  <1>11. ASSUME NEW q \in Requesters, q # r PROVE OldOK(q)' /\ NewOK(q)'
    BY <1>1, <1>3, <1>5, <1>6, <1>11, HeldFacts, HeldKept
  <1> QED BY <1>3, <1>7, <1>8, <1>9, <1>10, <1>11 DEF TypeInv, HeldInv

LEMMA BindGoes ==
    ASSUME TypeInv, NEW s \in Servers, Bind(s)
    PROVE  /\ srv[s] \in Served /\ srv[s].st = "starting"
           /\ \E v \in Served :
                /\ srv' = [srv EXCEPT ![s] = v] /\ v.kind = srv[s].kind /\ v.port = srv[s].port
                /\ v.kind = "sub" => v.suffix = srv[s].suffix /\ v.tls = srv[s].tls
                /\ \/ v.st \in {"taken", "listening"}
                   \/ v.st = "failed" /\ Listening(srv[s].port)
  <1>1. srv[s] \in Served /\ srv[s].st = "starting"
    BY DEF TypeInv, BaseInv, Bind
  <1>2. PICK st \in {"taken", "failed", "listening"} :
            srv' = [srv EXCEPT ![s].st = st] /\ (st = "failed" => Listening(srv[s].port))
    BY DEF Bind
  <1>3. PICK v : v = [srv[s] EXCEPT !.st = st]
    OBVIOUS
  <1>4. st \in States
    BY DEF States
  <1>5. /\ v \in Served /\ v.st = st /\ v.kind = srv[s].kind /\ v.port = srv[s].port
        /\ v.kind = "sub" => v.suffix = srv[s].suffix /\ v.tls = srv[s].tls
    BY <1>1, <1>3, <1>4, StateOnly
  <1>6. srv' = [srv EXCEPT ![s] = v]
    BY <1>2, <1>3
  <1> QED BY <1>1, <1>2, <1>5, <1>6

LEMMA BindType ==
    ASSUME TypeInv, NEW s \in Servers, Bind(s) PROVE TypeInv'
  <1>1. srv[s] \in Served /\ srv[s].st = "starting"
    BY BindGoes
  <1>2. PICK v \in Served : srv' = [srv EXCEPT ![s] = v] /\ v.kind = srv[s].kind /\ v.st \in Begun
    BY BindGoes DEF Begun
  <1>3. /\ srv' \in [Servers -> Served \union {Nil}] /\ srv'[s] = v
        /\ \A x \in Servers : x # s => srv'[x] = srv[x]
    BY <1>2, OneServer
  <1>4. UNCHANGED <<sc, events, settings, prov, subSrv, acmeSrv, pc, refused>>
    BY DEF Bind, admin
  <1>5. BaseInv'
    BY <1>3, <1>4 DEF TypeInv, BaseInv
  <1>6. PcInv'
    BY <1>4 DEF TypeInv, PcInv, ReqOK
  <1>7. \A q \in Requesters : Old(q)' = Old(q) /\ New(q)' = New(q) /\ pc'[q] = pc[q]
    BY <1>4 DEF Old, New
  <1>8. ApartInv'
    BY <1>7 DEF TypeInv, ApartInv
  <1>9. PublishedInv'
    BY <1>1, <1>2, <1>3, <1>4 DEF TypeInv, PublishedInv, Serving
  <1>10. ASSUME NEW q \in Requesters PROVE OldOK(q)' /\ NewOK(q)'
    <2>1. OldOK(q) /\ NewOK(q)
      BY DEF TypeInv, HeldInv
    <2>2. New(q) # Nil => New(q) # s /\ New(q) \in Servers
      BY <1>1, HeldFacts
    <2>3. OldOK(q)'
      BY <1>1, <1>2, <1>3, <1>4, <1>7, <2>1 DEF OldOK, Serving, At
    <2>4. At(q, "publish") \/ At(q, "reloadStart") => New(q) # Nil
      BY <2>1, SubNil DEF NewOK, Serving
    <2>5. NewOK(q)'
      BY <1>3, <1>7, <2>1, <2>2, <2>4 DEF NewOK, Serving, At
    <2> QED BY <2>3, <2>5
  <1> QED BY <1>5, <1>6, <1>8, <1>9, <1>10 DEF TypeInv, HeldInv

LEMMA ForeignType ==
    ASSUME TypeInv, Foreign PROVE TypeInv'
  <1>1. UNCHANGED <<sc, settings, prov, subSrv, acmeSrv, srv, pc, refused>>
    BY DEF Foreign, admin, servers
  <1>2. events' \in 0..MaxEvents
    BY SubScenarios DEF TypeInv, BaseInv, Foreign, Happens
  <1>3. BaseInv'
    BY <1>1, <1>2 DEF TypeInv, BaseInv
  <1>4. PcInv'
    BY <1>1 DEF TypeInv, PcInv, ReqOK
  <1>5. PublishedInv'
    BY <1>1 DEF TypeInv, PublishedInv, Serving
  <1>6. ApartInv' /\ HeldInv'
    BY <1>1 DEF TypeInv, ApartInv, HeldInv, OldOK, NewOK, Serving, At, Old, New
  <1> QED BY <1>3, <1>4, <1>5, <1>6 DEF TypeInv

LEMMA RestartType ==
    ASSUME TypeInv, Restart PROVE TypeInv'
  <1>1. /\ sc' = sc /\ settings' = settings /\ refused' = FALSE /\ subSrv' = Nil /\ acmeSrv' = Nil
        /\ prov' = NoCertificate
    BY DEF Restart, admin
  <1>2. events' \in 0..MaxEvents
    BY SubScenarios DEF TypeInv, BaseInv, Restart, Happens
  <1>3. srv' \in [Servers -> Served \union {Nil}]
    BY DEF Restart
  <1>4. refused' \in BOOLEAN
    BY <1>1
  <1>5. BaseInv'
    BY <1>1, <1>2, <1>3, <1>4 DEF TypeInv, BaseInv
  <1>6. /\ DOMAIN pc' = Requesters
        /\ \A r \in Requesters : pc'[r] = Idle \/ pc'[r] = [at |-> "take", why |-> "save"]
    BY DEF Restart, Wait
  <1>7. PcInv'
    BY <1>6 DEF PcInv, ReqOK, Idle, Stages
  <1>8. \A r \in Requesters : Old(r)' = Nil /\ New(r)' = Nil /\ pc'[r].at \in {"idle", "take"}
    BY <1>6 DEF Old, New, Idle
  <1>9. HeldInv' /\ ApartInv'
    BY <1>8 DEF HeldInv, ApartInv, OldOK, NewOK, At
  <1>10. PublishedInv'
    BY <1>1 DEF PublishedInv, Acme, NoCertificate
  <1> QED BY <1>5, <1>7, <1>9, <1>10 DEF TypeInv

LEMMA StutterType ==
    ASSUME TypeInv, UNCHANGED vars PROVE TypeInv'
  <1>1. UNCHANGED <<sc, events, settings, prov, subSrv, acmeSrv, srv, pc, refused>>
    BY DEF vars, admin, servers
  <1>2. BaseInv' /\ PcInv'
    BY <1>1 DEF TypeInv, BaseInv, PcInv, ReqOK
  <1>3. PublishedInv'
    BY <1>1 DEF TypeInv, PublishedInv, Serving
  <1>4. ApartInv' /\ HeldInv'
    BY <1>1 DEF TypeInv, ApartInv, HeldInv, OldOK, NewOK, Serving, At, Old, New
  <1> QED BY <1>2, <1>3, <1>4 DEF TypeInv

LEMMA StepType == TypeInv /\ [Next]_vars => TypeInv'
  <1> SUFFICES ASSUME TypeInv, [Next]_vars PROVE TypeInv'
    OBVIOUS
  <1>1. ASSUME NEW r \in Threads, (\E form \in sc.forms : Save(r, form)) \/ SaveField(r) \/ Saved(r) \/ Issue(r) \/ Order(r)
        PROVE  TypeInv'
    <2>1. r \in Requesters
      BY DEF Requesters
    <2> QED BY <1>1, <2>1, SaveType, SaveFieldType, SavedType, IssueType, OrderType
  <1>2. ASSUME NEW r \in Requesters,
               Take(r) \/ Shut(r) \/ Read(r) \/ Reload(r) \/ ReloadInvalid(r) \/ ReloadShut(r) \/ ReloadStart(r)
                 \/ Build(r) \/ Publish(r)
        PROVE  TypeInv'
    BY <1>2, TakeType, ShutType, ReadType, ReloadType, ReloadInvalidType, ReloadShutType, ReloadStartType,
       BuildType, PublishType
  <1> QED BY <1>1, <1>2, BindType, ForeignType, RestartType, StutterType DEF Next

LEMMA TypeInvariant == Spec => []TypeInv
  BY InitType, StepType, PTL DEF Spec

\* However requests overlap: the published servers exist and are of their kind, and the challenge
\* server is there exactly when ACME is configured.
THEOREM TypeCorrect == Spec => []TypeOK
  <1>1. TypeInv => TypeOK
    <2> SUFFICES ASSUME TypeInv PROVE TypeOK
      OBVIOUS
    <2>1. events \in 0..MaxEvents /\ refused \in BOOLEAN
      BY DEF TypeInv, BaseInv
    <2>2. settings.port \in Ports /\ settings.cert \in Certs
      BY DEF TypeInv, BaseInv, SettingsOK
    <2>3. \A r \in Requesters : pc[r].at \in Stages
      BY DEF TypeInv, PcInv, ReqOK
    <2>4. acmeSrv # Nil <=> Acme(prov)
      BY DEF TypeInv, PublishedInv
    <2>5. acmeSrv # Nil => srv[acmeSrv].kind = "acme" /\ srv[acmeSrv].port = ChallengePort
      BY ServedFacts DEF TypeInv, PublishedInv, Serving
    <2>6. subSrv # Nil => srv[subSrv].kind = "sub"
      BY DEF TypeInv, PublishedInv, Serving
    <2>7. \A s \in Servers : srv[s] \in Served \union {Nil}
      BY DEF TypeInv, BaseInv
    <2> QED BY <2>1, <2>2, <2>3, <2>4, <2>5, <2>6, <2>7 DEF TypeOK
  <1> QED BY <1>1, TypeInvariant, PTL

-----------------------------------------------------------------------------
(* When requests take turns, step by step *)

LEMMA AloneKept ==
    ASSUME TypeInv, NEW r \in Requesters, Alone(r), NEW rec, pc' = [pc EXCEPT ![r] = rec]
    PROVE  Alone(r)' /\ pc'[r] = rec
  BY DEF TypeInv, PcInv, Alone, At

\* A step that touches no server leaves the challenge server as it is.
LEMMA PlainAcme ==
    ASSUME NEW r \in Requesters, LoneAcme(r), UNCHANGED <<acmeSrv, srv>>,
           pc[r].at \notin {"reloadShut", "reloadStart"}, pc'[r].at \notin {"reloadShut", "reloadStart"}
    PROVE  LoneAcme(r)'
  BY DEF LoneAcme, At, Only

LEMMA SaveLone ==
    ASSUME TypeInv, NEW r \in Requesters, Alone(r), Lone(r), NEW form, Save(r, form)
    PROVE  Alone(r)' /\ Lone(r)'
  <1>1. PICK rec : rec = [at |-> "save", form |-> form, k |-> 1]
    OBVIOUS
  <1>2. /\ pc' = [pc EXCEPT ![r] = rec] /\ pc[r].at = "idle"
        /\ UNCHANGED <<sc, settings, prov, subSrv, acmeSrv, srv, refused>>
    BY <1>1 DEF Save, Goto, servers, At
  <1>a. Alone(r)' /\ pc'[r] = rec
    BY <1>2, AloneKept
  <1>3. Alone(r)' /\ pc'[r] = rec /\ rec.at = "save"
    BY <1>1, <1>a
  <1>4. LoneRead(r)'
    BY <1>3 DEF LoneRead
  <1>5. LoneSub(r)'
    BY <1>2, <1>3 DEF Lone, LoneSub, Replacing, At, Only
  <1>6. LoneAcme(r)'
    BY <1>2, <1>3, PlainAcme DEF Lone
  <1> QED BY <1>3, <1>4, <1>5, <1>6 DEF Lone

LEMMA SaveFieldLone ==
    ASSUME TypeInv, NEW r \in Requesters, Alone(r), Lone(r), SaveField(r)
    PROVE  Alone(r)' /\ Lone(r)'
  <1>1. PICK p : p = pc[r]
    OBVIOUS
  <1>2. /\ p.at = "save" /\ UNCHANGED <<sc, prov, subSrv, acmeSrv, srv>>
    BY <1>1 DEF SaveField, admin, servers, At
  <1>3. p = [at |-> "save", form |-> p.form, k |-> p.k]
    BY <1>1, <1>2 DEF TypeInv, PcInv, ReqOK
  <1>4. PICK rec : /\ pc' = [pc EXCEPT ![r] = rec]
                   /\ \/ rec = Idle /\ refused' = TRUE
                      \/ rec = [p EXCEPT !.k = @ + 1]
    BY <1>1 DEF SaveField, Goto
  <1>5. Alone(r)' /\ pc'[r] = rec
    BY <1>4, AloneKept
  <1>6. (rec.at = "idle" /\ refused') \/ rec.at = "save"
    BY <1>3, <1>4, IdleOK
  <1>7. LoneRead(r)'
    BY <1>5, <1>6 DEF LoneRead
  <1>8. LoneSub(r)'
    BY <1>1, <1>2, <1>5, <1>6 DEF Lone, LoneSub, Replacing, At, Only
  <1>9. LoneAcme(r)'
    BY <1>1, <1>2, <1>5, <1>6, PlainAcme DEF Lone
  <1> QED BY <1>5, <1>7, <1>8, <1>9 DEF Lone

LEMMA SavedLone ==
    ASSUME TypeInv, NEW r \in Requesters, Alone(r), Lone(r), Saved(r)
    PROVE  Alone(r)' /\ Lone(r)'
  <1>1. PICK rec : rec = [at |-> "take", why |-> "save"]
    OBVIOUS
  <1>2. /\ pc' = [pc EXCEPT ![r] = rec] /\ pc[r].at = "save"
        /\ UNCHANGED <<sc, settings, prov, subSrv, acmeSrv, srv>>
    BY <1>1 DEF Saved, Goto, Wait, admin, servers, At
  <1>a. Alone(r)' /\ pc'[r] = rec
    BY <1>2, AloneKept
  <1>3. Alone(r)' /\ pc'[r] = rec /\ rec.at = "take"
    BY <1>1, <1>a
  <1>4. LoneRead(r)'
    BY <1>3 DEF LoneRead
  <1>5. LoneSub(r)'
    BY <1>2, <1>3 DEF Lone, LoneSub, Replacing, At, Only
  <1>6. LoneAcme(r)'
    BY <1>2, <1>3, PlainAcme DEF Lone
  <1> QED BY <1>3, <1>4, <1>5, <1>6 DEF Lone

LEMMA IssueLone ==
    ASSUME TypeInv, NEW r \in Requesters, Alone(r), Lone(r), Issue(r)
    PROVE  Alone(r)' /\ Lone(r)'
  <1>1. PICK rec : rec = [at |-> "read", why |-> "issue"]
    OBVIOUS
  <1>2. /\ pc' = [pc EXCEPT ![r] = rec] /\ pc[r].at = "idle"
        /\ UNCHANGED <<sc, settings, prov, subSrv, acmeSrv, srv, refused>>
    BY <1>1 DEF Issue, Goto, servers, At
  <1>a. Alone(r)' /\ pc'[r] = rec
    BY <1>2, AloneKept
  <1>3. Alone(r)' /\ pc'[r] = rec /\ rec.at = "read" /\ rec.why = "issue"
    BY <1>1, <1>a
  <1>4. LoneRead(r)'
    BY <1>3 DEF LoneRead
  <1>5. LoneSub(r)'
    BY <1>2, <1>3 DEF Lone, LoneSub, Replacing, At, Only, Fits
  <1>6. LoneAcme(r)'
    BY <1>2, <1>3, PlainAcme DEF Lone
  <1> QED BY <1>3, <1>4, <1>5, <1>6 DEF Lone

LEMMA OrderLone ==
    ASSUME TypeInv, NEW r \in Requesters, Alone(r), Lone(r), Order(r)
    PROVE  Alone(r)' /\ Lone(r)'
  <1>1. PICK rec : pc' = [pc EXCEPT ![r] = rec] /\ (rec = Idle \/ rec = [at |-> "take", why |-> "save"])
    BY DEF Order, Goto, Wait
  <1>2. /\ pc[r].at = "order"
        /\ UNCHANGED <<sc, settings, prov, subSrv, acmeSrv, srv, refused>>
    BY DEF Order, admin, servers, At
  <1>a. Alone(r)' /\ pc'[r] = rec
    BY <1>1, AloneKept
  <1>3. Alone(r)' /\ pc'[r] = rec /\ rec.at \in {"idle", "take"}
    BY <1>1, <1>a, IdleOK
  <1>4. LoneRead(r)'
    BY <1>3 DEF LoneRead
  <1>5. LoneSub(r)'
    BY <1>2, <1>3 DEF Lone, LoneSub, Replacing, At, Only, Fits
  <1>6. LoneAcme(r)'
    BY <1>2, <1>3, PlainAcme DEF Lone
  <1> QED BY <1>3, <1>4, <1>5, <1>6 DEF Lone

LEMMA ReadLone ==
    ASSUME TypeInv, NEW r \in Requesters, Alone(r), Lone(r), Read(r)
    PROVE  Alone(r)' /\ Lone(r)'
  <1>1. PICK set, why : set = settings /\ why = pc[r].why
    OBVIOUS
  <1>2. PICK rec : /\ pc' = [pc EXCEPT ![r] = rec]
                   /\ \/ rec = Idle /\ why = "issue"
                      \/ rec = [at |-> "reload", why |-> why, set |-> set]
    BY <1>1 DEF Read, Goto
  <1>3. /\ pc[r].at = "read"
        /\ UNCHANGED <<sc, settings, prov, subSrv, acmeSrv, srv, refused>>
    BY DEF Read, admin, servers, At
  <1>4. Alone(r)' /\ pc'[r] = rec
    BY <1>2, AloneKept
  <1>5. (rec.at = "idle" /\ why = "issue") \/ (rec.at = "reload" /\ rec.why = why /\ rec.set = set)
    BY <1>2, IdleOK
  <1>6. LoneRead(r)'
    BY <1>1, <1>3, <1>4, <1>5 DEF LoneRead
  <1>7. LoneSub(r)'
    BY <1>1, <1>3, <1>4, <1>5 DEF Lone, LoneSub, Replacing, At, Only, Fits
  <1>8. LoneAcme(r)'
    BY <1>3, <1>4, <1>5, PlainAcme DEF Lone
  <1> QED BY <1>4, <1>6, <1>7, <1>8 DEF Lone

LEMMA ReloadInvalidLone ==
    ASSUME TypeInv, NEW r \in Requesters, Alone(r), Lone(r), ReloadInvalid(r)
    PROVE  Alone(r)' /\ Lone(r)'
  <1>1. PICK set, why : set = pc[r].set /\ why = pc[r].why
    OBVIOUS
  <1>2. PICK rec : /\ pc' = [pc EXCEPT ![r] = rec]
                   /\ \/ rec = Idle /\ why = "issue"
                      \/ /\ why # "issue"
                         /\ rec = [at |-> IF why = "issue" THEN "order" ELSE "build", why |-> why, set |-> set]
    BY <1>1 DEF ReloadInvalid, Goto, Reloaded
  <1>3. /\ pc[r].at = "reload" /\ set.cert = "bad" /\ set = settings /\ why \in {"save", "issue"}
        /\ UNCHANGED <<sc, settings, prov, subSrv, acmeSrv, srv, refused>>
    BY <1>1 DEF ReloadInvalid, admin, servers, At, Lone, LoneRead, TypeInv, PcInv, ReqOK
  <1>4. Alone(r)' /\ pc'[r] = rec
    BY <1>2, AloneKept
  <1>5. (rec.at = "idle" /\ why = "issue") \/ (rec.at = "build" /\ why = "save" /\ rec.set = set)
    BY <1>2, <1>3, IdleOK
  <1>6. LoneRead(r)'
    BY <1>3, <1>4, <1>5 DEF LoneRead
  <1>7. LoneSub(r)'
    BY <1>1, <1>3, <1>4, <1>5 DEF Lone, LoneSub, Replacing, At, Only, Fits
  <1>8. LoneAcme(r)'
    BY <1>3, <1>4, <1>5, PlainAcme DEF Lone
  <1> QED BY <1>4, <1>6, <1>7, <1>8 DEF Lone

LEMMA TakeLone ==
    ASSUME TypeInv, NEW r \in Requesters, Alone(r), Lone(r), Take(r)
    PROVE  Alone(r)' /\ Lone(r)'
  <1>1. PICK old, why : old = subSrv /\ why = pc[r].why
    OBVIOUS
  <1>2. PICK rec : rec = [at |-> "shut", why |-> why, old |-> old]
    OBVIOUS
  <1>3. /\ pc' = [pc EXCEPT ![r] = rec] /\ pc[r].at = "take"
        /\ UNCHANGED <<sc, settings, prov, acmeSrv, srv, refused>> /\ subSrv' = Nil
    BY <1>1, <1>2 DEF Take, Goto, admin, At
  <1>4. Alone(r)' /\ pc'[r] = rec
    BY <1>3, AloneKept
  <1>5. rec.at = "shut" /\ Old(r)' = old
    BY <1>2, <1>4 DEF Old
  <1>6. LoneRead(r)'
    BY <1>4, <1>5 DEF LoneRead
  <1>7. LoneSub(r)'
    BY <1>1, <1>3, <1>4, <1>5 DEF Lone, LoneSub, Replacing, At, Only
  <1>8. LoneAcme(r)'
    BY <1>3, <1>4, <1>5, PlainAcme DEF Lone
  <1> QED BY <1>4, <1>6, <1>7, <1>8 DEF Lone

LEMMA ShutLone ==
    ASSUME TypeInv, NEW r \in Requesters, Alone(r), Lone(r), Shut(r)
    PROVE  Alone(r)' /\ Lone(r)'
  <1>1. pc[r].at = "shut" /\ ReqOK(pc[r]) /\ Old(r) = pc[r].old
    BY DEF TypeInv, PcInv, Shut, At, Old
  <1>2. PICK rec : rec = [at |-> "read", why |-> "save"]
    OBVIOUS
  <1>3. pc[r].why = "save"
    BY <1>1 DEF ReqOK
  <1>4. pc' = [pc EXCEPT ![r] = rec] /\ UNCHANGED <<sc, settings, prov, subSrv, acmeSrv, refused>>
    BY <1>2, <1>3 DEF Shut, Goto, admin
  <1>5. Alone(r)' /\ pc'[r] = rec
    BY <1>4, AloneKept
  <1>6. rec.at = "read" /\ rec.why = "save"
    BY <1>2
  <1>7. subSrv = Nil /\ Only(Old(r), "sub")
    BY <1>1 DEF Lone, LoneSub, Replacing, At
  <1>8. /\ Old(r) # Nil => Old(r) \in Servers /\ srv'[Old(r)] = Nil
        /\ \A x \in Servers : x # Old(r) => srv'[x] = srv[x]
    <2>1. CASE Old(r) = Nil
      BY <1>1, <2>1 DEF Shut
    <2>2. CASE Old(r) # Nil
      <3>1. PICK s : s = Old(r)
        OBVIOUS
      <3>2. s \in Servers /\ srv[s] \in Served /\ srv[s].st \in Begun /\ s # Nil
        BY <1>1, <2>2, <3>1, HeldFacts DEF At
      <3>3. srv' = Close(s)
        BY <1>1, <2>2, <3>1 DEF Shut
      <3>4. PICK v \in Served \union {Nil} : srv' = [srv EXCEPT ![s] = v] /\ v = Nil
        BY <3>2, <3>3, CloseIs DEF Begun
      <3>5. srv'[s] = Nil /\ \A x \in Servers : x # s => srv'[x] = srv[x]
        BY <3>2, <3>4, OneServer
      <3> QED BY <3>1, <3>2, <3>5
    <2> QED BY <2>1, <2>2
  <1>9. Only(Nil, "sub")'
    BY <1>7, <1>8 DEF Only
  <1>10. LoneRead(r)'
    BY <1>5, <1>6 DEF LoneRead
  <1>11. LoneSub(r)'
    BY <1>4, <1>5, <1>6, <1>7, <1>9 DEF LoneSub, Replacing, At, Only
  <1>12. LoneAcme(r)'
    <2>1. Only(acmeSrv, "acme") /\ (acmeSrv # Nil => srv[acmeSrv].st \in Running)
      BY <1>1 DEF Lone, LoneAcme, At
    <2>2. acmeSrv # Nil => acmeSrv \in Servers /\ acmeSrv # Old(r)
      BY HeldFacts DEF TypeInv, PublishedInv, Serving
    <2>3. \A x \in Servers : srv'[x] # Nil => srv[x] # Nil /\ srv'[x] = srv[x]
      BY <1>8, SubNil
    <2>4. Only(acmeSrv, "acme")'
      BY <1>4, <2>1, <2>3 DEF Only
    <2>5. acmeSrv' # Nil => srv'[acmeSrv'].st \in Running
      BY <1>4, <1>8, <2>1, <2>2
    <2> QED BY <1>5, <1>6, <2>4, <2>5 DEF LoneAcme, At
  <1> QED BY <1>5, <1>10, <1>11, <1>12 DEF Lone

LEMMA ReloadLone ==
    ASSUME TypeInv, NEW r \in Requesters, Alone(r), Lone(r), Reload(r)
    PROVE  Alone(r)' /\ Lone(r)'
  <1>1. /\ pc[r].at = "reload" /\ sc' = sc /\ UNCHANGED <<subSrv, settings>> /\ prov' = Given(pc[r].set)
        /\ refused' = refused
    BY ReloadGoes DEF Reload
  <1>2. PICK old, set, why : old = acmeSrv /\ set = pc[r].set /\ why = pc[r].why
    OBVIOUS
  <1>3. PICK new, rec :
            /\ acmeSrv' = new /\ pc' = [pc EXCEPT ![r] = rec]
            /\ rec.at = "reloadShut" /\ rec.old = old /\ rec.new = new
            /\ rec.set = set /\ rec.why = why
            /\ \/ new \in Free
                  /\ \E v \in Served : /\ v.kind = "acme" /\ v.st = "new"
                                       /\ srv' = [srv EXCEPT ![new] = v]
               \/ new = Nil /\ srv' = srv
    BY <1>2, ReloadGoes
  <1>4. Alone(r)' /\ pc'[r] = rec
    BY <1>3, AloneKept
  <1>5. Old(r)' = old /\ New(r)' = new
    BY <1>3, <1>4 DEF Old, New
  <1>6. set = settings /\ Only(old, "acme") /\ (old # Nil => srv[old].st \in Running)
    BY <1>1, <1>2 DEF Lone, LoneRead, LoneAcme, At
  <1>7. /\ new # Nil => new \in Servers /\ srv'[new] # Nil /\ srv'[new].st = "new" /\ srv'[new].kind = "acme"
        /\ \A x \in Servers : x # new => srv'[x] = srv[x]
        /\ old # Nil => old \in Servers /\ old # new
        /\ subSrv # Nil => subSrv \in Servers /\ subSrv # new
    <2>1. (old # Nil => old \in Servers) /\ (subSrv # Nil => subSrv \in Servers)
      BY <1>2 DEF TypeInv, PublishedInv, Serving
    <2>2. CASE new = Nil /\ srv' = srv
      BY <2>1, <2>2
    <2>3. CASE new \in Free
      <3>1. new \in Servers /\ new # old /\ new # subSrv /\ new # Nil
        BY <1>2, <2>3, FreeFacts
      <3>2. PICK v \in Served : v.kind = "acme" /\ v.st = "new" /\ srv' = [srv EXCEPT ![new] = v]
        BY <1>3, <3>1
      <3>3. srv'[new] = v /\ \A x \in Servers : x # new => srv'[x] = srv[x]
        BY <3>1, <3>2, OneServer
      <3> QED BY <2>1, <3>1, <3>2, <3>3, ServedFacts
    <2> QED BY <1>3, <2>2, <2>3
  <1>8. LoneRead(r)'
    BY <1>1, <1>2, <1>3, <1>4, <1>6 DEF LoneRead
  <1>9. LoneSub(r)'
    <2>1. \A x \in Servers : srv'[x] # Nil /\ srv'[x].kind = "sub" => srv[x] # Nil /\ srv[x].kind = "sub"
      BY <1>7, SubNil
    <2>2. Only(subSrv, "sub")'
      BY <1>1, <2>1 DEF Lone, LoneSub, At, Only
    <2>3. subSrv # Nil => srv'[subSrv] = srv[subSrv]
      BY <1>7
    <2>4. Replacing(r)' <=> Replacing(r)
      BY <1>1, <1>2, <1>3, <1>4 DEF Replacing
    <2>5. (Replacing(r) => subSrv = Nil) /\ (~ Replacing(r) => subSrv # Nil)
      BY <1>1 DEF Lone, LoneSub, At
    <2>6. subSrv # Nil => srv[subSrv].st \in Running
      BY <1>1 DEF Lone, LoneSub, At
    <2>7. ~ refused /\ ~ Replacing(r) => Fits(subSrv, settings)
      BY <1>1 DEF Lone, LoneSub, At
    <2>8. ~ refused /\ ~ Replacing(r) => Fits(subSrv, settings)'
      BY <1>1, <2>3, <2>5, <2>7 DEF Fits
    <2> QED BY <1>1, <1>3, <1>4, <2>2, <2>3, <2>4, <2>5, <2>6, <2>8 DEF LoneSub, At
  <1>10. LoneAcme(r)'
    <2>1. \A x \in Servers : srv'[x] # Nil /\ srv'[x].kind = "acme" => x = old \/ x = new
      BY <1>6, <1>7 DEF Only
    <2>2. old # Nil => srv'[old].st \in Running
      BY <1>6, <1>7
    <2> QED BY <1>3, <1>4, <1>5, <1>7, <2>1, <2>2 DEF LoneAcme, At
  <1> QED BY <1>4, <1>8, <1>9, <1>10 DEF Lone

LEMMA ReloadShutLone ==
    ASSUME TypeInv, NEW r \in Requesters, Alone(r), Lone(r), ReloadShut(r)
    PROVE  Alone(r)' /\ Lone(r)'
  <1>1. /\ pc[r].at = "reloadShut" /\ Old(r) = pc[r].old /\ New(r) = pc[r].new
        /\ UNCHANGED <<settings, prov, subSrv, acmeSrv, refused>>
    BY ReloadShutGoes DEF ReloadShut, admin
  <1>2. PICK old, new, set, why : old = Old(r) /\ new = New(r) /\ set = pc[r].set /\ why = pc[r].why
    OBVIOUS
  <1>3. PICK rec : /\ pc' = [pc EXCEPT ![r] = rec] /\ ReqOK(rec)
                   /\ rec.set = set /\ rec.why = why
                   /\ \/ new = Nil /\ rec.at \in {"order", "build"}
                      \/ new # Nil /\ rec.at = "reloadStart" /\ rec.new = new
    BY <1>2, ReloadShutGoes
  <1>4. Alone(r)' /\ pc'[r] = rec
    BY <1>3, AloneKept
  <1>5. /\ set = settings /\ (settings.cert # "bad" => prov = Given(settings))
        /\ acmeSrv = new /\ \A x \in Servers : srv[x] # Nil /\ srv[x].kind = "acme" => x = old \/ x = new
        /\ old # Nil => srv[old].st \in Running
        /\ new # Nil => srv[new].st = "new"
    BY <1>1, <1>2 DEF Lone, LoneRead, LoneAcme, At
  <1>6. /\ old # Nil => old \in Servers /\ srv'[old] = Nil /\ old # subSrv /\ old # acmeSrv
        /\ \A x \in Servers : x # old => srv'[x] = srv[x]
    <2>1. CASE old = Nil
      BY <1>1, <1>2, <2>1 DEF ReloadShut
    <2>2. CASE old # Nil
      <3>1. old \in Servers /\ srv[old] \in Served /\ old \notin {subSrv, acmeSrv}
        BY <1>2, <2>2, HeldFacts
      <3>2. srv[old].st # "new"
        BY <1>5, <2>2 DEF Running
      <3>3. srv' = Close(old)
        BY <1>1, <1>2, <2>2 DEF ReloadShut
      <3>4. PICK v \in Served \union {Nil} : srv' = [srv EXCEPT ![old] = v] /\ v = Nil
        BY <3>1, <3>2, <3>3, CloseIs
      <3>5. srv'[old] = Nil /\ \A x \in Servers : x # old => srv'[x] = srv[x]
        BY <3>1, <3>4, OneServer
      <3> QED BY <3>1, <3>5
    <2> QED BY <2>1, <2>2
  <1>7. \A x \in Servers : srv'[x] # Nil => srv[x] # Nil /\ srv'[x] = srv[x] /\ x # old
    BY <1>6, SubNil
  <1>8. LoneRead(r)'
    BY <1>1, <1>3, <1>4, <1>5 DEF LoneRead
  <1>9. LoneSub(r)'
    <2>1. Only(subSrv, "sub")'
      BY <1>1, <1>7 DEF Lone, LoneSub, At, Only
    <2>2. subSrv # Nil => srv'[subSrv] = srv[subSrv]
      BY <1>6 DEF TypeInv, PublishedInv, Serving
    <2>3. Replacing(r)' <=> Replacing(r)
      <3>1. rec.at = "order" => why = "issue"
        BY <1>3 DEF ReqOK
      <3>2. rec.at = "build" => why = "save"
        BY <1>3 DEF ReqOK
      <3> QED BY <1>1, <1>2, <1>3, <1>4, <3>1, <3>2 DEF Replacing
    <2>4. (Replacing(r) => subSrv = Nil) /\ (~ Replacing(r) => subSrv # Nil)
      BY <1>1 DEF Lone, LoneSub, At
    <2>5. subSrv # Nil => srv[subSrv].st \in Running
      BY <1>1 DEF Lone, LoneSub, At
    <2>6. ~ refused /\ ~ Replacing(r) => Fits(subSrv, settings)
      BY <1>1 DEF Lone, LoneSub, At
    <2>7. ~ refused /\ ~ Replacing(r) => Fits(subSrv, settings)'
      BY <1>1, <2>2, <2>4, <2>6 DEF Fits
    <2>8. ~ At(r, "shut")' /\ ~ At(r, "publish")' /\ ~ At(r, "take")'
      BY <1>3, <1>4 DEF At
    <2> QED BY <1>1, <2>1, <2>2, <2>3, <2>4, <2>5, <2>7, <2>8 DEF LoneSub
  <1>10. LoneAcme(r)'
    <2>1. Only(new, "acme")'
      BY <1>5, <1>7 DEF Only
    <2>2. CASE new = Nil
      BY <1>1, <1>3, <1>4, <1>5, <2>1, <2>2 DEF LoneAcme, At
    <2>3. CASE new # Nil
      <3>1. rec.at = "reloadStart" /\ rec.new = new
        BY <1>3, <2>3
      <3>2. New(r)' = new
        BY <1>4, <3>1 DEF New
      <3>3. new \in Servers /\ new # old
        BY <1>2, <1>5, <1>6, <2>3, HeldFacts
      <3>4. srv'[new].st = "new"
        BY <1>5, <1>6, <2>3, <3>3
      <3> QED BY <1>1, <1>4, <1>5, <2>1, <3>1, <3>2, <3>4 DEF LoneAcme, At
    <2> QED BY <2>2, <2>3
  <1> QED BY <1>4, <1>8, <1>9, <1>10 DEF Lone

LEMMA ReloadStartLone ==
    ASSUME TypeInv, NEW r \in Requesters, Alone(r), Lone(r), ReloadStart(r)
    PROVE  Alone(r)' /\ Lone(r)'
  <1>1. /\ pc[r].at = "reloadStart" /\ New(r) = pc[r].new
        /\ UNCHANGED <<settings, prov, subSrv, acmeSrv, refused>>
    BY ReloadStartGoes DEF ReloadStart, admin
  <1>2. PICK new, set, why : new = New(r) /\ set = pc[r].set /\ why = pc[r].why
    OBVIOUS
  <1>3. PICK rec : /\ pc' = [pc EXCEPT ![r] = rec] /\ ReqOK(rec)
                   /\ rec.set = set /\ rec.why = why /\ rec.at \in {"order", "build"}
    BY <1>2, ReloadStartGoes
  <1>4. Alone(r)' /\ pc'[r] = rec
    BY <1>3, AloneKept
  <1>5. /\ set = settings /\ (settings.cert # "bad" => prov = Given(settings))
        /\ acmeSrv = new /\ Only(new, "acme") /\ srv[new].st = "new"
    BY <1>1, <1>2 DEF Lone, LoneRead, LoneAcme, At
  <1>6. new \in Servers /\ srv[new] \in Served /\ srv[new].kind = "acme" /\ new # subSrv
    BY <1>1, <1>2, SubNil, HeldFacts DEF TypeInv, HeldInv, NewOK, At, Serving
  <1>7. srv' = Started(new)
    BY <1>1, <1>2 DEF ReloadStart
  <1>8. PICK v \in Served : srv' = [srv EXCEPT ![new] = v] /\ v.kind = "acme" /\ v.st = "starting"
    BY <1>5, <1>6, <1>7, StartedIs
  <1>9. srv'[new] = v /\ \A x \in Servers : x # new => srv'[x] = srv[x]
    BY <1>6, <1>8, OneServer
  <1>10. LoneRead(r)'
    BY <1>1, <1>3, <1>4, <1>5 DEF LoneRead
  <1>11. LoneSub(r)'
    <2>1. \A x \in Servers : srv'[x] # Nil /\ srv'[x].kind = "sub" => srv[x] # Nil /\ srv[x].kind = "sub"
      BY <1>8, <1>9
    <2>2. Only(subSrv, "sub")'
      BY <1>1, <2>1 DEF Lone, LoneSub, At, Only
    <2>3. subSrv # Nil => srv'[subSrv] = srv[subSrv]
      BY <1>6, <1>9 DEF TypeInv, PublishedInv, Serving
    <2>4. Replacing(r)' <=> Replacing(r)
      <3>1. rec.at = "order" => why = "issue"
        BY <1>3 DEF ReqOK
      <3>2. rec.at = "build" => why = "save"
        BY <1>3 DEF ReqOK
      <3> QED BY <1>1, <1>2, <1>3, <1>4, <3>1, <3>2 DEF Replacing
    <2>5. (Replacing(r) => subSrv = Nil) /\ (~ Replacing(r) => subSrv # Nil)
      BY <1>1 DEF Lone, LoneSub, At
    <2>6. subSrv # Nil => srv[subSrv].st \in Running
      BY <1>1 DEF Lone, LoneSub, At
    <2>7. ~ refused /\ ~ Replacing(r) => Fits(subSrv, settings)
      BY <1>1 DEF Lone, LoneSub, At
    <2>8. ~ refused /\ ~ Replacing(r) => Fits(subSrv, settings)'
      BY <1>1, <2>3, <2>5, <2>7 DEF Fits
    <2>9. ~ At(r, "shut")' /\ ~ At(r, "publish")' /\ ~ At(r, "take")'
      BY <1>3, <1>4 DEF At
    <2> QED BY <1>1, <2>2, <2>3, <2>4, <2>5, <2>6, <2>8, <2>9 DEF LoneSub
  <1>12. LoneAcme(r)'
    <2>1. \A x \in Servers : srv'[x] # Nil /\ srv'[x].kind = "acme" => x = new
      BY <1>5, <1>9 DEF Only
    <2> QED BY <1>1, <1>3, <1>4, <1>5, <1>8, <1>9, <2>1 DEF LoneAcme, At, Only, Running
  <1> QED BY <1>4, <1>10, <1>11, <1>12 DEF Lone

LEMMA BuildLone ==
    ASSUME TypeInv, NEW r \in Requesters, Alone(r), Lone(r), Build(r)
    PROVE  Alone(r)' /\ Lone(r)'
  <1>1. pc[r].at = "build" /\ UNCHANGED <<prov, subSrv, acmeSrv, settings, refused>>
    BY BuildGoes DEF Build
  <1>2. PICK set : set = pc[r].set
    OBVIOUS
  <1>3. PICK s \in Free : \E rec : \E v \in Served :
            /\ pc' = [pc EXCEPT ![r] = rec] /\ ReqOK(rec) /\ rec.at = "publish" /\ rec.new = s
            /\ MadeFor(v, set, prov) /\ srv' = [srv EXCEPT ![s] = v]
    BY <1>2, BuildGoes
  <1>4. PICK rec : \E v \in Served :
            /\ pc' = [pc EXCEPT ![r] = rec] /\ ReqOK(rec) /\ rec.at = "publish" /\ rec.new = s
            /\ MadeFor(v, set, prov) /\ srv' = [srv EXCEPT ![s] = v]
    BY <1>3
  <1>5. PICK v \in Served :
            /\ pc' = [pc EXCEPT ![r] = rec] /\ rec.at = "publish" /\ rec.new = s
            /\ MadeFor(v, set, prov) /\ srv' = [srv EXCEPT ![s] = v]
    BY <1>4
  <1>6. Alone(r)' /\ pc'[r] = rec
    BY <1>5, AloneKept
  <1>7. New(r)' = s /\ rec.at = "publish"
    BY <1>5, <1>6 DEF New
  <1>8. s \in Servers /\ srv[s] = Nil /\ s # Nil /\ s # acmeSrv
    BY FreeFacts
  <1>9. srv'[s] = v /\ \A x \in Servers : x # s => srv'[x] = srv[x]
    BY <1>5, <1>8, OneServer
  <1>10. /\ set = settings /\ (settings.cert # "bad" => prov = Given(settings))
         /\ subSrv = Nil /\ Only(Nil, "sub")
    BY <1>1, <1>2 DEF Lone, LoneRead, LoneSub, Replacing, At
  <1>11. v.kind = "sub" /\ v.st = "new"
    BY <1>5 DEF MadeFor
  <1>12. Fits(s, settings)'
    <2>1. v.port = set.port /\ v.suffix = set.suffix /\ v.tls = TLSEnabled(prov)
      BY <1>5 DEF MadeFor
    <2>2. settings.cert # "bad" => v.tls = TLSEnabled(Given(settings))
      BY <1>10, <2>1
    <2> QED BY <1>1, <1>9, <1>10, <2>1, <2>2 DEF Fits
  <1>13. Only(s, "sub")'
    BY <1>9, <1>10, SubNil DEF Only
  <1>14. LoneRead(r)'
    BY <1>6, <1>7 DEF LoneRead
  <1>15. LoneSub(r)'
    <2>1. Fits(New(r), settings)' /\ Only(New(r), "sub")'
      BY <1>7, <1>12, <1>13 DEF Fits, Only
    <2> QED BY <1>1, <1>6, <1>7, <1>10, <2>1 DEF LoneSub, Replacing, At
  <1>16. LoneAcme(r)'
    <2>1. Only(acmeSrv, "acme") /\ (acmeSrv # Nil => srv[acmeSrv].st \in Running)
      BY <1>1 DEF Lone, LoneAcme, At
    <2>2. acmeSrv # Nil => acmeSrv \in Servers
      BY DEF TypeInv, PublishedInv, Serving
    <2>3. Only(acmeSrv, "acme")'
      BY <1>1, <1>9, <1>11, <2>1 DEF Only
    <2> QED BY <1>1, <1>6, <1>7, <1>8, <1>9, <2>1, <2>2, <2>3 DEF LoneAcme, At
  <1> QED BY <1>6, <1>14, <1>15, <1>16 DEF Lone

LEMMA PublishLone ==
    ASSUME TypeInv, NEW r \in Requesters, Alone(r), Lone(r), Publish(r)
    PROVE  Alone(r)' /\ Lone(r)'
  <1>1. /\ pc[r].at = "publish" /\ New(r) = pc[r].new /\ pc' = [pc EXCEPT ![r] = Idle]
        /\ UNCHANGED <<prov, acmeSrv, settings>>
    BY DEF Publish, admin, At, New, Goto
  <1>2. Alone(r)' /\ pc'[r].at = "idle"
    BY <1>1, IdleOK, AloneKept
  <1>3. PICK s : s = New(r)
    OBVIOUS
  <1>4. s \in Servers /\ srv[s] \in Served /\ srv[s].kind = "sub" /\ srv[s].st = "new" /\ s # Nil
    BY <1>1, <1>3, SubNil DEF TypeInv, HeldInv, NewOK, At, Serving
  <1>5. srv' = Started(s) /\ subSrv' = s
    BY <1>1, <1>3 DEF Publish
  <1>6. PICK v \in Served :
            srv' = [srv EXCEPT ![s] = v] /\ v = [srv[s] EXCEPT !.st = "starting"] /\ v.kind = "sub" /\ v.st = "starting"
    BY <1>4, <1>5, StartedIs
  <1>7. srv'[s] = v /\ \A x \in Servers : x # s => srv'[x] = srv[x]
    BY <1>4, <1>6, OneServer
  <1>8. v.port = srv[s].port /\ v.suffix = srv[s].suffix /\ v.tls = srv[s].tls
    BY <1>4, <1>6, StateOnly DEF States
  <1>9. Only(s, "sub") /\ Fits(s, settings)
    BY <1>1, <1>3 DEF Lone, LoneSub, At
  <1>10. Only(s, "sub")'
    BY <1>7, <1>9 DEF Only
  <1>11. Fits(s, settings)'
    BY <1>1, <1>7, <1>8, <1>9 DEF Fits
  <1>12. LoneRead(r)'
    BY <1>2 DEF LoneRead
  <1>13. LoneSub(r)'
    <2>1. Only(subSrv, "sub")' /\ Fits(subSrv, settings)'
      BY <1>5, <1>10, <1>11 DEF Only, Fits
    <2>2. subSrv' # Nil /\ srv'[subSrv'].st \in Running
      BY <1>4, <1>5, <1>6, <1>7 DEF Running
    <2> QED BY <1>2, <2>1, <2>2 DEF LoneSub, Replacing, At
  <1>14. LoneAcme(r)'
    <2>1. Only(acmeSrv, "acme") /\ (acmeSrv # Nil => srv[acmeSrv].st \in Running)
      BY <1>1 DEF Lone, LoneAcme, At
    <2>2. acmeSrv # Nil => acmeSrv \in Servers /\ acmeSrv # s
      BY <1>4 DEF TypeInv, PublishedInv, Serving
    <2>3. Only(acmeSrv, "acme")'
      BY <1>1, <1>6, <1>7, <2>1 DEF Only
    <2> QED BY <1>1, <1>2, <1>7, <2>1, <2>2, <2>3 DEF LoneAcme, At
  <1> QED BY <1>2, <1>12, <1>13, <1>14 DEF Lone

\* What listens on the port of a server is of its kind: the challenge has a port of its own.
LEMMA PortKind ==
    ASSUME TypeInv, ChallengePort \notin Ports, NEW s \in Servers, srv[s] \in Served, Listening(srv[s].port)
    PROVE  \E x \in Servers : srv[x] # Nil /\ srv[x].kind = srv[s].kind /\ srv[x].st = "listening"
  <1>1. PICK x \in Servers : srv[x] # Nil /\ srv[x].port = srv[s].port /\ srv[x].st = "listening"
    BY DEF Listening
  <1>2. srv[x] \in Served
    BY <1>1 DEF TypeInv, BaseInv
  <1>3. srv[x].kind = srv[s].kind
    BY <1>1, <1>2, ServedFacts
  <1> QED BY <1>1, <1>3

LEMMA BindLone ==
    ASSUME TypeInv, ChallengePort \notin Ports, NEW r \in Requesters, Alone(r), Lone(r), NEW s \in Servers, Bind(s)
    PROVE  Alone(r)' /\ Lone(r)'
  <1>1. srv[s] \in Served /\ srv[s].st = "starting"
    BY BindGoes
  <1>2. PICK v \in Served :
            /\ srv' = [srv EXCEPT ![s] = v] /\ v.kind = srv[s].kind /\ v.port = srv[s].port
            /\ v.kind = "sub" => v.suffix = srv[s].suffix /\ v.tls = srv[s].tls
            /\ \/ v.st \in {"taken", "listening"}
               \/ v.st = "failed" /\ Listening(srv[s].port)
    BY BindGoes
  <1>3. srv'[s] = v /\ \A x \in Servers : x # s => srv'[x] = srv[x]
    BY <1>2, OneServer
  <1>4. UNCHANGED <<settings, prov, subSrv, acmeSrv, pc, refused>>
    BY DEF Bind, admin
  <1>5. Old(r)' = Old(r) /\ New(r)' = New(r) /\ pc'[r] = pc[r] /\ \A w : At(r, w)' = At(r, w)
    BY <1>4 DEF Old, New, At
  <1>6. Alone(r)'
    BY <1>4 DEF Alone, At
  <1>7. LoneRead(r)'
    BY <1>4 DEF Lone, LoneRead
  <1>8. \A x \in Servers : /\ srv'[x] # Nil <=> srv[x] # Nil
                           /\ srv'[x] # Nil => srv'[x].kind = srv[x].kind
    BY <1>1, <1>2, <1>3, ServedFacts
  <1>9. \A x, kind : Only(x, kind) => Only(x, kind)'
    BY <1>8 DEF Only
  \* It fails to bind only if another server of its kind has the port.
  <1>10. (\A x \in Servers : srv[x] # Nil /\ srv[x].kind = srv[s].kind => srv[x].st # "listening") => v.st \in Running
    BY <1>1, <1>2, PortKind DEF Running
  <1>11. \A x \in Servers : srv[x] # Nil /\ srv[x].kind = "sub" /\ Fits(x, settings) => Fits(x, settings)'
    BY <1>2, <1>3, <1>4 DEF Fits
  <1>12. LoneSub(r)'
    <2>1. LoneSub(r)
      BY DEF Lone
    <2>2. At(r, "shut")' => Only(Old(r), "sub")'
      BY <1>4, <1>5, <1>9, <2>1 DEF LoneSub, At, Only
    <2>3. At(r, "publish")' => Only(New(r), "sub")' /\ Fits(New(r), settings)'
      <3>1. At(r, "publish") => /\ New(r) \in Servers /\ srv[New(r)] # Nil /\ srv[New(r)].kind = "sub"
                                /\ Fits(New(r), settings) /\ Only(New(r), "sub")
        BY <2>1, ServedFacts DEF TypeInv, HeldInv, NewOK, Serving, LoneSub
      <3>2. At(r, "publish") => Fits(New(r), settings)'
        <4>1. PICK n : n = New(r)
          OBVIOUS
        <4>2. At(r, "publish") => Fits(n, settings)'
          BY <1>11, <3>1, <4>1
        <4>3. New(r)' = n
          BY <1>5, <4>1
        <4> QED BY <4>2, <4>3 DEF Fits
      <3>3. At(r, "publish") => Only(New(r), "sub")'
        <4>1. PICK n : n = New(r)
          OBVIOUS
        <4>2. At(r, "publish") => Only(n, "sub")'
          BY <1>9, <3>1, <4>1
        <4>3. New(r)' = n
          BY <1>5, <4>1
        <4> QED BY <4>2, <4>3 DEF Only
      <3> QED BY <1>5, <3>2, <3>3
    <2>4. ~ At(r, "shut") /\ ~ At(r, "publish") => Only(subSrv, "sub")'
      <3>1. PICK n : n = subSrv
        OBVIOUS
      <3>2. ~ At(r, "shut") /\ ~ At(r, "publish") => Only(n, "sub")'
        BY <1>9, <2>1, <3>1 DEF LoneSub
      <3> QED BY <1>4, <3>1, <3>2 DEF Only
    <2>5. Replacing(r)' <=> Replacing(r)
      BY <1>4 DEF Replacing
    <2>6. subSrv # Nil => subSrv \in Servers /\ srv[subSrv] # Nil /\ srv[subSrv].kind = "sub" /\ Only(subSrv, "sub")
      BY <2>1, ServedFacts DEF TypeInv, PublishedInv, Serving, LoneSub, Replacing, At
    <2>7. subSrv # Nil => srv'[subSrv].st \in Running
      <3>1. CASE subSrv = s /\ subSrv # Nil
        <4>1. v.st \in Running
          BY <1>1, <1>10, <2>6, <3>1 DEF Only
        <4> QED BY <1>3, <3>1, <4>1
      <3>2. CASE subSrv # s
        BY <1>3, <2>1, <2>6, <3>2 DEF LoneSub
      <3> QED BY <3>1, <3>2
    <2>8. subSrv # Nil /\ Fits(subSrv, settings) => Fits(subSrv, settings)'
      <3>1. PICK n : n = subSrv
        OBVIOUS
      <3>2. n # Nil /\ Fits(n, settings) => Fits(n, settings)'
        BY <1>11, <2>6, <3>1
      <3> QED BY <1>4, <3>1, <3>2 DEF Fits
    <2> QED BY <1>4, <1>5, <2>1, <2>2, <2>3, <2>4, <2>5, <2>7, <2>8 DEF LoneSub
  <1>13. LoneAcme(r)'
    <2>1. LoneAcme(r)
      BY DEF Lone
    <2>2. CASE At(r, "reloadShut")
      <3>1. PICK old, new : old = Old(r) /\ new = New(r)
        OBVIOUS
      <3>2. /\ acmeSrv = new /\ \A x \in Servers : srv[x] # Nil /\ srv[x].kind = "acme" => x = old \/ x = new
            /\ old # Nil => srv[old].st \in Running /\ old \in Servers /\ srv[old].kind = "acme"
            /\ new # Nil => srv[new].st = "new" /\ new \in Servers
        BY <2>1, <2>2, <3>1, HeldFacts DEF LoneAcme, At
      <3>3. new # Nil => srv'[new].st = "new"
        BY <1>1, <1>3, <3>2
      <3>4. old # Nil => srv'[old].st \in Running
        <4>1. CASE old = s /\ old # Nil
          <5>1. v.st \in Running
            BY <1>1, <1>10, <3>2, <4>1, SubNil
          <5> QED BY <1>3, <4>1, <5>1
        <4>2. CASE old # s
          BY <1>3, <3>2, <4>2
        <4> QED BY <4>1, <4>2
      <3>5. \A x \in Servers : srv'[x] # Nil /\ srv'[x].kind = "acme" => x = old \/ x = new
        BY <1>8, <3>2
      <3>6. Old(r)' = old /\ New(r)' = new /\ pc'[r].at = "reloadShut"
        BY <1>5, <2>2, <3>1 DEF At
      <3> QED BY <1>4, <3>2, <3>3, <3>4, <3>5, <3>6 DEF LoneAcme, At
    <2>3. CASE At(r, "reloadStart")
      <3>1. PICK new : new = New(r)
        OBVIOUS
      <3>2. acmeSrv = new /\ Only(new, "acme") /\ srv[new].st = "new"
        BY <2>1, <2>3, <3>1 DEF LoneAcme
      <3>3. new \in Servers
        BY <2>3, <3>1 DEF TypeInv, HeldInv, NewOK, Serving
      <3>4. srv'[new].st = "new"
        BY <1>1, <1>3, <3>2, <3>3
      <3>5. Only(new, "acme")'
        BY <1>9, <3>2
      <3>6. New(r)' = new /\ pc'[r].at = "reloadStart"
        BY <1>5, <2>3, <3>1 DEF At
      <3> QED BY <1>4, <3>2, <3>4, <3>5, <3>6 DEF LoneAcme, At, Only
    <2>4. CASE ~ At(r, "reloadShut") /\ ~ At(r, "reloadStart")
      <3>1. PICK a : a = acmeSrv
        OBVIOUS
      <3>2. Only(a, "acme") /\ (a # Nil => srv[a].st \in Running)
        BY <2>1, <2>4, <3>1 DEF LoneAcme
      <3>3. a # Nil => a \in Servers /\ srv[a] # Nil /\ srv[a].kind = "acme"
        BY <3>1, ServedFacts DEF TypeInv, PublishedInv, Serving
      <3>4. Only(a, "acme")'
        BY <1>9, <3>2
      <3>5. a # Nil => srv'[a].st \in Running
        <4>1. CASE a = s /\ a # Nil
          <5>1. v.st \in Running
            BY <1>1, <1>10, <3>2, <3>3, <4>1 DEF Only
          <5> QED BY <1>3, <4>1, <5>1
        <4>2. CASE a # s
          BY <1>3, <3>2, <3>3, <4>2
        <4> QED BY <4>1, <4>2
      <3>6. acmeSrv' = a /\ ~ At(r, "reloadShut")' /\ ~ At(r, "reloadStart")'
        BY <1>4, <2>4, <3>1 DEF At
      <3> QED BY <3>4, <3>5, <3>6 DEF LoneAcme, Only
    <2> QED BY <2>2, <2>3, <2>4
  <1> QED BY <1>6, <1>7, <1>12, <1>13 DEF Lone

LEMMA ForeignLone ==
    ASSUME TypeInv, NEW r \in Requesters, Alone(r), Lone(r), UNCHANGED <<settings, prov, subSrv, acmeSrv, srv, pc, refused>>
    PROVE  Alone(r)' /\ Lone(r)'
  <1>1. Alone(r)' /\ LoneRead(r)'
    BY DEF Alone, Lone, LoneRead, At
  <1>2. LoneSub(r)'
    BY DEF Lone, LoneSub, Replacing, At, Only, Fits, Old, New
  <1>3. LoneAcme(r)'
    BY DEF Lone, LoneAcme, At, Only, Old, New
  <1> QED BY <1>1, <1>2, <1>3 DEF Lone

\* The panel has started: nothing serves yet, and the first request is its own.
LEMMA Fresh ==
    ASSUME pc = [r \in Requesters |-> IF r = Main THEN Wait("save") ELSE Idle],
           srv = [s \in Servers |-> Nil], subSrv = Nil, acmeSrv = Nil
    PROVE  Alone(Main) /\ Lone(Main)
  <1>1. Main \in Requesters
    BY DEF Requesters
  <1>2. pc[Main].at = "take" /\ \A q \in Requesters : q # Main => pc[q].at = "idle"
    BY <1>1 DEF Wait, Idle
  <1>3. Alone(Main) /\ LoneRead(Main)
    BY <1>2 DEF Alone, LoneRead, At
  <1>4. \A x \in Servers : srv[x] = Nil
    OBVIOUS
  <1>5. LoneSub(Main) /\ LoneAcme(Main)
    BY <1>2, <1>4 DEF LoneSub, LoneAcme, Replacing, At, Only
  <1> QED BY <1>3, <1>5 DEF Lone

LEMMA FreshAgain ==
    ASSUME Restart PROVE (Alone(Main) /\ Lone(Main))'
  <1>0. /\ pc' = [r \in Requesters |-> IF r = Main THEN Wait("save") ELSE Idle]
        /\ srv' = [s \in Servers |-> Nil] /\ subSrv' = Nil /\ acmeSrv' = Nil
    BY DEF Restart
  <1>1. Main \in Requesters
    BY DEF Requesters
  <1>2. pc'[Main].at = "take" /\ \A q \in Requesters : q # Main => pc'[q].at = "idle"
    BY <1>0, <1>1 DEF Wait, Idle
  <1>3. Alone(Main)' /\ LoneRead(Main)'
    BY <1>2 DEF Alone, LoneRead, At
  <1>4. \A x \in Servers : srv'[x] = Nil
    BY <1>0
  <1>5. LoneSub(Main)' /\ LoneAcme(Main)'
    BY <1>0, <1>2, <1>4 DEF LoneSub, LoneAcme, Replacing, At, Only
  <1> QED BY <1>3, <1>5 DEF Lone

\* With nobody at work it does not matter whose turn it was.
LEMMA TurnPasses ==
    ASSUME NEW q \in Requesters, NEW r \in Requesters, Alone(q), Lone(q),
           ~ At(r, "idle") \/ \A x \in Requesters \ {r} : At(x, "idle")
    PROVE  Alone(r) /\ Lone(r)
  <1>1. CASE q = r
    BY <1>1
  <1>2. CASE q # r
    <2>1. \A x \in Requesters : pc[x].at = "idle"
      BY <1>2 DEF Alone, At
    <2>2. Alone(r) /\ LoneRead(r)
      BY <2>1 DEF Alone, LoneRead, At
    <2>3. LoneSub(r)
      BY <2>1 DEF Lone, LoneSub, Replacing, At
    <2>4. LoneAcme(r)
      BY <2>1 DEF Lone, LoneAcme, At
    <2> QED BY <2>2, <2>3, <2>4 DEF Lone
  <1> QED BY <1>1, <1>2

LEMMA StepSerial == TypeInv /\ SerialInv /\ [Next]_vars => SerialInv'
  <1> SUFFICES ASSUME TypeInv, SerialInv, [Next]_vars, "overlap" \notin sc'.env, ChallengePort \notin Ports
               PROVE  \E r \in Requesters : (Alone(r) /\ Lone(r))'
    BY DEF SerialInv
  <1>1. sc' = sc
    BY DEF Next, vars, admin, Save, SaveField, Saved, Issue, Order, Take, Shut, Read, Reload, ReloadInvalid,
           ReloadShut, ReloadStart, Build, Publish, Bind, Foreign, Restart
  <1>2. "overlap" \notin sc.env
    BY <1>1
  <1>3. PICK q \in Requesters : Alone(q) /\ Lone(q)
    BY <1>2 DEF SerialInv
  <1>4. ASSUME NEW r \in Threads, (\E form \in sc.forms : Save(r, form)) \/ Issue(r)
        PROVE  \E x \in Requesters : (Alone(x) /\ Lone(x))'
    <2>1. r \in Requesters /\ \A x \in Requesters \ {r} : At(x, "idle")
      BY <1>2, <1>4 DEF Requesters, Save, Issue, MyTurn
    <2>2. Alone(r) /\ Lone(r)
      BY <1>3, <2>1, TurnPasses
    <2>3. Alone(r)' /\ Lone(r)'
      BY <1>4, <2>1, <2>2, SaveLone, IssueLone
    <2> QED BY <2>1, <2>3
  <1>5. ASSUME NEW r \in Requesters,
               SaveField(r) \/ Saved(r) \/ Order(r)
                 \/ Take(r) \/ Shut(r) \/ Read(r) \/ Reload(r) \/ ReloadInvalid(r) \/ ReloadShut(r)
                 \/ ReloadStart(r) \/ Build(r) \/ Publish(r)
        PROVE  \E x \in Requesters : (Alone(x) /\ Lone(x))'
    <2>1. ~ At(r, "idle")
      BY <1>5 DEF At, SaveField, Saved, Order, Take, Shut, Read, Reload, ReloadInvalid, ReloadShut, ReloadStart,
                  Build, Publish
    <2>2. Alone(r) /\ Lone(r)
      BY <1>3, <2>1, TurnPasses
    <2>3. Alone(r)' /\ Lone(r)'
      BY <1>5, <2>2, SaveFieldLone, SavedLone, OrderLone, TakeLone, ShutLone, ReadLone, ReloadLone,
         ReloadInvalidLone, ReloadShutLone, ReloadStartLone, BuildLone, PublishLone
    <2> QED BY <2>3
  <1>6. ASSUME NEW s \in Servers, Bind(s) PROVE \E x \in Requesters : (Alone(x) /\ Lone(x))'
    BY <1>3, <1>6, BindLone
  <1>7. CASE Foreign
    <2>1. UNCHANGED <<settings, prov, subSrv, acmeSrv, srv, pc, refused>>
      BY <1>7 DEF Foreign, servers
    <2> QED BY <1>3, <2>1, ForeignLone
  <1>8. CASE Restart
    BY <1>8, FreshAgain DEF Requesters
  <1>9. CASE UNCHANGED vars
    <2>1. UNCHANGED <<settings, prov, subSrv, acmeSrv, srv, pc, refused>>
      BY <1>9 DEF vars, servers
    <2> QED BY <1>3, <2>1, ForeignLone
  <1>10. \A r \in Threads : r \in Requesters
    BY DEF Requesters
  <1> QED BY <1>4, <1>5, <1>6, <1>7, <1>8, <1>9, <1>10 DEF Next

LEMMA InitSerial == Init => SerialInv
  <1> SUFFICES ASSUME Init PROVE Main \in Requesters /\ Alone(Main) /\ Lone(Main)
    BY DEF SerialInv
  <1> QED BY Fresh DEF Init, Requesters

\* Once the goroutines have run nobody is at work, and what holds at rest is what was promised.
LEMMA SerialTakesEffect == TypeInv /\ SerialInv => TakesEffect
  <1> SUFFICES ASSUME TypeInv, SerialInv, "overlap" \notin sc.env, ChallengePort \notin Ports PROVE InEffect /\ ChallengeAnswered
    BY DEF TakesEffect
  <1>1. PICK q \in Requesters : Alone(q) /\ Lone(q)
    BY DEF SerialInv
  <1>2. InEffect
    <2> SUFFICES ASSUME Quiet, ~ refused
                 PROVE  /\ subSrv # Nil /\ Only(subSrv, "sub") /\ Up(subSrv)
                        /\ srv[subSrv].port = settings.port /\ srv[subSrv].suffix = settings.suffix
                        /\ settings.cert # "bad" => srv[subSrv].tls = TLSEnabled(Given(settings))
      BY DEF InEffect
    <2>1. pc[q].at = "idle"
      BY DEF Quiet, At
    <2>2. subSrv # Nil /\ Only(subSrv, "sub") /\ srv[subSrv].st \in Running /\ Fits(subSrv, settings)
      BY <1>1, <2>1 DEF Lone, LoneSub, Replacing, At
    <2>3. srv[subSrv].st # "starting"
      BY <2>2, ServedFacts DEF Quiet, TypeInv, PublishedInv, Serving
    <2> QED BY <2>2, <2>3 DEF Fits, Up, Running
  <1>3. ChallengeAnswered
    <2> SUFFICES ASSUME Quiet
                 PROVE  IF acmeSrv = Nil THEN \A s \in Servers : srv[s] # Nil => srv[s].kind # "acme"
                        ELSE Only(acmeSrv, "acme") /\ Up(acmeSrv)
      BY DEF ChallengeAnswered
    <2>1. pc[q].at = "idle"
      BY DEF Quiet, At
    <2>2. Only(acmeSrv, "acme") /\ (acmeSrv # Nil => srv[acmeSrv].st \in Running)
      BY <1>1, <2>1 DEF Lone, LoneAcme, At
    <2>3. acmeSrv # Nil => srv[acmeSrv].st # "starting"
      BY ServedFacts DEF Quiet, TypeInv, PublishedInv, Serving
    <2>4. CASE acmeSrv = Nil
      BY <2>2, <2>4, SubNil DEF Only
    <2>5. CASE acmeSrv # Nil
      BY <2>2, <2>3, <2>5 DEF Up, Running
    <2> QED BY <2>4, <2>5
  <1> QED BY <1>2, <1>3

\* When requests take turns: once the goroutines have run, whatever the forms said, whatever was
\* refused half way, whoever held the ports and however often the panel restarted, one listener
\* serves what the last accepted form said, and one server answers challenges exactly when ACME is
\* configured.
THEOREM TakesEffectHolds == Spec => []TakesEffect
  BY InitSerial, StepSerial, TypeInvariant, SerialTakesEffect, PTL DEF Spec
=============================================================================

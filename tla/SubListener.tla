---------------------------- MODULE SubListener -----------------------------
(***************************************************************************)
(* The listener that serves subscriptions and the one that answers ACME    *)
(* challenges on port 80 (internal/server/sublistener.go, handlers_sub.go, *)
(* internal/cert/cert.go).                                                 *)
(*                                                                         *)
(* Both are replaced while the panel runs: a request saves settings one by *)
(* one, stops the old server, reads the settings back, gives them to the   *)
(* certificate provider, and starts a new server in a goroutine, which     *)
(* binds its port some time later or fails and is not tried again.  Every  *)
(* lock is released between those steps.                                   *)
(*                                                                         *)
(* Shutdown closes the listening socket at once; that it then waits for    *)
(* open connections is left out.  Serving a subscription, and the          *)
(* certificate an ACME order brings, do not change the state modelled.     *)
(***************************************************************************)
EXTENDS Integers, Sequences

CONSTANTS
    Threads,            \* requests in progress
    Main,               \* the goroutine that starts the panel
    Servers,            \* http.Server objects
    Nil,
    Ports, ChallengePort,
    MaxEvents,
    Scenarios           \* [env, forms, requests]: forms are what the admin saves

EnvEvents ==
    { "refused",        \* a form has a field that is not accepted
      "writeFail",      \* a setting cannot be written
      "issue",          \* the admin asks for a certificate
      "taken",          \* other programs take and release ports
      "restart",        \* the panel ends and starts again
      "overlap" }       \* requests may overlap

Fields == <<"port", "suffix", "domain", "email", "cert">>
FieldSet == { Fields[i] : i \in DOMAIN Fields }

\* What the database holds for a certificate and its key: a pair, something that does not parse,
\* or not both.
Certs == {"none", "good", "bad"}

\* An accepted form: every field is optional, the port is a number from the range.
IsForm(f) ==
    /\ DOMAIN f \subseteq FieldSet
    /\ "port" \in DOMAIN f => f.port \in Ports
    /\ "cert" \in DOMAIN f => f.cert \in Certs

ASSUME SubScenarios ==
    /\ MaxEvents \in Nat
    /\ \A s \in Scenarios : /\ s.env \subseteq EnvEvents /\ s.requests \in Nat
                            /\ \A f \in s.forms : IsForm(f)
ASSUME SubPorts == Ports \subseteq Nat /\ Ports # {} /\ ChallengePort \in Nat

\* defaultSubSuffix, and what the forms bring.
Suffixes ==
    {"default"} \union { f.suffix : f \in { g \in UNION { s.forms : s \in Scenarios } : "suffix" \in DOMAIN g } }

\* The life of a server: its goroutine has yet to run, it binds its port, it serves, the port was
\* another program's or one of ours, it was stopped before its goroutine ran.
States == {"new", "starting", "listening", "taken", "failed", "closed"}

Served == [kind : {"sub"}, port : Ports, suffix : Suffixes, tls : BOOLEAN, st : States]
          \union [kind : {"acme"}, port : {ChallengePort}, st : States]

ASSUME SubNil == Nil \notin Servers /\ Nil \notin Served

VARIABLES
    sc,         \* the scenario, never changed
    left,       \* requests the admin may still make
    events,     \* failures, restarts and foreign ports so far
    settings,   \* the sub_ settings of the database
    prov,       \* cert.Provider: domain, email and whether it holds a manual certificate
    subSrv,     \* Server.subSrv
    acmeSrv,    \* Provider.acmeSrv
    srv,        \* the servers that exist
    foreign,    \* ports other programs hold
    pc,         \* what each request in progress does next
    refused     \* ghost: the last form was answered with an error

admin == <<sc, left>>
servers == <<prov, subSrv, acmeSrv, srv>>
vars == <<admin, events, settings, servers, foreign, pc, refused>>

Requesters == Threads \union {Main}
Idle == [at |-> "idle"]
At(r, where) == pc[r].at = where
Goto(r, rec) == pc' = [pc EXCEPT ![r] = rec]

\* The server a request is about to stop, and the one it is about to start.
Old(r) == IF pc[r].at \in {"shut", "reloadShut"} THEN pc[r].old ELSE Nil
New(r) == IF pc[r].at \in {"reloadShut", "reloadStart", "publish"} THEN pc[r].new ELSE Nil

\* A server nobody can reach any more is a new object's place.
Free == { s \in Servers : srv[s] = Nil /\ \A r \in Requesters : s \notin {Old(r), New(r)} }

Blank == ""

\* readSubSettings of an empty database.
Defaults == [port |-> CHOOSE p \in Ports : TRUE, suffix |-> "default", domain |-> Blank, email |-> Blank, cert |-> "none"]

NoCertificate == [domain |-> Blank, email |-> Blank, manual |-> FALSE]

Wait(why) == [at |-> "take", why |-> why]

Init ==
    /\ sc \in Scenarios
    /\ left = sc.requests /\ events = 0
    /\ settings = Defaults
    /\ prov = NoCertificate
    /\ subSrv = Nil /\ acmeSrv = Nil
    /\ srv = [s \in Servers |-> Nil]
    /\ foreign = {}
    /\ pc = [r \in Requesters |-> IF r = Main THEN Wait("save") ELSE Idle]
    /\ refused = FALSE

-----------------------------------------------------------------------------
MyTurn(r) == "overlap" \in sc.env \/ \A q \in Requesters \ {r} : At(q, "idle")
Happens(what) == what \in sc.env /\ events < MaxEvents /\ events' = events + 1

(* handleSubConfigPut *)

Save(r, form) ==
    /\ At(r, "idle") /\ r # Main /\ MyTurn(r) /\ left > 0
    /\ left' = left - 1
    /\ Goto(r, [at |-> "save", form |-> form, k |-> 1])
    /\ UNCHANGED <<sc, events, settings, servers, foreign, refused>>

\* A field that is there is checked and written; the first that is not accepted, or cannot be
\* written, ends the request with those before it written.  Certificate and key are two
\* settings: between them the pair does not match.
SaveField(r) ==
    /\ At(r, "save") /\ pc[r].k <= Len(Fields)
    /\ LET field == Fields[pc[r].k]
       IN  \/ /\ settings' = IF field \in DOMAIN pc[r].form
                             THEN [settings EXCEPT ![field] = pc[r].form[field]] ELSE settings
              /\ Goto(r, [pc[r] EXCEPT !.k = @ + 1])
              /\ UNCHANGED <<events, refused>>
           \/ /\ field \in DOMAIN pc[r].form
              /\ \/ Happens("refused") /\ field \in {"port", "domain", "email"} /\ UNCHANGED settings
                 \/ Happens("writeFail") /\ UNCHANGED settings
                 \/ /\ Happens("writeFail") /\ field = "cert"
                    /\ settings' = [settings EXCEPT !.cert = IF "none" \in {@, pc[r].form.cert} THEN "none" ELSE "bad"]
              /\ refused' = TRUE
              /\ Goto(r, Idle)
    /\ UNCHANGED <<admin, servers, foreign>>

Saved(r) ==
    /\ At(r, "save") /\ pc[r].k > Len(Fields)
    /\ refused' = FALSE
    /\ Goto(r, Wait("save"))
    /\ UNCHANGED <<admin, events, settings, servers, foreign>>

-----------------------------------------------------------------------------
(* restartSubscription, and Provider.Reload in it *)

\* Mutant: a server that has not bound its port yet is not told.
CloseBound(s) == [srv EXCEPT ![s] = IF @ # Nil /\ @.st \in {"new", "starting"} THEN @ ELSE Nil]

\* Shutdown: a server whose goroutine has yet to run will not serve.
Close(s) == [srv EXCEPT ![s] = IF @ # Nil /\ @.st = "new" THEN [@ EXCEPT !.st = "closed"] ELSE Nil]

Take(r) ==
    /\ At(r, "take")
    /\ subSrv' = Nil
    /\ Goto(r, [at |-> "shut", why |-> pc[r].why, old |-> subSrv])
    /\ UNCHANGED <<admin, events, settings, prov, acmeSrv, srv, foreign, refused>>

Shut(r) ==
    /\ At(r, "shut")
    /\ srv' = IF pc[r].old = Nil THEN srv ELSE Close(pc[r].old)
    /\ Goto(r, [at |-> "read", why |-> pc[r].why])
    /\ UNCHANGED <<admin, events, settings, prov, subSrv, acmeSrv, foreign, refused>>

\* readSubSettings, for the listener and for an order.
Read(r) ==
    /\ At(r, "read")
    /\ Goto(r, IF pc[r].why = "issue" /\ (settings.domain = Blank \/ settings.email = Blank) THEN Idle
               ELSE [at |-> "reload", why |-> pc[r].why, set |-> settings])
    /\ UNCHANGED <<admin, events, settings, servers, foreign, refused>>

\* After the provider: a listener that serves, or the order of the certificate.
Reloaded(r) == [at |-> IF pc[r].why = "issue" THEN "order" ELSE "build", why |-> pc[r].why, set |-> pc[r].set]

Acme(p) == p.domain # Blank /\ p.email # Blank
TLSEnabled(p) == p.domain # Blank /\ (p.manual \/ p.email # Blank)
Given(set) == [domain |-> set.domain, email |-> set.email, manual |-> set.cert = "good"]

\* Mutant: the challenge server stays when ACME is switched off.
ReloadKeeping(r) ==
    /\ At(r, "reload") /\ pc[r].set.cert # "bad"
    /\ prov' = Given(pc[r].set)
    /\ IF Acme(prov')
       THEN \E s \in Free :
                /\ acmeSrv' = s
                /\ srv' = [srv EXCEPT ![s] = [kind |-> "acme", port |-> ChallengePort, st |-> "new"]]
       ELSE UNCHANGED <<acmeSrv, srv>>
    /\ Goto(r, [at |-> "reloadShut", why |-> pc[r].why, set |-> pc[r].set,
                old |-> IF Acme(prov') THEN acmeSrv ELSE Nil, new |-> IF Acme(prov') THEN acmeSrv' ELSE Nil])
    /\ UNCHANGED <<admin, events, settings, subSrv, foreign, refused>>

Reload(r) ==
    /\ At(r, "reload") /\ pc[r].set.cert # "bad"
    /\ prov' = Given(pc[r].set)
    /\ IF Acme(prov')
       THEN \E s \in Free :
                /\ acmeSrv' = s
                /\ srv' = [srv EXCEPT ![s] = [kind |-> "acme", port |-> ChallengePort, st |-> "new"]]
       ELSE acmeSrv' = Nil /\ UNCHANGED srv
    /\ Goto(r, [at |-> "reloadShut", why |-> pc[r].why, set |-> pc[r].set, old |-> acmeSrv, new |-> acmeSrv'])
    /\ UNCHANGED <<admin, events, settings, subSrv, foreign, refused>>

\* A manual certificate that does not parse changes nothing in the provider; the listener is
\* built all the same, an order is refused.
ReloadInvalid(r) ==
    /\ At(r, "reload") /\ pc[r].set.cert = "bad"
    /\ Goto(r, IF pc[r].why = "issue" THEN Idle ELSE Reloaded(r))
    /\ UNCHANGED <<admin, events, settings, servers, foreign, refused>>

ReloadShut(r) ==
    /\ At(r, "reloadShut")
    /\ srv' = IF pc[r].old = Nil THEN srv ELSE Close(pc[r].old)
    /\ Goto(r, IF pc[r].new = Nil THEN Reloaded(r)
               ELSE [at |-> "reloadStart", why |-> pc[r].why, set |-> pc[r].set, new |-> pc[r].new])
    /\ UNCHANGED <<admin, events, settings, prov, subSrv, acmeSrv, foreign, refused>>

\* The goroutine of a server: Shutdown may have come before it.
Started(s) == [srv EXCEPT ![s] = IF @.st = "new" THEN [@ EXCEPT !.st = "starting"] ELSE Nil]

ReloadStart(r) ==
    /\ At(r, "reloadStart")
    /\ srv' = Started(pc[r].new)
    /\ Goto(r, Reloaded(r))
    /\ UNCHANGED <<admin, events, settings, prov, subSrv, acmeSrv, foreign, refused>>

\* The new server: what the settings said when they were read, TLS as the provider says now.
Build(r) ==
    /\ At(r, "build")
    /\ \E s \in Free :
          /\ srv' = [srv EXCEPT ![s] =
                        [kind |-> "sub", port |-> pc[r].set.port, suffix |-> pc[r].set.suffix,
                         tls |-> TLSEnabled(prov), st |-> "new"]]
          /\ Goto(r, [at |-> "publish", new |-> s])
    /\ UNCHANGED <<admin, events, settings, prov, subSrv, acmeSrv, foreign, refused>>

Publish(r) ==
    /\ At(r, "publish")
    /\ subSrv' = pc[r].new
    /\ srv' = Started(pc[r].new)
    /\ Goto(r, Idle)
    /\ UNCHANGED <<admin, events, settings, prov, acmeSrv, foreign, refused>>

\* ListenAndServe: the port is free, or the goroutine ends.  Nobody starts it again.
Listening(port) == \E s \in Servers : srv[s] # Nil /\ srv[s].port = port /\ srv[s].st = "listening"

Bind(s) ==
    /\ srv[s] # Nil /\ srv[s].st = "starting"
    /\ srv' = [srv EXCEPT ![s].st = IF srv[s].port \in foreign THEN "taken"
                                    ELSE IF Listening(srv[s].port) THEN "failed" ELSE "listening"]
    /\ UNCHANGED <<admin, events, settings, prov, subSrv, acmeSrv, foreign, pc, refused>>

-----------------------------------------------------------------------------
(* handleCertIssue: read, Reload, order, and a restart of the listener if it succeeds *)

Issue(r) ==
    /\ "issue" \in sc.env
    /\ At(r, "idle") /\ r # Main /\ MyTurn(r) /\ left > 0
    /\ left' = left - 1
    /\ Goto(r, [at |-> "read", why |-> "issue"])
    /\ UNCHANGED <<sc, events, settings, servers, foreign, refused>>

Order(r) ==
    /\ At(r, "order")
    /\ \/ Acme(prov) /\ Goto(r, Wait("save"))
       \/ Goto(r, Idle)
    /\ UNCHANGED <<admin, events, settings, servers, foreign, refused>>

-----------------------------------------------------------------------------
Foreign ==
    /\ Happens("taken")
    /\ \E p \in Ports \union {ChallengePort} :
          \/ p \in foreign /\ foreign' = foreign \ {p}
          \/ p \notin foreign /\ ~ Listening(p) /\ foreign' = foreign \union {p}
    /\ UNCHANGED <<admin, settings, servers, pc, refused>>

\* StopSubscription, Close and the end of the process; then main once more.
Restart ==
    /\ Happens("restart")
    /\ prov' = NoCertificate
    /\ subSrv' = Nil /\ acmeSrv' = Nil
    /\ srv' = [s \in Servers |-> Nil]
    /\ pc' = [r \in Requesters |-> IF r = Main THEN Wait("save") ELSE Idle]
    /\ refused' = FALSE
    /\ UNCHANGED <<admin, settings, foreign>>

Next ==
    \/ \E r \in Threads : (\E form \in sc.forms : Save(r, form)) \/ SaveField(r) \/ Saved(r) \/ Issue(r) \/ Order(r)
    \/ \E r \in Requesters :
          Take(r) \/ Shut(r) \/ Read(r) \/ Reload(r) \/ ReloadInvalid(r) \/ ReloadShut(r) \/ ReloadStart(r)
            \/ Build(r) \/ Publish(r)
    \/ \E s \in Servers : Bind(s)
    \/ Foreign \/ Restart

Spec == Init /\ [][Next]_vars

-----------------------------------------------------------------------------
Stages == {"idle", "save", "take", "shut", "read", "reload", "reloadShut", "reloadStart", "build",
           "publish", "order"}

\* The challenge server exists when, and only when, ACME is configured, and the published
\* servers are of their kind.
TypeOK ==
    /\ events \in 0..MaxEvents /\ refused \in BOOLEAN
    /\ settings.port \in Ports /\ settings.cert \in Certs
    /\ \A r \in Requesters : pc[r].at \in Stages
    /\ acmeSrv # Nil <=> Acme(prov)
    /\ acmeSrv # Nil => srv[acmeSrv].kind = "acme" /\ srv[acmeSrv].port = ChallengePort
    /\ subSrv # Nil => srv[subSrv].kind = "sub"
    /\ \A s \in Servers : srv[s] \in Served \union {Nil}

Quiet == (\A r \in Requesters : At(r, "idle")) /\ \A s \in Servers : srv[s] # Nil => srv[s].st # "starting"

\* Up, unless another program had the port.
Up(s) == srv[s].st \in {"listening", "taken"}
Only(s, kind) == \A x \in Servers : srv[x] # Nil /\ srv[x].kind = kind => x = s

\* A form that was answered with success is in effect once its goroutines have run, without a
\* restart of the panel: one server, on the port, the path and the protocol of the settings.
InEffect ==
    Quiet /\ ~ refused =>
        /\ subSrv # Nil /\ Only(subSrv, "sub") /\ Up(subSrv)
        /\ srv[subSrv].port = settings.port /\ srv[subSrv].suffix = settings.suffix
        /\ settings.cert # "bad" => srv[subSrv].tls = TLSEnabled(Given(settings))

\* With ACME configured the server that answers its challenges is up, and it is the only one.
ChallengeAnswered ==
    Quiet => IF acmeSrv = Nil THEN \A s \in Servers : srv[s] # Nil => srv[s].kind # "acme"
             ELSE Only(acmeSrv, "acme") /\ Up(acmeSrv)

\* Both hold when requests take turns and no form asks for the port of the challenge: also when a
\* goroutine has yet to bind its port as the next request stops its server, after forms refused
\* half way, and after ports others had.
TakesEffect == "overlap" \notin sc.env /\ ChallengePort \notin Ports => InEffect /\ ChallengeAnswered

\* "The certificate is invalid, the subscription is served by HTTP": the log says so.
InvalidIsPlain ==
    Quiet /\ ~ refused /\ settings.cert = "bad" => subSrv # Nil /\ ~ srv[subSrv].tls
=============================================================================

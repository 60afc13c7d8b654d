------------------------------- MODULE Alerts -------------------------------
(***************************************************************************)
(* Notifications (internal/alerts/alerts.go, internal/notify/notify.go).   *)
(*                                                                         *)
(* After each sampling pass the sampler hands a snapshot of the nodes to   *)
(* ObserveNodes, which compares it with what it saw last and sends what    *)
(* changed; a second loop checks the host.  Send drops what is switched    *)
(* off and what repeats an event and key within the cooldown, takes note   *)
(* of the time, and only then posts: a message that is lost is not sent    *)
(* again.  A post takes time, during which nodes and settings change.      *)
(*                                                                         *)
(* Messages of one handler call without a key (a node added or deleted,    *)
(* the panel started or stopped) pass the cooldown and leave no state;     *)
(* they are not modelled.                                                  *)
(***************************************************************************)
EXTENDS Integers, Sequences, FiniteSets

CONSTANTS
    Nodes,
    Reality,        \* the nodes a sing-box process carries; the others are gost's
    Resources,      \* cpu, mem, disk
    Limit,          \* the quota, in steps of usage; at the limit a node is blocked
    Thresholds,     \* the sets of thresholds the admin may choose, in the same steps
    Cooldowns,      \* and the cooldowns, in ticks
    MaxNow, MaxEvents,
    Nil,
    Scenarios

EnvEvents ==
    { "flip",       \* nodes go down and come up
      "clients",    \* clients come and go
      "traffic",    \* usage grows
      "window",     \* a quota window ends, and Reconcile gives gost the next one
      "stale",      \* gost starts from an old gost.yml, until Reconcile has set it right
      "load",       \* the host's load changes
      "settings",   \* the admin changes the notification settings
      "lost",       \* a post fails
      "apiDown",    \* gost's API does not answer a pass
      "quotasFail", \* it lists its services, and not its quotas
      "restart" }

ASSUME AlertScenarios == Scenarios \subseteq SUBSET EnvEvents
ASSUME AlertBounds ==
    /\ Limit \in Nat \ {0} /\ MaxNow \in Nat /\ MaxEvents \in Nat
    /\ Thresholds \subseteq SUBSET (1..(Limit - 1)) /\ Thresholds # {}
    /\ Cooldowns \subseteq Nat \ {0} /\ Cooldowns # {}
ASSUME AlertNodes == IsFiniteSet(Nodes) /\ Nil \notin BOOLEAN

Events == {"nodeUp", "nodeDown", "nodeClient", "quotaBlocked", "trafficWarn", "loadWarn"}

VARIABLES
    env, now, events,
    truth,      \* what the nodes do: up, clients, usage and the number of the quota window; until
                \* is the window gost says it counts for
    load,       \* the resources above their threshold
    cfg,        \* notify.Config and the thresholds
    live,       \* Controller.live: what the last pass found, Nil before the first
    nodeRunning, nodeConns, quotaLevel, windowKey,  \* alerts.Manager
    last,       \* Notifier.last: event and key -> when it was last posted
    pass,       \* the sampling pass and ObserveNodes
    host,       \* the loop of checkHost
    word,       \* ghost: whether the admin was last told that a node is up or down
    tried,      \* ghost: up and down messages -> when a post of it last began, in whatever end
    flip,       \* ghost: the last change of each node observed, and what became of its message
    warned      \* ghost: node, threshold and quota window -> how often it was announced; 0 when the
                \* announcement was switched off or came within the cooldown of the last window's

outside == <<env, now, events, truth, load>>
manager == <<nodeRunning, nodeConns, quotaLevel, windowKey>>
vars == <<outside, cfg, live, manager, last, pass, host, word, tried, flip, warned>>

Idle == [at |-> "idle"]

Running == [on |-> TRUE, off |-> {}, cooldown |-> CHOOSE c \in Cooldowns : TRUE,
            thresholds |-> CHOOSE t \in Thresholds : TRUE]

Init ==
    /\ env \in Scenarios
    /\ now = 0 /\ events = 0
    /\ truth = [n \in Nodes |-> [up |-> TRUE, conns |-> 0, used |-> 0, window |-> 1, until |-> 1]]
    /\ load = {}
    /\ cfg = Running
    /\ live = [n \in Nodes |-> Nil]
    /\ nodeRunning = [n \in Nodes |-> Nil] /\ nodeConns = [n \in Nodes |-> Nil]
    /\ quotaLevel = [n \in Nodes |-> 0] /\ windowKey = [n \in Nodes |-> 0]
    /\ last = << >>
    /\ pass = Idle /\ host = Idle
    /\ word = [n \in Nodes |-> Nil] /\ tried = << >> /\ flip = [n \in Nodes |-> Nil]
    /\ warned = << >>

-----------------------------------------------------------------------------
(* Send *)

Message(event, key) == [event |-> event, key |-> key]
Nothing == Message("", "")

EventEnabled(event) == cfg.on /\ event \notin cfg.off

\* Mutant: one cooldown for all that is said of a node.
CoolingAny(m) == \E k \in DOMAIN last : k.key = m.key /\ now - last[k] < cfg.cooldown

Cooling(m) == m \in DOMAIN last /\ now - last[m] < cfg.cooldown

\* Send comes to a post.
Posts(m) == m # Nothing /\ EventEnabled(m.event) /\ ~ Cooling(m)

\* Mutant: the end of the cooldown is noted, not the time.
ReserveDeadline(m) ==
    last' = IF Posts(m) THEN [k \in DOMAIN last \union {m} |-> IF k = m THEN now + cfg.cooldown ELSE last[k]]
            ELSE last

\* Send up to the post: the time is noted before anything is sent.
Reserve(m) ==
    last' = IF Posts(m) THEN [k \in DOMAIN last \union {m} |-> IF k = m THEN now ELSE last[k]]
            ELSE last

-----------------------------------------------------------------------------
(* The sampling pass.  What it finds of reality nodes it finds after ObserveNodes, so that   *)
(* these are seen one pass late.                                                             *)

\* A sing-box node has no window of gost's, and its QuotaUntil stays 0.  An error of Quotas
\* is dropped: without the listing there is no limit, no usage and no window.
Found(n, listed) ==
    [up |-> truth[n].up, conns |-> truth[n].conns, quota |-> listed,
     used |-> IF listed THEN truth[n].used ELSE 0,
     until |-> IF n \in Reality \/ ~ listed THEN 0 ELSE truth[n].until, window |-> truth[n].window]

\* ObserveNodes begins with a copy of live, in the order of the nodes.
Observe(order, snapshot) ==
    pass' = [at |-> "running", todo |-> order, snap |-> snapshot, msg |-> Nothing]

PassBegin ==
    /\ pass.at = "idle"
    /\ \E listed \in BOOLEAN :
          /\ listed \/ "quotasFail" \in env
          /\ live' = [n \in Nodes |-> IF n \in Reality THEN live[n] ELSE Found(n, listed)]
    /\ \E order \in [1..Cardinality(Nodes) -> Nodes] :
          /\ \A n \in Nodes : \E i \in DOMAIN order : order[i] = n
          /\ Observe(order, live')
    /\ UNCHANGED <<outside, cfg, manager, last, host, word, tried, flip, warned>>

\* gost does not answer: there is nothing to observe, the sing-box nodes are sampled all the same.
PassBlind ==
    /\ "apiDown" \in env
    /\ pass.at = "idle"
    /\ live' = [n \in Nodes |-> IF n \in Reality THEN Found(n, TRUE) ELSE live[n]]
    /\ UNCHANGED <<outside, cfg, manager, last, pass, host, word, tried, flip, warned>>

PassEnd ==
    /\ pass.at = "running" /\ pass.todo = << >>
    /\ live' = [n \in Nodes |-> IF n \in Reality THEN Found(n, TRUE) ELSE live[n]]
    /\ pass' = Idle
    /\ UNCHANGED <<outside, cfg, manager, last, host, word, tried, flip, warned>>

Turn(part) == pass.at = part /\ pass.todo # << >>
Node == Head(pass.todo)
Seen == pass.snap[Node]

\* The part that follows, or the next node.
Following(part) ==
    CASE part = "running" -> [pass EXCEPT !.at = "clients"]
      [] part = "clients" -> [pass EXCEPT !.at = "blocked"]
      [] part = "blocked" -> [pass EXCEPT !.at = "warn"]
      [] OTHER -> [pass EXCEPT !.at = "running", !.todo = Tail(@)]

Tells(m) == m.event \in {"nodeUp", "nodeDown"}

\* Send m, and go on when it is posted, or at once.
Sending(part, m) ==
    /\ Reserve(m)
    /\ tried' = IF Tells(m) /\ Posts(m)
                THEN [k \in DOMAIN tried \union {m} |-> IF k = m THEN now ELSE tried[k]] ELSE tried
    /\ pass' = IF Posts(m) THEN [Following(part) EXCEPT !.at = "post", !.msg = [m |-> m, then |-> Following(part).at, n |-> Node]]
               ELSE Following(part)

\* A node without an entry is passed over.
SkipNode ==
    /\ Turn("running") /\ Seen = Nil
    /\ pass' = [pass EXCEPT !.todo = Tail(@)]
    /\ UNCHANGED <<outside, cfg, live, manager, last, host, word, tried, flip, warned>>

\* 1) up and down: the first time there is nothing to compare with.
ObserveRunning ==
    /\ Turn("running") /\ Seen # Nil
    /\ LET changed == nodeRunning[Node] \notin {Nil, Seen.up}
           m == IF changed THEN Message(IF Seen.up THEN "nodeUp" ELSE "nodeDown", Node) ELSE Nothing
       IN  /\ Sending("running", m)
           /\ flip' = IF changed
                      THEN [flip EXCEPT ![Node] =
                              [up |-> Seen.up, off |-> ~ EventEnabled(m.event), lost |-> FALSE,
                               repeats |-> m \in DOMAIN tried /\ now - tried[m] < cfg.cooldown]]
                      ELSE flip
    /\ nodeRunning' = [nodeRunning EXCEPT ![Node] = Seen.up]
    /\ UNCHANGED <<outside, cfg, live, nodeConns, quotaLevel, windowKey, host, word, warned>>

\* 2) the first client came or the last one left.
ObserveClients ==
    /\ Turn("clients")
    /\ LET before == nodeConns[Node]
           m == IF before = Nil THEN Nothing
                ELSE IF before = 0 /\ Seen.conns > 0 THEN Message("nodeClient", <<Node, "online">>)
                ELSE IF before > 0 /\ Seen.conns = 0 THEN Message("nodeClient", <<Node, "offline">>)
                ELSE Nothing
       IN  Sending("clients", m)
    /\ nodeConns' = [nodeConns EXCEPT ![Node] = Seen.conns]
    /\ UNCHANGED <<outside, cfg, live, nodeRunning, quotaLevel, windowKey, host, word, flip, warned>>

\* 3) blocked by the quota: said in every pass the cooldown lets through.
ObserveBlocked ==
    /\ Turn("blocked")
    /\ Sending("blocked", IF Seen.quota /\ Seen.used = Limit THEN Message("quotaBlocked", Node) ELSE Nothing)
    /\ UNCHANGED <<outside, cfg, live, manager, host, word, flip, warned>>

\* The highest threshold reached, 0 for none.
Best(used) ==
    LET reached == { t \in cfg.thresholds : used >= t }
    IN  IF reached = {} THEN 0 ELSE CHOOSE t \in reached : \A u \in reached : u <= t

\* Mutant: any threshold that is reached is announced, again and again.
RisesAlways(best, level) == best > 0

Rises(best, level) == best > level

\* Mutant: the level survives the window.
LevelKept(n, until) == quotaLevel[n]

LevelIn(n, until) == IF windowKey[n] # until THEN 0 ELSE quotaLevel[n]

\* 4) a threshold passed, once per window.
ObserveWarn ==
    /\ Turn("warn")
    /\ IF ~ Seen.quota \/ Seen.used = Limit
       THEN /\ Sending("warn", Nothing)
            /\ UNCHANGED <<quotaLevel, windowKey, warned>>
       ELSE LET level == LevelIn(Node, Seen.until)
                best == Best(Seen.used)
                m == IF Rises(best, level) THEN Message("trafficWarn", <<Node, best>>) ELSE Nothing
            IN  /\ windowKey' = [windowKey EXCEPT ![Node] = Seen.until]
                /\ quotaLevel' = [quotaLevel EXCEPT ![Node] = IF Rises(best, level) THEN best ELSE level]
                /\ Sending("warn", m)
                /\ warned' = IF m = Nothing THEN warned
                             ELSE LET k == <<Node, best, Seen.window>>
                                      count == IF k \in DOMAIN warned THEN warned[k] ELSE 0
                                  IN  [x \in DOMAIN warned \union {k} |->
                                         IF x # k THEN warned[x] ELSE IF Posts(m) THEN count + 1 ELSE count]
    /\ UNCHANGED <<outside, cfg, live, nodeRunning, nodeConns, host, word, flip>>

\* The post is answered, or fails; nobody asks which.
Post ==
    /\ pass.at = "post"
    /\ LET m == pass.msg.m
           n == pass.msg.n
       IN  \/ /\ word' = IF Tells(m) THEN [word EXCEPT ![n] = (m.event = "nodeUp")] ELSE word
              /\ UNCHANGED flip
           \/ /\ "lost" \in env
              /\ flip' = IF Tells(m) THEN [flip EXCEPT ![n].lost = TRUE] ELSE flip
              /\ UNCHANGED word
    /\ pass' = [pass EXCEPT !.at = pass.msg.then, !.msg = Nothing]
    /\ UNCHANGED <<outside, cfg, live, manager, last, host, tried, warned>>

-----------------------------------------------------------------------------
(* checkHost: the metrics are read once, each resource is compared and sent in turn *)

HostBegin ==
    /\ host.at = "idle" /\ load # {}
    /\ cfg.on
    /\ host' = [at |-> "check", todo |-> load]
    /\ UNCHANGED <<outside, cfg, live, manager, last, pass, word, tried, flip, warned>>

HostSend ==
    /\ host.at = "check"
    /\ \E x \in host.todo :
          LET m == Message("loadWarn", x)
          IN  /\ Reserve(m)
              /\ host' = IF Posts(m) THEN [at |-> "post", todo |-> host.todo \ {x}]
                         ELSE IF host.todo = {x} THEN Idle ELSE [host EXCEPT !.todo = @ \ {x}]
    /\ UNCHANGED <<outside, cfg, live, manager, pass, word, tried, flip, warned>>

HostPost ==
    /\ host.at = "post"
    /\ host' = IF host.todo = {} THEN Idle ELSE [at |-> "check", todo |-> host.todo]
    /\ UNCHANGED <<outside, cfg, live, manager, last, pass, word, tried, flip, warned>>

-----------------------------------------------------------------------------
(* Around them *)

Happens(event) == event \in env /\ events < MaxEvents /\ events' = events + 1

Change(n, rec) == truth' = [truth EXCEPT ![n] = rec]

World ==
    /\ \E n \in Nodes :
          LET t == truth[n]
          IN  \/ Happens("flip") /\ Change(n, [t EXCEPT !.up = ~ @])
              \/ Happens("clients") /\ Change(n, [t EXCEPT !.conns = 1 - @])
              \/ Happens("traffic") /\ t.used < Limit /\ Change(n, [t EXCEPT !.used = @ + 1])
              \/ Happens("window") /\ Change(n, [t EXCEPT !.used = 0, !.window = @ + 1, !.until = t.window + 1])
              \/ /\ Happens("stale") /\ n \notin Reality
                 /\ \E u \in 1..t.window, b \in 0..Limit :
                       /\ IF u < t.until THEN b <= t.used ELSE u = t.window /\ b >= t.used
                       /\ Change(n, [t EXCEPT !.until = u, !.used = b])
    /\ UNCHANGED <<env, now, load, cfg, live, manager, last, pass, host, word, tried, flip, warned>>

Load ==
    /\ Happens("load")
    /\ load' \in SUBSET Resources \ {load}
    /\ UNCHANGED <<env, now, truth, cfg, live, manager, last, pass, host, word, tried, flip, warned>>

\* handleNotifyPut and Reload.
Settings ==
    /\ Happens("settings")
    /\ \E on \in BOOLEAN, off \in {{}, {"nodeDown"}}, c \in Cooldowns, t \in Thresholds :
          cfg' = [on |-> on, off |-> off, cooldown |-> c, thresholds |-> t]
    /\ cfg' # cfg
    /\ UNCHANGED <<env, now, truth, load, live, manager, last, pass, host, word, tried, flip, warned>>

\* A restart of the panel forgets everything but the settings; the ghosts start anew with it.
Restart ==
    /\ Happens("restart")
    /\ live' = [n \in Nodes |-> Nil]
    /\ nodeRunning' = [n \in Nodes |-> Nil] /\ nodeConns' = [n \in Nodes |-> Nil]
    /\ quotaLevel' = [n \in Nodes |-> 0] /\ windowKey' = [n \in Nodes |-> 0]
    /\ last' = << >>
    /\ pass' = Idle /\ host' = Idle
    /\ word' = [n \in Nodes |-> Nil] /\ tried' = << >>
    /\ flip' = [n \in Nodes |-> Nil] /\ warned' = << >>
    /\ UNCHANGED <<env, now, truth, load, cfg>>

Tick ==
    /\ now < MaxNow
    /\ now' = now + 1
    /\ UNCHANGED <<env, events, truth, load, cfg, live, manager, last, pass, host, word, tried, flip, warned>>

Next ==
    \/ PassBegin \/ PassBlind \/ SkipNode
    \/ ObserveRunning \/ ObserveClients \/ ObserveBlocked \/ ObserveWarn \/ Post \/ PassEnd
    \/ HostBegin \/ HostSend \/ HostPost
    \/ World \/ Load \/ Settings \/ Restart \/ Tick

Spec == Init /\ [][Next]_vars

-----------------------------------------------------------------------------
Stages == {"idle", "running", "clients", "blocked", "warn", "post"}

TypeOK ==
    /\ now \in 0..MaxNow /\ events \in 0..MaxEvents
    /\ pass.at \in Stages /\ host.at \in {"idle", "check", "post"}
    /\ host.at = "check" => host.todo # {}
    /\ \A n \in Nodes :
          /\ nodeRunning[n] \in BOOLEAN \union {Nil} /\ nodeConns[n] \in {0, 1, Nil}
          /\ quotaLevel[n] \in 0..(Limit - 1)
          /\ n \in Reality => windowKey[n] = 0
    /\ \A m \in DOMAIN last : m.event \in Events /\ last[m] <= now

\* Between passes the admin was last told of a node what the panel last saw, unless the message
\* about that change was switched off, was lost, or came within the cooldown of an earlier post
\* of the same message (Send drops repetitions, and nothing else).
LastWord ==
    pass.at = "idle" => \A n \in Nodes :
        flip[n] # Nil /\ word[n] # nodeRunning[n] => flip[n].off \/ flip[n].lost \/ flip[n].repeats

\* gost's window is the panel's.
Current == "stale" \notin env

\* In one life of the panel a threshold is announced once in a quota window, also when the
\* thresholds, the usage or the switches change meanwhile and gost's answers fail.
WarnedOnce == Current => \A k \in DOMAIN warned : warned[k] <= 1

\* The thresholds the admin cannot but have set.
Lasting == { t \in 1..(Limit - 1) : \A choice \in Thresholds : t \in choice }

\* The thresholds a node has reached come to an announcement in that window, of themselves or
\* of a higher one.
Announced(n, seen) ==
    \A t \in Lasting : t <= seen.used =>
        \E u \in t..Limit : <<n, u, seen.window>> \in DOMAIN warned

AnnouncedOf(nodes) ==
    pass.at = "running" /\ pass.todo = << >> =>
        \A n \in nodes : pass.snap[n] # Nil /\ pass.snap[n].used < Limit => Announced(n, pass.snap[n])

\* When a pass has looked at all nodes, every threshold a gost node has reached has come to
\* an announcement in the present quota window, however often windows ended and settings changed.
WarnedEachWindow == Current => AnnouncedOf(Nodes \ Reality)

\* The same when gost may start from an old gost.yml and show the window written there.
WarnedThroughout == AnnouncedOf(Nodes \ Reality) /\ \A k \in DOMAIN warned : warned[k] <= 1

\* The same of the nodes a sing-box process carries; DEVELOPMENT.md makes no difference.
RealityWarnedToo == AnnouncedOf(Reality)
=============================================================================

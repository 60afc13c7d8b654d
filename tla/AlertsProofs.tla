---------------------------- MODULE AlertsProofs ----------------------------
(***************************************************************************)
(* What Alerts says of every number of nodes and of thresholds: its types, *)
(* that a threshold is announced once in a quota window and not left out,  *)
(* and that the last word on a node is the state last seen.                *)
(*                                                                         *)
(* The invariant relates what alerts.Manager remembers to what has been    *)
(* said: the level of a node is a threshold announced in the window it     *)
(* remembers, nothing higher was announced in it, and that window is never *)
(* later than the one the pass sees.                                       *)
(***************************************************************************)
EXTENDS Alerts, FiniteSetTheorems, SequenceTheorems, WellFoundedInduction, TLAPS

-----------------------------------------------------------------------------
(* The invariant *)

WorldOK ==
    /\ now \in 0..MaxNow /\ events \in 0..MaxEvents
    /\ truth \in [Nodes -> [up : BOOLEAN, conns : {0, 1}, used : 0..Limit, window : Nat \ {0},
                          until : Nat]]
    /\ Current => \A n \in Nodes : truth[n].until = truth[n].window
    /\ cfg.cooldown \in Cooldowns /\ cfg.thresholds \in Thresholds

\* What a pass finds of a node: the window the manager compares is gost's, or 0.
EntryOK(n, e) ==
    e # Nil =>
        /\ e.up \in BOOLEAN /\ e.conns \in {0, 1} /\ e.used \in 0..Limit /\ e.window \in Nat \ {0}
        /\ e.quota \in BOOLEAN /\ e.until \in Nat
        /\ ~ e.quota => e.used = 0
        /\ n \in Reality => e.until = 0
        /\ Current /\ e.quota /\ n \notin Reality => e.until = e.window

LiveOK == \A n \in Nodes : EntryOK(n, live[n])

ManagerOK ==
    /\ nodeRunning \in [Nodes -> BOOLEAN \union {Nil}]
    /\ nodeConns \in [Nodes -> {0, 1, Nil}]
    /\ quotaLevel \in [Nodes -> 0..(Limit - 1)]
    /\ windowKey \in [Nodes -> Nat]
    /\ word \in [Nodes -> BOOLEAN \union {Nil}]
    /\ \A n \in Reality \intersect Nodes : windowKey[n] = 0

HostOK ==
    /\ host.at \in {"idle", "check", "post"}
    /\ host.at = "check" => host.todo # {} /\ host = [at |-> "check", todo |-> host.todo]

\* A message about up or down was last noted when its post began.
TriedOK == \A m \in DOMAIN last : Tells(m) => m \in DOMAIN tried /\ tried[m] = last[m]

LastOK == \A m \in DOMAIN last : m.event \in Events /\ last[m] \in Nat /\ last[m] <= now

\* The node the pass is at has an entry.
AtNode == pass.todo # << >> /\ Seen # Nil

PassOK ==
    /\ pass.at \in Stages
    /\ pass.at # "idle" =>
          /\ pass = [at |-> pass.at, todo |-> pass.todo, snap |-> pass.snap, msg |-> pass.msg]
          /\ pass.todo \in Seq(Nodes)
          /\ \A n \in Nodes : EntryOK(n, pass.snap[n])
    /\ pass.at \in {"clients", "blocked", "warn"} => AtNode
    /\ pass.at = "post" =>
          /\ pass.msg.then \in {"running", "clients", "blocked", "warn"}
          /\ pass.msg.then # "running" => AtNode
          /\ pass.msg.n \in Nodes

\* The windows of a gost node: what the manager remembers, what the pass sees, what is.
WindowsOK ==
    Current => \A n \in Nodes \ Reality :
        /\ windowKey[n] <= truth[n].window
        /\ pass.at # "idle" /\ pass.snap[n] # Nil =>
              windowKey[n] <= pass.snap[n].window /\ pass.snap[n].window <= truth[n].window

\* What is said of a node that went up or down, and what excuses that it was not.
ChangeOf(n) == Message(IF flip[n].up THEN "nodeUp" ELSE "nodeDown", n)

Excused(n) == flip[n].off \/ flip[n].lost \/ flip[n].repeats

Telling == pass.at = "post" /\ pass.msg.m.event \in {"nodeUp", "nodeDown"}

FlipShape(f) ==
    /\ f = [up |-> f.up, off |-> f.off, lost |-> f.lost, repeats |-> f.repeats]
    /\ f.up \in BOOLEAN

FlipOK ==
    /\ TriedOK
    /\ flip = [n \in Nodes |-> flip[n]]
    /\ \A n \in Nodes : flip[n] # Nil =>
          /\ FlipShape(flip[n])
          /\ nodeRunning[n] = flip[n].up
          /\ word[n] = flip[n].up \/ Excused(n) \/ (Telling /\ pass.msg.n = n)
    /\ Telling => /\ FlipShape(flip[pass.msg.n]) /\ pass.msg.m = ChangeOf(pass.msg.n)
                  /\ nodeRunning[pass.msg.n] = flip[pass.msg.n].up

\* What has been announced, of a node that remembers the window and of one that has none.
WarnedOK ==
    Current => \A k \in DOMAIN warned :
        /\ k = <<k[1], k[2], k[3]>>
        /\ k[1] \in Nodes /\ k[2] \in Nat /\ k[3] \in Nat
        /\ warned[k] \in {0, 1}
        /\ k[1] \in Reality => k[2] <= quotaLevel[k[1]]
        /\ k[1] \notin Reality =>
              /\ k[3] <= windowKey[k[1]]
              /\ k[3] = windowKey[k[1]] => k[2] <= quotaLevel[k[1]]

LevelOK ==
    Current => \A n \in Nodes \ Reality :
        quotaLevel[n] > 0 => <<n, quotaLevel[n], windowKey[n]>> \in DOMAIN warned

\* A gost node the pass is done with has come to its announcement.
Ahead(n) == \E i \in DOMAIN pass.todo : pass.todo[i] = n
LookedOK ==
    Current /\ pass.at # "idle" =>
        \A n \in Nodes \ Reality :
            \/ Ahead(n)
            \/ pass.snap[n] # Nil /\ pass.snap[n].used < Limit => Announced(n, pass.snap[n])

IInv ==
    /\ WorldOK /\ LiveOK /\ ManagerOK /\ HostOK /\ LastOK /\ PassOK /\ WindowsOK
    /\ FlipOK /\ WarnedOK /\ LevelOK /\ LookedOK

-----------------------------------------------------------------------------
(* The highest threshold reached *)

\* A set of naturals below a bound has a greatest element.
LEMMA Greatest ==
  ASSUME NEW limit \in Nat, NEW S \in SUBSET (0..limit), S # {}
  PROVE  \E x \in S : \A y \in S : y <= x
<1> DEFINE below == { limit - x : x \in S }
           less == OpToRel(<, Nat)
<1>1. less = { p \in Nat \X Nat : p[1] < p[2] }
  BY DEF OpToRel
<1>2. \A x \in S : x \in 0..limit
  OBVIOUS
<1>3. below \subseteq Nat
  BY <1>2
<1>4. below # {}
  OBVIOUS
<1>5. IsWellFoundedOn(less, Nat)
  BY NatLessThanWellFounded
<1>6. \E m \in below : \A y \in below : ~ (<<y, m>> \in less)
  <2> HIDE DEF below, less
  <2> QED
    BY <1>3, <1>4, <1>5, WFMin
<1>7. PICK m \in below : \A y \in below : ~ (<<y, m>> \in less)
  BY <1>6
<1>8. PICK x \in S : m = limit - x
  OBVIOUS
<1>9. \A y \in S : y <= x
  <2> SUFFICES ASSUME NEW y \in S PROVE y <= x
    OBVIOUS
  <2> DEFINE p == <<limit - y, limit - x>>
  <2>1. limit - y \in Nat /\ limit - x \in Nat /\ limit - y \in below
    BY <1>2
  <2>2. p \in Nat \X Nat /\ p[1] = limit - y /\ p[2] = limit - x
    BY <2>1
  <2>3. p \notin less
    BY <1>7, <1>8, <2>1
  <2>4. ~ (limit - y < limit - x)
    <3> HIDE DEF less
    <3> QED
      BY <1>1, <2>2, <2>3
  <2> QED
    BY <2>4, <1>2
<1> QED
  BY <1>9

\* Best is 0, or a threshold reached; no threshold reached is higher.
LEMMA BestFacts ==
  ASSUME WorldOK, NEW used \in 0..Limit
  PROVE  /\ Best(used) \in 0..(Limit - 1)
         /\ \A t \in cfg.thresholds : t <= used => t <= Best(used)
<1> DEFINE reached == { t \in cfg.thresholds : used >= t }
<1>1. cfg.thresholds \in SUBSET (1..(Limit - 1)) /\ Limit \in Nat \ {0}
  BY AlertBounds DEF WorldOK
<1>2. Best(used) = IF reached = {} THEN 0 ELSE CHOOSE t \in reached : \A u \in reached : u <= t
  BY DEF Best
<1>3. CASE reached = {}
  BY <1>1, <1>2, <1>3
<1>4. CASE reached # {}
  <2>1. reached \in SUBSET (0..Limit)
    BY <1>1
  <2>2. \E t \in reached : \A u \in reached : u <= t
    BY <1>1, <1>4, <2>1, Greatest
  <2>3. Best(used) \in reached /\ \A u \in reached : u <= Best(used)
    BY <1>2, <1>4, <2>2
  <2>4. \A t \in cfg.thresholds : t <= used => t \in reached
    BY <1>1
  <2> QED
    BY <1>1, <2>3, <2>4
<1> QED
  BY <1>3, <1>4

-----------------------------------------------------------------------------
(* Send, and the part of the pass that follows *)

LEMMA Loud ==
  ASSUME NEW event \in Events, NEW key
  PROVE  Message(event, key) # Nothing /\ Message(event, key).event = event
<1>1. Message(event, key).event = event /\ Nothing.event = ""
  BY DEF Message, Nothing
<1>2. event # ""
  BY DEF Events
<1> QED
  BY <1>1, <1>2

\* A post about up or down begins when it is noted.
LEMMA TriedFacts ==
  ASSUME TriedOK, NEW part, NEW m, Sending(part, m)
  PROVE  TriedOK'
<1>1. CASE Posts(m) /\ Tells(m)
  <2>1. /\ last' = [k \in DOMAIN last \union {m} |-> IF k = m THEN now ELSE last[k]]
        /\ tried' = [k \in DOMAIN tried \union {m} |-> IF k = m THEN now ELSE tried[k]]
    BY <1>1 DEF Sending, Reserve
  <2>2. \A k \in DOMAIN last' : k = m \/ (k \in DOMAIN last /\ last'[k] = last[k])
    BY <2>1
  <2>3. \A k \in DOMAIN tried \ {m} : k \in DOMAIN tried' /\ tried'[k] = tried[k]
    BY <2>1
  <2>4. m \in DOMAIN tried' /\ tried'[m] = now /\ last'[m] = now
    BY <2>1
  <2>5. ASSUME NEW k \in DOMAIN last', Tells(k)
        PROVE  k \in DOMAIN tried' /\ tried'[k] = last'[k]
    <3>1. CASE k = m
      BY <2>4, <3>1
    <3>2. CASE k # m
      <4>1. k \in DOMAIN last /\ last'[k] = last[k]
        BY <2>2, <3>2
      <4>2. k \in DOMAIN tried /\ tried[k] = last[k]
        BY <2>5, <4>1 DEF TriedOK
      <4> QED
        BY <2>3, <3>2, <4>1, <4>2
    <3> QED
      BY <3>1, <3>2
  <2>6. ASSUME NEW k PROVE Tells(k)' <=> Tells(k)
    BY DEF Tells
  <2> QED
    BY <2>5, <2>6 DEF TriedOK
<1>2. CASE ~ (Posts(m) /\ Tells(m))
  <2>1. tried' = tried
    BY <1>2 DEF Sending
  <2>2. \A k \in DOMAIN last' : Tells(k) => k \in DOMAIN last /\ last'[k] = last[k]
    <3>1. CASE Posts(m)
      <4>1. last' = [k \in DOMAIN last \union {m} |-> IF k = m THEN now ELSE last[k]] /\ ~ Tells(m)
        BY <1>2, <3>1 DEF Sending, Reserve
      <4> QED
        BY <4>1
    <3>2. CASE ~ Posts(m)
      BY <3>2 DEF Sending, Reserve
    <3> QED
      BY <3>1, <3>2
  <2> QED
    BY <2>1, <2>2 DEF TriedOK, Tells
<1> QED
  BY <1>1, <1>2

\* What has been noted is noted at least as late.
LEMMA ReserveFacts ==
  ASSUME WorldOK, LastOK, NEW m, m # Nothing => m.event \in Events, Reserve(m), now' = now
  PROVE  /\ LastOK'
         /\ \A k \in DOMAIN last : k \in DOMAIN last' /\ last'[k] >= last[k]
<1>1. now \in Nat /\ now' = now
  BY AlertBounds DEF WorldOK
<1>2. CASE Posts(m)
  <2>1. last' = [k \in DOMAIN last \union {m} |-> IF k = m THEN now ELSE last[k]]
    BY <1>2 DEF Reserve
  <2>2. m.event \in Events
    BY <1>2 DEF Posts
  <2>3. DOMAIN last' = DOMAIN last \union {m}
    BY <2>1
  <2>4. \A k \in DOMAIN last' : last'[k] = IF k = m THEN now ELSE last[k]
    BY <2>1
  <2> QED
    BY <1>1, <2>2, <2>3, <2>4 DEF LastOK
<1>3. CASE ~ Posts(m)
  <2>1. last' = last
    BY <1>3 DEF Reserve
  <2> QED
    BY <1>1, <2>1 DEF LastOK
<1> QED
  BY <1>2, <1>3

LEMMA TailFacts ==
  ASSUME NEW S, NEW s \in Seq(S), s # << >>
  PROVE  /\ Head(s) \in S /\ Tail(s) \in Seq(S)
         /\ \A i \in DOMAIN s : s[i] = Head(s) \/ \E j \in DOMAIN Tail(s) : Tail(s)[j] = s[i]
<1>1. Head(s) \in S /\ Tail(s) \in Seq(S) /\ Head(s) = s[1]
  OBVIOUS
<1>2. Len(s) \in Nat \ {0} /\ DOMAIN s = 1..Len(s) /\ Len(Tail(s)) = Len(s) - 1
  OBVIOUS
<1>3. DOMAIN Tail(s) = 1..(Len(s) - 1) /\ \A j \in 1..(Len(s) - 1) : Tail(s)[j] = s[j + 1]
  BY <1>2
<1>4. ASSUME NEW i \in DOMAIN s, s[i] # Head(s)
      PROVE  i - 1 \in DOMAIN Tail(s) /\ Tail(s)[i - 1] = s[i]
  BY <1>1, <1>2, <1>3, <1>4
<1> QED
  BY <1>1, <1>4

Parts == {"running", "clients", "blocked", "warn"}
After(part) == CASE part = "running" -> "clients" [] part = "clients" -> "blocked"
                 [] part = "blocked" -> "warn" [] OTHER -> "running"

LEMMA FollowingFacts ==
  ASSUME PassOK, NEW part \in Parts, pass.at = part
  PROVE  Following(part) = [at |-> After(part),
                            todo |-> IF part = "warn" THEN Tail(pass.todo) ELSE pass.todo,
                            snap |-> pass.snap, msg |-> pass.msg]
<1>1. pass = [at |-> pass.at, todo |-> pass.todo, snap |-> pass.snap, msg |-> pass.msg]
  BY DEF PassOK, Parts
<1>2. CASE part = "warn"
  BY <1>1, <1>2 DEF Following, After
<1>3. CASE part # "warn"
  BY <1>1, <1>3 DEF Following, After, Parts
<1> QED
  BY <1>2, <1>3

\* A part of the pass at a node, whether it comes to a post or not.
LEMMA SendingFacts ==
  ASSUME PassOK, AtNode, env' = env, NEW part \in Parts, pass.at = part, NEW m, Sending(part, m)
  PROVE  /\ PassOK'
         /\ Node \in Nodes /\ EntryOK(Node, Seen)
         /\ pass'.at # "idle" /\ pass'.snap = pass.snap
         /\ \A n \in Nodes : Ahead(n) => Ahead(n)' \/ (part = "warn" /\ n = Node)
         /\ pass'.at = "post" => Posts(m) /\ pass'.msg.m = m /\ pass'.msg.n = Node
         /\ Posts(m) => pass'.at = "post"
<1> DEFINE rest == IF part = "warn" THEN Tail(pass.todo) ELSE pass.todo
           next == [at |-> After(part), todo |-> rest, snap |-> pass.snap, msg |-> pass.msg]
           said == [m |-> m, then |-> After(part), n |-> Node]
<1>1. pass.at # "idle" /\ pass.todo \in Seq(Nodes) /\ pass.todo # << >>
      /\ \A n \in Nodes : EntryOK(n, pass.snap[n])
  BY DEF PassOK, AtNode, Parts
<1>2. Node \in Nodes /\ EntryOK(Node, Seen)
  BY <1>1, TailFacts DEF Node, Seen
<1>3. Following(part) = next
  BY FollowingFacts
<1>4. pass' = IF Posts(m) THEN [next EXCEPT !.at = "post", !.msg = said] ELSE next
  BY <1>3 DEF Sending
<1>5. pass' = [at |-> IF Posts(m) THEN "post" ELSE After(part), todo |-> rest,
               snap |-> pass.snap, msg |-> IF Posts(m) THEN said ELSE pass.msg]
  BY <1>4
<1>6. /\ pass'.at = IF Posts(m) THEN "post" ELSE After(part)
      /\ pass'.todo = rest /\ pass'.snap = pass.snap
      /\ Posts(m) => pass'.msg = said
  BY <1>5
<1>7. After(part) \in Parts /\ (After(part) # "running" => part # "warn")
  BY DEF After, Parts
<1>8. rest \in Seq(Nodes)
  BY <1>1, TailFacts
<1>9. part # "warn" => AtNode'
  BY <1>6 DEF AtNode, Seen, Node
<1>10. PassOK'
  <2>1. pass'.at \in Stages \ {"idle"} /\ (pass'.at = "post" <=> Posts(m))
    BY <1>6, <1>7 DEF Parts, Stages
  <2>2. pass' = [at |-> pass'.at, todo |-> pass'.todo, snap |-> pass'.snap, msg |-> pass'.msg]
    BY <1>5
  <2>3. \A n \in Nodes : EntryOK(n, pass.snap[n])'
    BY <1>1, <1>6 DEF EntryOK, Current
  <2>4. pass'.at \in {"clients", "blocked", "warn"} => AtNode'
    BY <1>6, <1>7, <1>9
  <2>5. pass'.at = "post" => /\ pass'.msg.then \in Parts /\ pass'.msg.n \in Nodes
                             /\ pass'.msg.then # "running" => AtNode'
    BY <1>2, <1>6, <1>7, <1>9, <2>1
  <2> QED
    BY <1>6, <1>8, <2>1, <2>2, <2>3, <2>4, <2>5 DEF PassOK, Parts
<1>11. \A n \in Nodes : Ahead(n) => Ahead(n)' \/ (part = "warn" /\ n = Node)
  <2> SUFFICES ASSUME NEW n \in Nodes, Ahead(n), ~ (part = "warn" /\ n = Node)
               PROVE  Ahead(n)'
    OBVIOUS
  <2>1. PICK i \in DOMAIN pass.todo : pass.todo[i] = n
    BY DEF Ahead
  <2>2. CASE part # "warn"
    BY <1>6, <2>1, <2>2 DEF Ahead
  <2>3. CASE part = "warn" /\ n # Node
    <3>1. \E j \in DOMAIN Tail(pass.todo) : Tail(pass.todo)[j] = n
      BY <1>1, <2>1, <2>3, TailFacts DEF Node
    <3> QED
      BY <1>6, <2>3, <3>1 DEF Ahead
  <2> QED
    BY <2>2, <2>3
<1> QED
  BY <1>2, <1>6, <1>7, <1>10, <1>11 DEF Parts

-----------------------------------------------------------------------------
LEMMA InitInv == Init => IInv
<1> SUFFICES ASSUME Init PROVE IInv
  OBVIOUS
<1>1. WorldOK
  BY AlertBounds DEF Init, WorldOK, Running, Current
<1>2. LiveOK /\ PassOK
  BY DEF Init, LiveOK, EntryOK, PassOK, Idle, Stages, Current
<1>3. ManagerOK
  BY AlertBounds DEF Init, ManagerOK
<1>4. HostOK /\ LastOK
  BY DEF Init, HostOK, LastOK, Idle
<1>5. WindowsOK
  BY DEF Init, WindowsOK, Idle, Current
<1>6. FlipOK
  BY DEF Init, FlipOK, TriedOK, Telling, Idle
<1>7. WarnedOK /\ LevelOK /\ LookedOK
  BY DEF Init, WarnedOK, LevelOK, LookedOK, Idle, Current
<1> QED
  BY <1>1, <1>2, <1>3, <1>4, <1>5, <1>6, <1>7 DEF IInv

-----------------------------------------------------------------------------
(* The pass *)

\* What became of a change stays as it is while nothing is said of a node.
LEMMA FlipKept ==
  ASSUME FlipOK, TriedOK', UNCHANGED <<nodeRunning, flip, word>>,
         Telling \/ Telling' => pass' = pass
  PROVE  FlipOK'
<1>1. Telling <=> Telling'
  BY DEF Telling
<1>2. \A n \in Nodes : Excused(n)' = Excused(n) /\ FlipShape(flip[n])' = FlipShape(flip[n])
  BY DEF Excused, FlipShape
<1>3. Telling' => /\ FlipShape(flip[pass.msg.n])' /\ pass'.msg.m = ChangeOf(pass.msg.n)'
                  /\ nodeRunning'[pass'.msg.n] = flip'[pass'.msg.n].up
  BY <1>1 DEF FlipOK, ChangeOf, FlipShape
<1> QED
  BY <1>1, <1>2, <1>3 DEF FlipOK

LEMMA WarnedKept ==
  ASSUME WarnedOK, LevelOK, UNCHANGED <<env, quotaLevel, windowKey, warned>>
  PROVE  WarnedOK' /\ LevelOK'
  BY DEF WarnedOK, LevelOK, Current

\* A pass does not change the world.
LEMMA WorldKept ==
  ASSUME WorldOK, LiveOK, UNCHANGED <<env, now, events, truth, cfg, live>>
  PROVE  WorldOK' /\ LiveOK'
  BY DEF WorldOK, LiveOK, EntryOK, Current

\* A part of the pass that announces nothing leaves what is looked at as it is.
LEMMA LookedKept ==
  ASSUME LookedOK, UNCHANGED <<env, warned>>, pass.at # "idle", pass'.at # "idle", pass'.snap = pass.snap,
         \A n \in Nodes : Ahead(n) => Ahead(n)'
  PROVE  LookedOK'
  BY DEF LookedOK, Announced, Current

LEMMA WindowsKept ==
  ASSUME WindowsOK, UNCHANGED <<env, windowKey, truth>>,
         pass'.at = "idle" \/ (pass.at # "idle" /\ pass'.snap = pass.snap)
  PROVE  WindowsOK'
  BY DEF WindowsOK, Current

LEMMA FoundOK ==
  ASSUME WorldOK, NEW n \in Nodes, NEW listed \in BOOLEAN
  PROVE  EntryOK(n, Found(n, listed)) /\ Found(n, listed).window = truth[n].window
<1>1. truth[n] \in [up : BOOLEAN, conns : {0, 1}, used : 0..Limit, window : Nat \ {0}, until : Nat]
  BY DEF WorldOK, Current
<1>2. PICK e : e = Found(n, listed)
  OBVIOUS
<1>3. e.up = truth[n].up /\ e.conns = truth[n].conns /\ e.quota = listed
      /\ e.used = (IF listed THEN truth[n].used ELSE 0) /\ e.window = truth[n].window
      /\ e.until = IF n \in Reality \/ ~ listed THEN 0 ELSE truth[n].until
  BY <1>2 DEF Found
<1>4. Current => truth[n].until = truth[n].window
  BY DEF WorldOK, Current
<1> QED
  BY <1>1, <1>2, <1>3, <1>4, AlertBounds DEF EntryOK, Current

LEMMA PassBeginInv == ASSUME IInv, PassBegin PROVE IInv'
<1> USE DEF IInv
<1>a. PICK listed \in BOOLEAN :
        live' = [n \in Nodes |-> IF n \in Reality THEN live[n] ELSE Found(n, listed)]
  BY DEF PassBegin
<1>0. PICK found :
        /\ found = [n \in Nodes |-> IF n \in Reality THEN live[n] ELSE Found(n, listed)]
        /\ live' = found
  BY <1>a
<1>1. PICK order :
        /\ found = [n \in Nodes |-> IF n \in Reality THEN live[n] ELSE Found(n, listed)]
        /\ live' = found
        /\ order \in [1..Cardinality(Nodes) -> Nodes]
        /\ \A n \in Nodes : \E i \in DOMAIN order : order[i] = n
        /\ pass' = [at |-> "running", todo |-> order, snap |-> found, msg |-> Nothing]
  BY <1>0 DEF PassBegin, Observe
<1>2. \A n \in Nodes : EntryOK(n, found[n])
  BY <1>1, FoundOK DEF LiveOK
<1>3. LiveOK' /\ WorldOK'
  BY <1>1, <1>2 DEF LiveOK, EntryOK, PassBegin, outside, WorldOK, Current
<1>4. order \in Seq(Nodes)
  <2>1. Cardinality(Nodes) \in Nat
    BY AlertNodes, FS_CardinalityType
  <2> QED
    BY <1>1, <2>1, SeqDef
<1>5. PassOK'
  BY <1>1, <1>2, <1>4 DEF PassBegin, outside, PassOK, Stages, EntryOK, Current
<1>6. ManagerOK' /\ HostOK' /\ LastOK'
  BY DEF PassBegin, outside, manager, ManagerOK, HostOK, LastOK
<1>7. WindowsOK'
  <2> SUFFICES ASSUME Current, NEW n \in Nodes \ Reality
               PROVE  /\ windowKey[n] <= truth[n].window
                      /\ windowKey[n] <= found[n].window /\ found[n].window <= truth[n].window
    BY <1>1 DEF PassBegin, outside, manager, WindowsOK, Current
  <2>1. found[n].window = truth[n].window
    BY <1>1, FoundOK
  <2>2. windowKey[n] \in Nat /\ truth[n].window \in Nat
    BY DEF ManagerOK, WorldOK, Current
  <2> QED
    BY <2>1, <2>2 DEF WindowsOK
<1>8. ~ Telling /\ ~ Telling'
  BY <1>1 DEF PassBegin, Telling
<1>9. FlipOK'
  BY <1>6, <1>8, FlipKept DEF PassBegin, manager, FlipOK, TriedOK
<1>10. WarnedOK' /\ LevelOK'
  BY WarnedKept DEF PassBegin, manager, outside
<1>11. LookedOK'
  BY <1>1 DEF LookedOK, Ahead, Current
<1> QED
  BY <1>3, <1>5, <1>6, <1>7, <1>9, <1>10, <1>11

LEMMA PassBlindInv == ASSUME IInv, PassBlind PROVE IInv'
<1> USE DEF IInv
<1>1. LiveOK'
  BY FoundOK DEF PassBlind, outside, LiveOK, EntryOK, Current
<1>2. WorldOK' /\ ManagerOK' /\ HostOK' /\ LastOK'
  BY DEF PassBlind, outside, manager, WorldOK, ManagerOK, HostOK, LastOK, Current
<1>3. PassOK' /\ WindowsOK'
  BY DEF PassBlind, outside, manager, PassOK, AtNode, Seen, Node, EntryOK, WindowsOK, Current
<1>4. FlipOK'
  BY <1>2, FlipKept DEF PassBlind, manager, FlipOK, TriedOK
<1>5. WarnedOK' /\ LevelOK'
  BY WarnedKept DEF PassBlind, manager, outside
<1>6. LookedOK'
  BY DEF PassBlind, LookedOK, Ahead, Announced, Current
<1> QED
  BY <1>1, <1>2, <1>3, <1>4, <1>5, <1>6

LEMMA PassEndInv == ASSUME IInv, PassEnd PROVE IInv'
<1> USE DEF IInv
<1>1. pass'.at = "idle" /\ pass.at = "running"
  BY DEF PassEnd, Idle
<1>2. LiveOK'
  BY FoundOK DEF PassEnd, outside, LiveOK, EntryOK, Current
<1>3. WorldOK' /\ ManagerOK' /\ HostOK' /\ LastOK'
  BY DEF PassEnd, outside, manager, WorldOK, ManagerOK, HostOK, LastOK, Current
<1>4. PassOK' /\ LookedOK'
  BY <1>1 DEF PassOK, LookedOK, Stages, Current
<1>5. WindowsOK'
  BY <1>1, WindowsKept DEF PassEnd, outside, manager
<1>6. FlipOK'
  BY <1>1, <1>3, FlipKept DEF PassEnd, manager, FlipOK, TriedOK, Telling
<1>7. WarnedOK' /\ LevelOK'
  BY WarnedKept DEF PassEnd, manager, outside
<1> QED
  BY <1>2, <1>3, <1>4, <1>5, <1>6, <1>7

LEMMA SkipNodeInv == ASSUME IInv, SkipNode PROVE IInv'
<1> USE DEF IInv
<1>1. pass.at = "running" /\ pass.todo # << >> /\ pass.snap[Node] = Nil
      /\ pass = [at |-> pass.at, todo |-> pass.todo, snap |-> pass.snap, msg |-> pass.msg]
      /\ pass.todo \in Seq(Nodes)
  BY DEF SkipNode, Turn, Seen, PassOK
<1>2. /\ pass'.at = "running" /\ pass'.todo = Tail(pass.todo) /\ pass'.snap = pass.snap
      /\ pass' = [at |-> pass'.at, todo |-> pass'.todo, snap |-> pass'.snap, msg |-> pass'.msg]
  <2>1. pass' = [pass EXCEPT !.todo = Tail(@)]
    BY DEF SkipNode
  <2>2. pass' = [at |-> "running", todo |-> Tail(pass.todo), snap |-> pass.snap, msg |-> pass.msg]
    BY <1>1, <2>1
  <2> QED
    BY <2>2
<1>3. WorldOK' /\ LiveOK'
  BY WorldKept DEF SkipNode, outside
<1>4. ManagerOK' /\ HostOK' /\ LastOK'
  BY DEF SkipNode, outside, manager, ManagerOK, HostOK, LastOK
<1>5. PassOK'
  BY <1>1, <1>2, TailFacts DEF SkipNode, outside, PassOK, EntryOK, Stages, Current
<1>6. WindowsOK'
  BY <1>1, <1>2, WindowsKept DEF SkipNode, outside, manager
<1>7. FlipOK'
  BY <1>1, <1>2, <1>4, FlipKept DEF SkipNode, manager, FlipOK, TriedOK, Telling
<1>8. WarnedOK' /\ LevelOK'
  BY WarnedKept DEF SkipNode, manager, outside
<1>9. LookedOK'
  <2> SUFFICES ASSUME Current, NEW n \in Nodes \ Reality
               PROVE  \/ Ahead(n)'
                      \/ pass.snap[n] # Nil /\ pass.snap[n].used < Limit => Announced(n, pass.snap[n])
    BY <1>2 DEF LookedOK, SkipNode, Announced, outside, Current
  <2>1. CASE Ahead(n) /\ n # Node
    <3>1. \E j \in DOMAIN Tail(pass.todo) : Tail(pass.todo)[j] = n
      BY <1>1, <2>1, TailFacts DEF Ahead, Node
    <3> QED
      BY <1>2, <3>1 DEF Ahead
  <2>2. CASE n = Node
    BY <1>1, <2>2
  <2>3. CASE ~ Ahead(n)
    BY <1>1, <2>3 DEF LookedOK
  <2> QED
    BY <2>1, <2>2, <2>3
<1> QED
  BY <1>3, <1>4, <1>5, <1>6, <1>7, <1>8, <1>9

LEMMA ObserveClientsInv == ASSUME IInv, ObserveClients PROVE IInv'
<1> USE DEF IInv
<1>1. PICK m : Sending("clients", m) /\ (m # Nothing => m.event = "nodeClient")
  BY Loud DEF ObserveClients, Events
<1>2. AtNode /\ pass.at = "clients" /\ "clients" \in Parts
  BY DEF ObserveClients, Turn, PassOK, Parts
<1>3. /\ PassOK' /\ Node \in Nodes /\ EntryOK(Node, Seen)
      /\ pass'.at # "idle" /\ pass'.snap = pass.snap
      /\ \A n \in Nodes : Ahead(n) => Ahead(n)'
      /\ pass'.at = "post" => Posts(m) /\ pass'.msg.m = m
  BY <1>1, <1>2, SendingFacts DEF ObserveClients, outside
<1>4. WorldOK' /\ LiveOK'
  BY WorldKept DEF ObserveClients, outside
<1>5. ManagerOK'
  <2>1. Seen # Nil /\ Seen.conns \in {0, 1}
    BY <1>2, <1>3 DEF AtNode, EntryOK, Current
  <2> QED
    BY <1>3, <2>1 DEF ObserveClients, ManagerOK
<1>6. HostOK'
  BY DEF ObserveClients, HostOK
<1>7. LastOK' /\ \A k \in DOMAIN last : k \in DOMAIN last' /\ last'[k] >= last[k]
  BY <1>1, ReserveFacts DEF Sending, ObserveClients, outside, Events
<1>8. WindowsOK'
  BY <1>2, <1>3, WindowsKept DEF ObserveClients, outside
<1>9. ~ Telling /\ ~ Telling'
  BY <1>1, <1>2, <1>3 DEF Telling, Posts
<1>10. FlipOK'
  BY <1>1, <1>9, TriedFacts, FlipKept DEF ObserveClients, FlipOK
<1>11. WarnedOK' /\ LevelOK'
  BY WarnedKept DEF ObserveClients, outside
<1>12. LookedOK'
  BY <1>2, <1>3, LookedKept DEF ObserveClients, outside
<1> QED
  BY <1>3, <1>4, <1>5, <1>6, <1>7, <1>8, <1>10, <1>11, <1>12

LEMMA ObserveBlockedInv == ASSUME IInv, ObserveBlocked PROVE IInv'
<1> USE DEF IInv
<1>1. PICK m : Sending("blocked", m) /\ (m # Nothing => m.event = "quotaBlocked")
  BY Loud DEF ObserveBlocked, Events
<1>2. AtNode /\ pass.at = "blocked" /\ "blocked" \in Parts
  BY DEF ObserveBlocked, Turn, PassOK, Parts
<1>3. /\ PassOK' /\ pass'.at # "idle" /\ pass'.snap = pass.snap
      /\ \A n \in Nodes : Ahead(n) => Ahead(n)'
      /\ pass'.at = "post" => Posts(m) /\ pass'.msg.m = m
  BY <1>1, <1>2, SendingFacts DEF ObserveBlocked, outside
<1>4. WorldOK' /\ LiveOK'
  BY WorldKept DEF ObserveBlocked, outside
<1>5. ManagerOK' /\ HostOK'
  BY DEF ObserveBlocked, manager, ManagerOK, HostOK
<1>6. LastOK' /\ \A k \in DOMAIN last : k \in DOMAIN last' /\ last'[k] >= last[k]
  BY <1>1, ReserveFacts DEF Sending, ObserveBlocked, outside, Events
<1>7. WindowsOK'
  BY <1>2, <1>3, WindowsKept DEF ObserveBlocked, outside, manager
<1>8. ~ Telling /\ ~ Telling'
  BY <1>1, <1>2, <1>3 DEF Telling, Posts
<1>9. FlipOK'
  BY <1>1, <1>8, TriedFacts, FlipKept DEF ObserveBlocked, manager, FlipOK
<1>10. WarnedOK' /\ LevelOK'
  BY WarnedKept DEF ObserveBlocked, manager, outside
<1>11. LookedOK'
  BY <1>2, <1>3, LookedKept DEF ObserveBlocked, outside
<1> QED
  BY <1>3, <1>4, <1>5, <1>6, <1>7, <1>9, <1>10, <1>11

-----------------------------------------------------------------------------
(* Up and down *)

LEMMA ObserveRunningInv == ASSUME IInv, ObserveRunning PROVE IInv'
<1> USE DEF IInv
<1>1. PICK n, e : n = Node /\ e = Seen
  OBVIOUS
<1> DEFINE changed == nodeRunning[n] \notin {Nil, e.up}
<1>2. PICK m :
        /\ m = IF changed THEN Message(IF e.up THEN "nodeUp" ELSE "nodeDown", n) ELSE Nothing
        /\ Sending("running", m)
        /\ flip' = IF changed
                   THEN [flip EXCEPT ![n] = [up |-> e.up, off |-> ~ EventEnabled(m.event), lost |-> FALSE,
                                             repeats |-> m \in DOMAIN tried /\ now - tried[m] < cfg.cooldown]]
                   ELSE flip
  BY <1>1 DEF ObserveRunning
<1>3. changed => m # Nothing /\ m.event \in {"nodeUp", "nodeDown"}
  BY <1>2, Loud DEF Events
<1>4. AtNode /\ pass.at = "running" /\ "running" \in Parts
  BY DEF ObserveRunning, Turn, AtNode, Parts
<1>5. /\ PassOK' /\ n \in Nodes /\ EntryOK(n, e)
      /\ pass'.at # "idle" /\ pass'.snap = pass.snap
      /\ \A x \in Nodes : Ahead(x) => Ahead(x)'
      /\ pass'.at = "post" => Posts(m) /\ pass'.msg.m = m /\ pass'.msg.n = n
      /\ Posts(m) => pass'.at = "post"
  BY <1>1, <1>2, <1>4, SendingFacts DEF ObserveRunning, outside
<1>6. WorldOK' /\ LiveOK'
  BY WorldKept DEF ObserveRunning, outside
<1>7. nodeRunning' = [nodeRunning EXCEPT ![n] = e.up] /\ e.up \in BOOLEAN
  BY <1>1, <1>4, <1>5 DEF ObserveRunning, AtNode, EntryOK, Current
<1>8. ManagerOK'
  BY <1>5, <1>7 DEF ObserveRunning, ManagerOK
<1>9. HostOK'
  BY DEF ObserveRunning, HostOK
<1>10. LastOK' /\ \A k \in DOMAIN last : k \in DOMAIN last' /\ last'[k] >= last[k]
  BY <1>2, <1>3, ReserveFacts DEF Sending, ObserveRunning, outside, Events
<1>11. WindowsOK'
  BY <1>4, <1>5, WindowsKept DEF ObserveRunning, outside
<1>12. WarnedOK' /\ LevelOK'
  BY WarnedKept DEF ObserveRunning, outside
<1>13. LookedOK'
  BY <1>4, <1>5, LookedKept DEF ObserveRunning, outside
<1>14. ~ Telling
  BY <1>4 DEF Telling
<1>15. word' = word /\ now' = now
  BY DEF ObserveRunning, outside
<1>19. TriedOK'
  BY <1>2, TriedFacts DEF FlipOK
<1>16. CASE ~ changed
  <2>1. flip' = flip /\ m = Nothing
    BY <1>2, <1>16
  <2>2. ~ Telling'
    BY <1>5, <2>1 DEF Telling, Posts
  <2>3. ASSUME NEW x \in Nodes, flip[x] # Nil
        PROVE  nodeRunning'[x] = nodeRunning[x]
    <3>1. nodeRunning[x] = flip[x].up /\ flip[x].up \in BOOLEAN
      BY <2>3 DEF FlipOK, FlipShape
    <3>2. x = n => nodeRunning[x] = e.up
      BY <1>16, <3>1, AlertNodes
    <3> QED
      BY <1>7, <3>2 DEF ManagerOK
  <2>4. ASSUME NEW x \in Nodes, flip[x] # Nil, Excused(x)
        PROVE  Excused(x)'
    BY <2>1, <2>4 DEF Excused
  <2>5. FlipOK'
    BY <1>14, <1>15, <1>19, <2>1, <2>2, <2>3, <2>4 DEF FlipOK, FlipShape
  <2> QED
    BY <1>5, <1>6, <1>8, <1>9, <1>10, <1>11, <1>12, <1>13, <2>5
<1>18. e.up \in BOOLEAN
  BY <1>7
<1>17. CASE changed
  <2> DEFINE f == [up |-> e.up, off |-> ~ EventEnabled(m.event), lost |-> FALSE,
                   repeats |-> m \in DOMAIN tried /\ now - tried[m] < cfg.cooldown]
  <2>1. flip' = [flip EXCEPT ![n] = f] /\ m = Message(IF e.up THEN "nodeUp" ELSE "nodeDown", n)
    BY <1>2, <1>17
  <2>2. flip' = [x \in Nodes |-> flip'[x]] /\ flip'[n] = f
        /\ \A x \in Nodes \ {n} : flip'[x] = flip[x]
    BY <1>5, <2>1 DEF FlipOK
  <2>3. ChangeOf(n)' = m
    BY <2>1, <2>2 DEF ChangeOf
  <2>4. FlipShape(f)
    BY <1>18 DEF FlipShape
  <2>5. word'[n] = e.up \/ Excused(n)' \/ (Telling' /\ pass'.msg.n = n)
    <3>1. CASE ~ EventEnabled(m.event)
      <4>1. flip'[n].off = f.off
        BY <2>2
      <4>2. f.off
        BY <3>1
      <4> HIDE DEF f
      <4> QED
        BY <4>1, <4>2 DEF Excused
    <3>2. CASE Posts(m)
      BY <1>3, <1>5, <1>17, <3>2 DEF Telling
    <3>3. CASE Cooling(m)
      <4>1. Tells(m)
        BY <1>3, <1>17 DEF Tells
      <4>2. m \in DOMAIN tried /\ now - tried[m] < cfg.cooldown
        BY <3>3, <4>1 DEF Cooling, FlipOK, TriedOK
      <4>3. flip'[n].repeats = f.repeats
        BY <2>2
      <4>4. f.repeats
        BY <4>2
      <4> HIDE DEF f
      <4> QED
        BY <4>3, <4>4 DEF Excused
    <3> QED
      BY <1>3, <1>17, <3>1, <3>2, <3>3 DEF Posts
  <2>6. ASSUME NEW x \in Nodes \ {n}, flip'[x] # Nil
        PROVE  /\ FlipShape(flip'[x]) /\ nodeRunning'[x] = flip'[x].up
               /\ word'[x] = flip'[x].up \/ Excused(x)'
    <3>1. FlipShape(flip[x]) /\ nodeRunning[x] = flip[x].up /\ (word[x] = flip[x].up \/ Excused(x))
      BY <1>14, <2>2, <2>6 DEF FlipOK
    <3>2. flip'[x] = flip[x]
      BY <2>2
    <3>4. Excused(x) => Excused(x)'
      BY <3>2 DEF Excused
    <3> QED
      BY <1>7, <1>15, <3>1, <3>2, <3>4 DEF ManagerOK
  <2>7. nodeRunning'[n] = flip'[n].up
    BY <1>5, <1>7, <2>2 DEF ManagerOK
  <2>8. Telling' => /\ FlipShape(flip'[pass'.msg.n]) /\ pass'.msg.m = ChangeOf(pass.msg.n)'
                    /\ nodeRunning'[pass'.msg.n] = flip'[pass'.msg.n].up
    BY <1>5, <2>2, <2>3, <2>4, <2>7 DEF Telling, ChangeOf
  <2>9. FlipOK'
    BY <1>14, <1>19, <2>2, <2>4, <2>5, <2>6, <2>7, <2>8 DEF FlipOK, FlipShape
  <2> QED
    BY <1>5, <1>6, <1>8, <1>9, <1>10, <1>11, <1>12, <1>13, <2>9
<1> QED
  BY <1>16, <1>17

-----------------------------------------------------------------------------
(* The thresholds *)

\* The level of a node after this pass: a threshold announced in this window, or 0, and not
\* below any threshold the admin cannot but have set and the node has reached.
LEMMA LevelFacts ==
  ASSUME WorldOK, ManagerOK, NEW n \in Nodes, NEW e, e # Nil, EntryOK(n, e), NEW level,
         level = LevelIn(n, e.until), NEW best, best = Best(e.used)
  PROVE  /\ level \in 0..(Limit - 1) /\ best \in 0..(Limit - 1)
         /\ n \in Reality => level = quotaLevel[n]
         /\ Current /\ e.quota /\ n \notin Reality =>
               level = IF windowKey[n] = e.window THEN quotaLevel[n] ELSE 0
         /\ \A t \in Lasting : t <= e.used => t <= best
<1>1. e.used \in 0..Limit /\ (n \in Reality => e.until = 0) /\ (Current /\ e.quota /\ n \notin Reality => e.until = e.window)
  BY DEF EntryOK, Current
<1>2. n \in Reality => windowKey[n] = 0
  BY DEF ManagerOK
<1>3. quotaLevel[n] \in 0..(Limit - 1) /\ Limit \in Nat \ {0}
  BY AlertBounds DEF ManagerOK
<1>4. Lasting \subseteq cfg.thresholds
  BY DEF Lasting, WorldOK, Current
<1> QED
  BY <1>1, <1>2, <1>3, <1>4, BestFacts DEF LevelIn

LEMMA ObserveWarnInv == ASSUME IInv, ObserveWarn PROVE IInv'
<1> USE DEF IInv
<1>1. PICK n, e, level, best :
        n = Node /\ e = Seen /\ level = LevelIn(Node, Seen.until) /\ best = Best(Seen.used)
  OBVIOUS
<1>2. AtNode /\ pass.at = "warn" /\ "warn" \in Parts /\ e # Nil /\ e = pass.snap[n]
  BY <1>1 DEF ObserveWarn, Turn, PassOK, AtNode, Parts, Seen
<1>3. PICK m :
        /\ Sending("warn", m)
        /\ \/ /\ ~ e.quota \/ e.used = Limit
              /\ m = Nothing
              /\ UNCHANGED <<quotaLevel, windowKey, warned>>
           \/ /\ e.quota /\ e.used # Limit
              /\ m = IF best > level THEN Message("trafficWarn", <<n, best>>) ELSE Nothing
              /\ windowKey' = [windowKey EXCEPT ![n] = e.until]
              /\ quotaLevel' = [quotaLevel EXCEPT ![n] = IF best > level THEN best ELSE level]
              /\ warned' = IF m = Nothing THEN warned
                           ELSE LET k == <<n, best, e.window>>
                                    count == IF k \in DOMAIN warned THEN warned[k] ELSE 0
                                IN  [x \in DOMAIN warned \union {k} |->
                                       IF x # k THEN warned[x]
                                       ELSE IF Posts(m) THEN count + 1 ELSE count]
  BY <1>1 DEF ObserveWarn, Rises
<1>4. m # Nothing => m.event = "trafficWarn"
  BY <1>3, Loud DEF Events
<1>5. /\ PassOK' /\ n \in Nodes /\ EntryOK(n, e)
      /\ pass'.at # "idle" /\ pass'.snap = pass.snap
      /\ \A x \in Nodes : Ahead(x) => Ahead(x)' \/ x = n
      /\ pass'.at = "post" => Posts(m) /\ pass'.msg.m = m
  BY <1>1, <1>2, <1>3, SendingFacts DEF ObserveWarn, outside
<1>6. WorldOK' /\ LiveOK'
  BY WorldKept DEF ObserveWarn, outside
<1>7. HostOK' /\ UNCHANGED <<nodeRunning, nodeConns, flip, word, truth>>
  BY DEF ObserveWarn, HostOK, outside
<1>8. LastOK' /\ \A k \in DOMAIN last : k \in DOMAIN last' /\ last'[k] >= last[k]
  BY <1>3, <1>4, ReserveFacts DEF Sending, ObserveWarn, outside, Events
<1>9. ~ Telling /\ ~ Telling'
  BY <1>2, <1>4, <1>5 DEF Telling, Posts
<1>10. FlipOK'
  BY <1>3, <1>7, <1>9, TriedFacts, FlipKept DEF FlipOK
<1>11. /\ level \in 0..(Limit - 1) /\ best \in 0..(Limit - 1)
       /\ n \in Reality => level = quotaLevel[n]
       /\ Current /\ e.quota /\ n \notin Reality =>
             level = IF windowKey[n] = e.window THEN quotaLevel[n] ELSE 0
       /\ \A t \in Lasting : t <= e.used => t <= best
  BY <1>1, <1>2, <1>5, LevelFacts
<1>12. /\ e.window \in Nat \ {0} /\ e.used \in 0..Limit
       /\ e.until \in Nat /\ (n \in Reality => e.until = 0)
       /\ Current /\ e.quota /\ n \notin Reality => e.until = e.window
       /\ (~ e.quota => e.used = 0) /\ Limit \in Nat \ {0}
  BY <1>2, <1>5, AlertBounds DEF EntryOK, Current
<1>17. ManagerOK'
  <2> DEFINE new == IF best > level THEN best ELSE level
  <2>1. new \in 0..(Limit - 1)
    BY <1>11
  <2>2. CASE UNCHANGED <<quotaLevel, windowKey, warned>>
    BY <1>7, <2>2 DEF ManagerOK
  <2>3. CASE /\ windowKey' = [windowKey EXCEPT ![n] = e.until]
             /\ quotaLevel' = [quotaLevel EXCEPT ![n] = new]
    BY <1>5, <1>7, <1>12, <2>1, <2>3 DEF ManagerOK
  <2> QED
    BY <1>3, <2>2, <2>3
<1>18. CASE ~ Current
  <2>1. ~ Current'
    BY <1>18 DEF ObserveWarn, outside, Current
  <2>2. WindowsOK' /\ WarnedOK' /\ LevelOK' /\ LookedOK'
    BY <2>1 DEF WindowsOK, WarnedOK, LevelOK, LookedOK
  <2> QED
    BY <1>5, <1>6, <1>7, <1>8, <1>10, <1>17, <2>2
<1> SUFFICES ASSUME Current PROVE IInv'
  BY <1>18
<1>19. env' = env
  BY DEF ObserveWarn, outside
<1>13. n \notin Reality => windowKey[n] <= e.window /\ e.window <= truth[n].window
  BY <1>2, <1>5 DEF WindowsOK
<1>14. \A x \in Nodes \ Reality :
          x # n => \/ Ahead(x)'
                   \/ pass.snap[x] # Nil /\ pass.snap[x].used < Limit => Announced(x, pass.snap[x])
  BY <1>2, <1>5 DEF LookedOK
<1>15. CASE ~ e.quota \/ e.used = Limit
  <2>1. UNCHANGED <<quotaLevel, windowKey, warned>>
    BY <1>3, <1>15
  <2>2. WindowsOK'
    BY <1>2, <1>5, <1>7, <1>19, <2>1, WindowsKept
  <2>3. WarnedOK' /\ LevelOK'
    BY <1>19, <2>1, WarnedKept
  <2>4. LookedOK'
    BY <1>2, <1>5, <1>12, <1>14, <1>15, <2>1 DEF LookedOK, Announced, Lasting
  <2> QED
    BY <1>5, <1>6, <1>7, <1>8, <1>10, <1>17, <2>2, <2>3, <2>4
<1>16. CASE e.quota /\ e.used # Limit
  <2>0. n \notin Reality =>
           e.until = e.window /\ level = IF windowKey[n] = e.window THEN quotaLevel[n] ELSE 0
    BY <1>11, <1>12, <1>16
  <2> DEFINE new == IF best > level THEN best ELSE level
             k == <<n, best, e.window>>
  <2>1. /\ windowKey' = [windowKey EXCEPT ![n] = e.until]
        /\ quotaLevel' = [quotaLevel EXCEPT ![n] = new]
    BY <1>3, <1>16
  <2>2. new \in 0..(Limit - 1) /\ new >= level /\ new >= best
    BY <1>11, <1>12, <2>0
  <2>4. /\ windowKey'[n] = e.until /\ quotaLevel'[n] = new
        /\ \A x \in Nodes \ {n} : windowKey'[x] = windowKey[x] /\ quotaLevel'[x] = quotaLevel[x]
    BY <1>5, <2>1 DEF ManagerOK
  <2>5. WindowsOK'
    BY <1>2, <1>5, <1>7, <1>12, <2>0, <1>13, <2>4 DEF WindowsOK
  <2>6. \A x \in DOMAIN warned : x[1] # n =>
           windowKey'[x[1]] = windowKey[x[1]] /\ quotaLevel'[x[1]] = quotaLevel[x[1]]
    BY <2>4 DEF WarnedOK
  \* What was announced before fits the new level and the new window.
  <2>7. \A x \in DOMAIN warned :
           /\ x[1] \in Reality => x[2] <= quotaLevel'[x[1]]
           /\ x[1] \notin Reality =>
                 /\ x[3] <= windowKey'[x[1]]
                 /\ x[3] = windowKey'[x[1]] => x[2] <= quotaLevel'[x[1]]
    <3> SUFFICES ASSUME NEW x \in DOMAIN warned, x[1] = n
                 PROVE  /\ n \in Reality => x[2] <= new
                        /\ n \notin Reality => x[3] <= e.window /\ (x[3] = e.window => x[2] <= new)
      BY <1>12, <2>0, <2>4, <2>6 DEF WarnedOK
    <3>1. x[2] \in Nat /\ x[3] \in Nat /\ windowKey[n] \in Nat /\ quotaLevel[n] \in Nat
      BY <1>5, <1>12, <2>0 DEF WarnedOK, ManagerOK
    <3>2. n \in Reality => x[2] <= quotaLevel[n]
      BY DEF WarnedOK
    <3>3. n \notin Reality => x[3] <= windowKey[n] /\ (x[3] = windowKey[n] => x[2] <= quotaLevel[n])
      BY DEF WarnedOK
    <3> HIDE DEF new
    <3>4. new \in Nat /\ level \in Nat /\ new >= level
      BY <2>2, <1>11, <1>12, <2>0
    <3> QED
      BY <1>11, <1>12, <2>0, <1>13, <3>1, <3>2, <3>3, <3>4
  <2>8. CASE ~ (best > level)
    <3>1. warned' = warned /\ new = level
      BY <1>3, <1>16, <2>8
    <3>2. WarnedOK'
      BY <2>7, <3>1 DEF WarnedOK
    <3>3. level > 0 /\ n \notin Reality =>
             windowKey[n] = e.window /\ level = quotaLevel[n] /\ <<n, level, e.window>> \in DOMAIN warned
      BY <1>5, <1>11, <1>12, <2>0 DEF LevelOK
    <3>4. LevelOK'
      BY <1>12, <2>0, <2>4, <3>1, <3>3 DEF LevelOK
    <3>5. ASSUME n \notin Reality, NEW t \in Lasting, t <= e.used
          PROVE  \E u \in t..Limit : <<n, u, e.window>> \in DOMAIN warned
      <4>1. t <= level /\ t \in 1..(Limit - 1)
        BY <1>11, <1>12, <2>0, <2>8, <3>5 DEF Lasting
      <4>2. level \in t..Limit /\ level > 0
        BY <1>11, <1>12, <2>0, <4>1
      <4> QED
        BY <3>3, <3>5, <4>2
    <3>6. LookedOK'
      BY <1>2, <1>5, <1>14, <3>1, <3>5 DEF LookedOK, Announced
    <3> QED
      BY <1>5, <1>6, <1>7, <1>8, <1>10, <1>17, <2>5, <3>2, <3>4, <3>6
  <2>9. CASE best > level
    <3>1. m # Nothing /\ new = best /\ best > 0
      BY <1>3, <1>11, <1>12, <2>0, <1>16, <2>9, Loud DEF Events
    <3>2. k \notin DOMAIN warned
      <4> SUFFICES ASSUME k \in DOMAIN warned PROVE FALSE
        OBVIOUS
      <4>1. k[1] = n /\ k[2] = best /\ k[3] = e.window
        OBVIOUS
      <4>2. /\ n \in Reality => best <= quotaLevel[n]
            /\ n \notin Reality =>
                  e.window <= windowKey[n] /\ (e.window = windowKey[n] => best <= quotaLevel[n])
        BY <4>1 DEF WarnedOK
      <4>3. windowKey[n] \in Nat /\ quotaLevel[n] \in Nat /\ best \in Nat /\ level \in Nat
        BY <1>5, <1>11, <1>12, <2>0 DEF ManagerOK
      <4> QED
        BY <1>11, <1>12, <2>0, <1>13, <2>9, <4>2, <4>3
    <3>3. warned' = [x \in DOMAIN warned \union {k} |->
                       IF x # k THEN warned[x] ELSE IF Posts(m) THEN 0 + 1 ELSE 0]
      BY <1>3, <1>16, <3>1, <3>2
    <3>4. /\ DOMAIN warned' = DOMAIN warned \union {k}
          /\ \A x \in DOMAIN warned : warned'[x] = warned[x]
          /\ warned'[k] \in {0, 1}
      BY <3>2, <3>3
    <3>5. k[1] = n /\ k[2] = best /\ k[3] = e.window
      OBVIOUS
    <3>6. WarnedOK'
      <4>1. ASSUME NEW x \in DOMAIN warned
            PROVE  x = <<x[1], x[2], x[3]>> /\ x[1] \in Nodes /\ x[2] \in Nat /\ x[3] \in Nat
                   /\ warned'[x] \in {0, 1}
        BY <3>4 DEF WarnedOK
      <4>2. k = <<k[1], k[2], k[3]>> /\ k[1] \in Nodes /\ k[2] \in Nat /\ k[3] \in Nat
        BY <1>5, <1>11, <1>12, <2>0
      <4>3. /\ k[1] \in Reality => k[2] <= quotaLevel'[k[1]]
            /\ k[1] \notin Reality => k[3] <= windowKey'[k[1]] /\ k[2] <= quotaLevel'[k[1]]
        BY <1>11, <1>12, <2>0, <2>4, <3>1, <3>5
      <4> HIDE DEF k
      <4> QED
        BY <2>7, <3>4, <4>1, <4>2, <4>3 DEF WarnedOK
    <3>7. LevelOK'
      <4> HIDE DEF k, new
      <4>1. ASSUME NEW x \in Nodes \ Reality, x # n, quotaLevel'[x] > 0
            PROVE  <<x, quotaLevel'[x], windowKey'[x]>> \in DOMAIN warned'
        BY <2>4, <3>4, <4>1 DEF LevelOK
      <4>2. n \notin Reality => <<n, quotaLevel'[n], windowKey'[n]>> = k
        BY <1>12, <2>0, <2>4, <3>1 DEF k
      <4> QED
        BY <3>4, <4>1, <4>2 DEF LevelOK
    <3>8. ASSUME n \notin Reality, NEW t \in Lasting, t <= e.used
          PROVE  \E u \in t..Limit : <<n, u, e.window>> \in DOMAIN warned'
      <4>1. best \in t..Limit
        BY <1>11, <1>12, <2>0, <3>8 DEF Lasting
      <4> QED
        BY <3>4, <4>1
    <3>9. \A x \in Nodes : Announced(x, pass.snap[x]) => Announced(x, pass.snap[x])'
      BY <1>5, <3>4 DEF Announced
    <3>10. LookedOK'
      BY <1>2, <1>5, <1>14, <3>8, <3>9 DEF LookedOK, Announced
    <3> QED
      BY <1>5, <1>6, <1>7, <1>8, <1>10, <1>17, <2>5, <3>6, <3>7, <3>10
  <2> QED
    BY <2>8, <2>9
<1> QED
  BY <1>15, <1>16

-----------------------------------------------------------------------------
(* The answer to a post *)

LEMMA PostInv == ASSUME IInv, Post PROVE IInv'
<1> USE DEF IInv
<1>1. PICK n, m, event : n = pass.msg.n /\ m = pass.msg.m /\ event = m.event
  OBVIOUS
<1> DEFINE told == event \in {"nodeUp", "nodeDown"}
<1>0. Tells(m) <=> told
  BY <1>1 DEF Tells
<1>2. /\ pass.at = "post" /\ n \in Nodes /\ pass.todo \in Seq(Nodes)
      /\ pass = [at |-> pass.at, todo |-> pass.todo, snap |-> pass.snap, msg |-> pass.msg]
      /\ pass.msg.then \in Parts /\ (pass.msg.then # "running" => AtNode)
  BY <1>1 DEF Post, PassOK, Parts
<1>3. pass' = [at |-> pass.msg.then, todo |-> pass.todo, snap |-> pass.snap, msg |-> Nothing]
  BY <1>2 DEF Post
<1>4. pass'.at \in Parts /\ pass'.todo = pass.todo /\ pass'.snap = pass.snap
      /\ (pass'.at # "running" => AtNode')
  BY <1>2, <1>3 DEF AtNode, Seen, Node
<1>5. PassOK'
  <2>1. pass' = [at |-> pass'.at, todo |-> pass'.todo, snap |-> pass'.snap, msg |-> pass'.msg]
    BY <1>3
  <2>2. \A x \in Nodes : EntryOK(x, pass.snap[x])'
    BY <1>2, <1>4 DEF Post, outside, PassOK, EntryOK, Current
  <2> QED
    BY <1>2, <1>4, <2>1, <2>2 DEF PassOK, Parts, Stages
<1>6. WorldOK' /\ LiveOK'
  BY WorldKept DEF Post, outside
<1>7. HostOK' /\ LastOK'
  BY DEF Post, outside, HostOK, LastOK
<1>8. WindowsOK'
  BY <1>2, <1>4, WindowsKept DEF Post, outside, manager, Parts
<1>9. WarnedOK' /\ LevelOK'
  BY WarnedKept DEF Post, manager, outside
<1>10. LookedOK'
  BY <1>2, <1>4, LookedKept DEF Post, Ahead, Parts, outside
<1>11. ~ Telling'
  BY <1>4 DEF Telling, Parts
<1>12. Telling <=> told
  BY <1>1, <1>2 DEF Telling
<1>13. told => /\ FlipShape(flip[n]) /\ nodeRunning[n] = flip[n].up
               /\ event = IF flip[n].up THEN "nodeUp" ELSE "nodeDown"
  BY <1>1, <1>12 DEF FlipOK, ChangeOf, Message
<1>14. UNCHANGED <<nodeRunning, nodeConns, quotaLevel, windowKey>> /\ TriedOK'
  BY DEF Post, manager, FlipOK, TriedOK
<1>15. CASE /\ word' = IF told THEN [word EXCEPT ![n] = (event = "nodeUp")] ELSE word
            /\ flip' = flip
  <2>2. \A x \in Nodes : Excused(x) => Excused(x)'
    BY <1>15 DEF Excused
  <2>3. told => word'[n] = flip[n].up
    <3>1. CASE told /\ flip[n].up = TRUE
      BY <1>2, <1>13, <1>15, <3>1 DEF ManagerOK
    <3>2. CASE told /\ flip[n].up = FALSE
      BY <1>2, <1>13, <1>15, <3>2 DEF ManagerOK
    <3> QED
      BY <1>13, <3>1, <3>2 DEF FlipShape
  <2>4. \A x \in Nodes : x # n \/ ~ told => word'[x] = word[x]
    BY <1>15 DEF ManagerOK
  <2>5. ManagerOK'
    <3>1. word' \in [Nodes -> BOOLEAN \union {Nil}]
      BY <1>15 DEF ManagerOK
    <3> QED
      BY <1>14, <3>1 DEF ManagerOK
  <2>6. ASSUME NEW x \in Nodes, flip'[x] # Nil
        PROVE  FlipShape(flip'[x]) /\ nodeRunning'[x] = flip'[x].up /\ (word'[x] = flip'[x].up \/ Excused(x)')
    <3>1. /\ FlipShape(flip[x]) /\ nodeRunning[x] = flip[x].up
          /\ word[x] = flip[x].up \/ Excused(x) \/ (told /\ x = n)
      BY <1>1, <1>12, <1>15, <2>6 DEF FlipOK
    <3> QED
      BY <1>14, <1>15, <2>2, <2>3, <2>4, <3>1
  <2>7. FlipOK'
    BY <1>11, <1>14, <1>15, <2>6 DEF FlipOK, FlipShape
  <2> QED
    BY <1>5, <1>6, <1>7, <1>8, <1>9, <1>10, <2>5, <2>7
<1>16. CASE /\ flip' = IF told THEN [flip EXCEPT ![n].lost = TRUE] ELSE flip
            /\ word' = word
  <2>1. ManagerOK'
    BY <1>14, <1>16 DEF ManagerOK
  <2>2. flip = [x \in Nodes |-> flip[x]]
    BY DEF FlipOK
  <2>3. told => flip'[n] = [up |-> flip[n].up, off |-> flip[n].off, lost |-> TRUE,
                            repeats |-> flip[n].repeats]
    <3>1. told => flip'[n] = [flip[n] EXCEPT !.lost = TRUE]
      BY <1>2, <1>16, <2>2
    <3> QED
      BY <1>13, <3>1 DEF FlipShape
  <2>4. \A x \in Nodes : x # n \/ ~ told => flip'[x] = flip[x]
    BY <1>16, <2>2
  <2>5. flip' = [x \in Nodes |-> flip'[x]]
    BY <1>16, <2>2
  <2>6. \A x \in Nodes : flip'[x].up = flip[x].up
    BY <2>3, <2>4
  <2>7. ASSUME NEW x \in Nodes, x # n \/ ~ told, flip'[x] # Nil
        PROVE  FlipShape(flip'[x]) /\ nodeRunning'[x] = flip'[x].up /\ (word'[x] = flip'[x].up \/ Excused(x)')
    <3>1. /\ FlipShape(flip[x]) /\ nodeRunning[x] = flip[x].up
          /\ word[x] = flip[x].up \/ Excused(x)
      BY <1>1, <1>12, <2>4, <2>7 DEF FlipOK
    <3>2. Excused(x) => Excused(x)'
      BY <2>4, <2>7 DEF Excused
    <3> QED
      BY <1>14, <1>16, <2>4, <2>7, <3>1, <3>2
  <2>8. told => FlipShape(flip'[n]) /\ nodeRunning'[n] = flip'[n].up /\ Excused(n)'
    <3> SUFFICES ASSUME told PROVE FlipShape(flip'[n]) /\ nodeRunning'[n] = flip'[n].up /\ Excused(n)'
      OBVIOUS
    <3>1. FlipShape(flip'[n])
      BY <1>13, <2>3 DEF FlipShape
    <3>2. flip'[n].lost
      BY <2>3
    <3> QED
      BY <1>2, <1>13, <1>14, <2>6, <3>1, <3>2 DEF Excused
  <2>9. FlipOK'
    BY <1>2, <1>11, <1>14, <2>5, <2>7, <2>8 DEF FlipOK, FlipShape
  <2> QED
    BY <1>5, <1>6, <1>7, <1>8, <1>9, <1>10, <2>1, <2>9
<1> QED
  BY <1>0, <1>1, <1>15, <1>16 DEF Post

-----------------------------------------------------------------------------
(* The loop of checkHost *)

LEMMA HostInv == ASSUME IInv, HostBegin \/ HostSend \/ HostPost PROVE IInv'
<1> USE DEF IInv
<1>1. /\ UNCHANGED <<env, now, events, truth, cfg, live, nodeRunning, nodeConns, quotaLevel,
                     windowKey, pass, word, tried, flip, warned>>
      /\ LastOK' /\ \A k \in DOMAIN last : k \in DOMAIN last' /\ last'[k] >= last[k]
  <2>1. CASE HostBegin \/ HostPost
    BY <2>1 DEF HostBegin, HostPost, outside, manager, LastOK
  <2>2. CASE HostSend
    <3>1. PICK x : Reserve(Message("loadWarn", x))
      BY <2>2 DEF HostSend
    <3>2. UNCHANGED <<env, now, events, truth, cfg, live, nodeRunning, nodeConns, quotaLevel,
                      windowKey, pass, word, tried, flip, warned>>
      BY <2>2 DEF HostSend, outside, manager
    <3> QED
      BY <3>1, <3>2, Loud, ReserveFacts DEF Events
  <2> QED
    BY <2>1, <2>2
<1>2. HostOK'
  <2>1. CASE HostBegin
    BY <2>1 DEF HostBegin, HostOK
  <2>2. CASE HostSend
    <3>1. PICK x \in host.todo : \/ host' = [at |-> "post", todo |-> host.todo \ {x}]
                                 \/ host' = Idle
                                 \/ host.todo # {x} /\ host' = [host EXCEPT !.todo = @ \ {x}]
      BY <2>2 DEF HostSend
    <3>2. host.todo # {x} => host.todo \ {x} # {}
      OBVIOUS
    <3>3. host.at = "check"
      BY <2>2 DEF HostSend
    <3> QED
      BY <3>1, <3>2, <3>3 DEF HostOK, Idle
  <2>3. CASE HostPost
    BY <2>3 DEF HostPost, HostOK, Idle
  <2> QED
    BY <2>1, <2>2, <2>3
<1>3. WorldOK' /\ LiveOK' /\ ManagerOK' /\ PassOK' /\ WindowsOK' /\ LookedOK'
  BY <1>1 DEF WorldOK, LiveOK, ManagerOK, PassOK, WindowsOK, LookedOK, EntryOK, AtNode, Seen, Node,
              Ahead, Announced, Current
<1>6. TriedOK'
  <2>1. CASE HostBegin \/ HostPost
    BY <2>1 DEF HostBegin, HostPost, FlipOK, TriedOK
  <2>2. CASE HostSend
    <3>1. PICK m : Reserve(m) /\ m.event = "loadWarn"
      BY <2>2, Loud DEF HostSend, Events
    <3>2. \A k \in DOMAIN last' : k = m \/ (k \in DOMAIN last /\ last'[k] = last[k])
      BY <3>1 DEF Reserve
    <3>3. ~ Tells(m)
      BY <3>1 DEF Tells
    <3> QED
      BY <1>1, <3>2, <3>3 DEF FlipOK, TriedOK, Tells
  <2> QED
    BY <2>1, <2>2
<1>4. FlipOK'
  BY <1>1, <1>6, FlipKept
<1>5. WarnedOK' /\ LevelOK'
  BY <1>1, WarnedKept
<1> QED
  BY <1>1, <1>2, <1>3, <1>4, <1>5

-----------------------------------------------------------------------------
(* Around them *)

LEMMA WorldInv == ASSUME IInv, World PROVE IInv'
<1> USE DEF IInv
<1>1. UNCHANGED <<env, now, cfg, live, nodeRunning, nodeConns, quotaLevel, windowKey, last, pass,
                  host, word, tried, flip, warned>>
  BY DEF World, manager
<1>2. events' \in 0..MaxEvents
  <2>1. \E event \in EnvEvents : Happens(event)
    BY DEF World, EnvEvents
  <2> QED
    BY <2>1, AlertBounds DEF Happens, WorldOK
<1> DEFINE State == [up : BOOLEAN, conns : {0, 1}, used : 0..Limit, window : Nat \ {0}, until : Nat]
<1>3. PICK n \in Nodes :
        \/ Change(n, [truth[n] EXCEPT !.up = ~ @])
        \/ Change(n, [truth[n] EXCEPT !.conns = 1 - @])
        \/ truth[n].used < Limit /\ Change(n, [truth[n] EXCEPT !.used = @ + 1])
        \/ Change(n, [truth[n] EXCEPT !.used = 0, !.window = @ + 1, !.until = truth[n].window + 1])
        \/ /\ ~ Current
           /\ \E u \in 1..truth[n].window, b \in 0..Limit :
                 Change(n, [truth[n] EXCEPT !.until = u, !.used = b])
  BY DEF World, Happens, Current
<1>4. truth \in [Nodes -> State] /\ truth[n] \in State
  BY DEF WorldOK, Current
<1>5. PICK t : t = truth[n]
  OBVIOUS
<1>6. PICK rec \in State : /\ Change(n, rec) /\ rec.window >= truth[n].window
                           /\ Current => rec.until = rec.window
  <2>1. /\ t = [up |-> t.up, conns |-> t.conns, used |-> t.used, window |-> t.window, until |-> t.until]
        /\ t.up \in BOOLEAN /\ t.conns \in {0, 1} /\ t.used \in 0..Limit /\ t.window \in Nat \ {0} /\ t.until \in Nat
    BY <1>4, <1>5
  <2>0. Current => t.until = t.window
    BY <1>5 DEF WorldOK
  <2>2. CASE Change(n, [t EXCEPT !.up = ~ @])
    <3> DEFINE rec == [up |-> ~ t.up, conns |-> t.conns, used |-> t.used, window |-> t.window,
                    until |-> t.until]
    <3>1. [t EXCEPT !.up = ~ @] = rec
      BY <2>1
    <3>2. rec \in State /\ rec.window >= t.window /\ (Current => rec.until = rec.window)
      BY <2>0, <2>1
    <3>3. Change(n, rec)
      BY <2>2, <3>1
    <3> HIDE DEF rec
    <3> QED
      BY <1>5, <3>2, <3>3
  <2>3. CASE Change(n, [t EXCEPT !.conns = 1 - @])
    <3> DEFINE rec == [up |-> t.up, conns |-> 1 - t.conns, used |-> t.used, window |-> t.window,
                    until |-> t.until]
    <3>1. [t EXCEPT !.conns = 1 - @] = rec
      BY <2>1
    <3>2. rec \in State /\ rec.window >= t.window /\ (Current => rec.until = rec.window)
      BY <2>0, <2>1
    <3> QED
      BY <1>5, <2>3, <3>1, <3>2
  <2>4. CASE t.used < Limit /\ Change(n, [t EXCEPT !.used = @ + 1])
    <3> DEFINE rec == [up |-> t.up, conns |-> t.conns, used |-> t.used + 1, window |-> t.window,
                    until |-> t.until]
    <3>1. [t EXCEPT !.used = @ + 1] = rec
      BY <2>1
    <3>2. rec \in State /\ rec.window >= t.window /\ (Current => rec.until = rec.window)
      BY <2>0, <2>1, <2>4, AlertBounds
    <3> QED
      BY <1>5, <2>4, <3>1, <3>2
  <2>5. CASE Change(n, [t EXCEPT !.used = 0, !.window = @ + 1, !.until = t.window + 1])
    <3> DEFINE rec == [up |-> t.up, conns |-> t.conns, used |-> 0, window |-> t.window + 1,
                       until |-> t.window + 1]
    <3>1. [t EXCEPT !.used = 0, !.window = @ + 1, !.until = t.window + 1] = rec
      <4>1. PICK s : s = [t EXCEPT !.used = 0]
        OBVIOUS
      <4>2. s = [up |-> t.up, conns |-> t.conns, used |-> 0, window |-> t.window, until |-> t.until]
        BY <2>1, <4>1
      <4>3. PICK v : v = [s EXCEPT !.window = @ + 1]
        OBVIOUS
      <4>4. v = [up |-> t.up, conns |-> t.conns, used |-> 0, window |-> t.window + 1, until |-> t.until]
        BY <2>1, <4>2, <4>3
      <4>5. [v EXCEPT !.until = t.window + 1] = rec
        BY <4>4
      <4>6. [t EXCEPT !.used = 0, !.window = @ + 1, !.until = t.window + 1]
               = [v EXCEPT !.until = t.window + 1]
        BY <4>1, <4>3, Zenon
      <4> QED
        BY <4>5, <4>6
    <3>2. rec \in State /\ rec.window >= t.window /\ rec.until = rec.window
      BY <2>1, AlertBounds
    <3> QED
      BY <1>5, <2>5, <3>1, <3>2
  <2>6. CASE /\ ~ Current
             /\ \E u \in 1..t.window, b \in 0..Limit : Change(n, [t EXCEPT !.until = u, !.used = b])
    <3>1. PICK u \in 1..t.window, b \in 0..Limit : Change(n, [t EXCEPT !.until = u, !.used = b])
      BY <2>6
    <3> DEFINE rec == [up |-> t.up, conns |-> t.conns, used |-> b, window |-> t.window, until |-> u]
    <3>2. [t EXCEPT !.until = u, !.used = b] = rec
      <4>1. PICK s : s = [t EXCEPT !.until = u]
        OBVIOUS
      <4>2. s = [up |-> t.up, conns |-> t.conns, used |-> t.used, window |-> t.window, until |-> u]
        BY <2>1, <4>1
      <4>3. [s EXCEPT !.used = b] = rec
        BY <4>2
      <4>4. [t EXCEPT !.until = u, !.used = b] = [s EXCEPT !.used = b]
        BY <4>1, Zenon
      <4> QED
        BY <4>3, <4>4
    <3>3. rec \in State /\ rec.window >= t.window
      BY <2>1, AlertBounds
    <3> QED
      BY <1>5, <2>6, <3>1, <3>2, <3>3
  <2> QED
    BY <1>3, <1>5, <2>2, <2>3, <2>4, <2>5, <2>6
<1>7. /\ truth' \in [Nodes -> State]
      /\ \A x \in Nodes : truth'[x].window >= truth[x].window
      /\ Current => \A x \in Nodes : truth'[x].until = truth'[x].window
  <2>1. truth' = [truth EXCEPT ![n] = rec]
    BY <1>6 DEF Change
  <2>2. truth'[n] = rec /\ \A x \in Nodes \ {n} : truth'[x] = truth[x]
    BY <1>4, <2>1
  <2>3. \A x \in Nodes : truth[x].window \in Nat
    BY <1>4
  <2>4. Current => \A x \in Nodes : truth[x].until = truth[x].window
    BY DEF WorldOK
  <2> QED
    BY <1>4, <1>6, <2>1, <2>2, <2>3, <2>4
<1>8. WorldOK'
  BY <1>1, <1>2, <1>7 DEF WorldOK, Current
<1>9. WindowsOK'
  <2> SUFFICES ASSUME Current, NEW x \in Nodes \ Reality
               PROVE  /\ windowKey[x] <= truth'[x].window
                      /\ pass.at # "idle" /\ pass.snap[x] # Nil =>
                            windowKey[x] <= pass.snap[x].window /\ pass.snap[x].window <= truth'[x].window
    BY <1>1 DEF WindowsOK, Current
  <2>1. windowKey[x] \in Nat /\ truth[x].window \in Nat /\ truth'[x].window \in Nat
    BY <1>4, <1>7 DEF ManagerOK
  <2>2. pass.at # "idle" /\ pass.snap[x] # Nil => pass.snap[x].window \in Nat
    BY DEF PassOK, EntryOK, Current
  <2> QED
    BY <1>7, <2>1, <2>2 DEF WindowsOK
<1>10. LiveOK' /\ ManagerOK' /\ HostOK' /\ LastOK' /\ PassOK' /\ LookedOK'
  BY <1>1 DEF LiveOK, ManagerOK, HostOK, LastOK, PassOK, LookedOK, EntryOK, AtNode, Seen, Node,
              Ahead, Announced, Current
<1>11. FlipOK'
  BY <1>1, FlipKept DEF FlipOK, TriedOK
<1>12. WarnedOK' /\ LevelOK'
  BY <1>1, WarnedKept
<1> QED
  BY <1>8, <1>9, <1>10, <1>11, <1>12

LEMMA AroundInv == ASSUME IInv, Load \/ Settings \/ Tick \/ UNCHANGED vars PROVE IInv'
<1> USE DEF IInv
<1>1. UNCHANGED <<env, truth, live, nodeRunning, nodeConns, quotaLevel, windowKey, last, pass,
                  host, word, tried, flip, warned>>
  BY DEF Load, Settings, Tick, vars, outside, manager
<1>2. WorldOK'
  <2>1. CASE Load \/ Settings
    BY <2>1, AlertBounds DEF Load, Settings, Happens, WorldOK, Current
  <2>2. CASE Tick \/ UNCHANGED vars
    BY <2>2, AlertBounds DEF Tick, vars, outside, WorldOK, Current
  <2> QED
    BY <2>1, <2>2
<1>3. LastOK'
  <2>1. now' \in Nat /\ now \in Nat /\ now' >= now
    BY AlertBounds DEF Load, Settings, Tick, vars, outside, WorldOK, Current
  <2> QED
    BY <1>1, <2>1 DEF LastOK
<1>4. LiveOK' /\ ManagerOK' /\ HostOK' /\ PassOK' /\ WindowsOK' /\ LookedOK'
  BY <1>1 DEF LiveOK, ManagerOK, HostOK, PassOK, WindowsOK, LookedOK, EntryOK, AtNode, Seen, Node,
              Ahead, Announced, Current
<1>5. FlipOK'
  BY <1>1, FlipKept DEF FlipOK, TriedOK
<1>6. WarnedOK' /\ LevelOK'
  BY <1>1, WarnedKept
<1> QED
  BY <1>2, <1>3, <1>4, <1>5, <1>6

LEMMA RestartInv == ASSUME IInv, Restart PROVE IInv'
<1> USE DEF IInv
<1>1. WorldOK'
  BY AlertBounds DEF Restart, Happens, WorldOK, Current
<1>2. LiveOK' /\ PassOK'
  BY DEF Restart, LiveOK, EntryOK, PassOK, Idle, Stages, Current
<1>3. ManagerOK'
  BY AlertBounds DEF Restart, ManagerOK
<1>4. HostOK' /\ LastOK'
  BY DEF Restart, HostOK, LastOK, Idle
<1>5. WindowsOK'
  BY DEF Restart, WindowsOK, WorldOK, Idle, Current
<1>6. FlipOK'
  BY DEF Restart, FlipOK, TriedOK, Telling, Idle
<1>7. WarnedOK' /\ LevelOK' /\ LookedOK'
  BY DEF Restart, WarnedOK, LevelOK, LookedOK, Idle, Current
<1> QED
  BY <1>1, <1>2, <1>3, <1>4, <1>5, <1>6, <1>7

-----------------------------------------------------------------------------
(* The theorems *)

LEMMA Invariance == Spec => []IInv
<1>1. Init => IInv
  BY InitInv
<1>2. IInv /\ [Next]_vars => IInv'
  BY PassBeginInv, PassBlindInv, PassEndInv, SkipNodeInv, ObserveRunningInv, ObserveClientsInv,
     ObserveBlockedInv, ObserveWarnInv, PostInv, HostInv, WorldInv, AroundInv, RestartInv DEF Next
<1> QED
  BY <1>1, <1>2, PTL DEF Spec

\* The levels stay below the quota, a sing-box node has no window, and nothing is noted later
\* than now: alerts.Manager, Notifier and Controller.live have the types the code gives them.
THEOREM TypeCorrect == Spec => []TypeOK
<1>1. IInv => TypeOK
  <2> SUFFICES ASSUME IInv PROVE TypeOK
    OBVIOUS
  <2> USE DEF IInv
  <2>1. ASSUME NEW n \in Nodes
        PROVE  /\ nodeRunning[n] \in BOOLEAN \union {Nil} /\ nodeConns[n] \in {0, 1, Nil}
               /\ quotaLevel[n] \in 0..(Limit - 1)
               /\ n \in Reality => windowKey[n] = 0
    BY DEF ManagerOK
  <2> QED
    BY <2>1 DEF TypeOK, WorldOK, HostOK, LastOK, PassOK, Current
<1> QED
  BY <1>1, Invariance, PTL

\* ObserveNodes announces a threshold once in a quota window, for any number of nodes and
\* thresholds, whatever the admin sets and whatever is lost or fails meanwhile, as long as gost
\* shows the window the panel gave it.
THEOREM WarnedOnceHolds == Spec => []WarnedOnce
<1>1. IInv => WarnedOnce
  BY DEF IInv, WarnedOK, WarnedOnce, Current
<1> QED
  BY <1>1, Invariance, PTL

\* A pass of ObserveNodes leaves no threshold a gost node has reached without an announcement
\* in the window it sees, under the same condition.
THEOREM WarnedEachWindowHolds == Spec => []WarnedEachWindow
<1>1. IInv => WarnedEachWindow
  <2> SUFFICES ASSUME IInv, Current, pass.at = "running", pass.todo = << >>, NEW n \in Nodes \ Reality,
                      pass.snap[n] # Nil, pass.snap[n].used < Limit
               PROVE  Announced(n, pass.snap[n])
    BY DEF WarnedEachWindow, AnnouncedOf
  <2>1. ~ Ahead(n)
    BY DEF Ahead
  <2> QED
    BY <2>1 DEF IInv, LookedOK, Current
<1> QED
  BY <1>1, Invariance, PTL

\* Between passes the admin was last told of every node what the panel last saw, but for what
\* was switched off, was lost, or followed an earlier post of the same message within the cooldown.
THEOREM LastWordHolds == Spec => []LastWord
<1>1. IInv => LastWord
  <2> SUFFICES ASSUME IInv, pass.at = "idle", NEW n \in Nodes, flip[n] # Nil, word[n] # nodeRunning[n]
               PROVE  Excused(n)
    BY DEF LastWord, Excused, ChangeOf
  <2> QED
    BY DEF IInv, FlipOK, Telling
<1> QED
  BY <1>1, Invariance, PTL
=============================================================================

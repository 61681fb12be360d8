----------------------------- MODULE MqttBridge -----------------------------
(***************************************************************************)
(* The MQTT bridge of internal/mqttbridge over the store, the engine and the *)
(* weather cache.  Its loop wakes once a second, reads a snapshot, drops or  *)
(* makes the connection the settings ask for, compares two revision counters *)
(* with those of its last publication and publishes if they moved; it holds  *)
(* no lock of the others over any two of these, and the link to the broker   *)
(* may fail, and come back by itself, between any two.                       *)
(*                                                                          *)
(* The broker is external: it keeps the retained topics, publishes the will  *)
(* of a client it loses, and drops what is published over a failed link.  A  *)
(* client greets in the step that connects it.                               *)
(***************************************************************************)
EXTENDS Weather

CONSTANTS
  Zones,         \* zones of every configuration
  Prefixes,      \* topic prefixes
  Groups,        \* bound: sets of configurations, a saved one is of the same set
  FirstConfigs,  \* those the daemon may be started with
  None,          \* no client, no value of a topic
  MaxChanges,    \* bound: saved configurations
  MaxMoves,      \* bound: observable changes of the engine
  MaxFaults      \* bound: links lost, connections refused, daemons ended

\* What mqttFingerprint tells apart; broker and account go with the prefix.
Connection == [prefix : Prefixes, discovery : BOOLEAN]

ConfigSet ==
  [on : BOOLEAN, conn : Connection, run : BOOLEAN, rain : BOOLEAN, enabled : SUBSET Zones,
   weather : WeatherSet]

Configs == UNION Groups

Switch == {"ON", "OFF", None}
TopicSet == [zones : [Zones -> Switch], run : Switch, rain : Switch, scale : 0 .. 200 \cup {None}]

ASSUME BridgeParameters ==
  /\ Configs \subseteq ConfigSet /\ FirstConfigs \subseteq Configs /\ 0 \notin Zones
  /\ None \notin Prefixes \cup Connection \cup {"ON", "OFF", "online"}
  /\ MaxChanges \in Nat /\ MaxMoves \in Nat /\ MaxFaults \in Nat

VARIABLES
  cfgRev,    \* the store's counter; cfg itself is declared in Weather
  zone,      \* the zone whose valve the engine has open, 0 if none
  engRev,    \* the engine's counter
  phase,     \* "up", "stopping" once the signal came, "down"
  pass,      \* where the loop is, with its locals
  last,      \* lastState: the engine's counter and the store's
  client,    \* the fingerprint b.client was connected with, None without one
  link,      \* whether that client has a connection to the broker
  avail,     \* retained: prefix/availability
  topics,    \* retained: the other topics of each prefix
  entities,  \* retained: per zone the prefix its discovery entry names, or None
  behind,    \* history: what was last published from an old snapshot or in vain
  strayed,   \* history: prefixes whose client said "offline" under another
  changes, moves, faults   \* count towards the bounds

control == <<cfg, cfgRev, zone, engRev>>
session == <<client, link, avail, strayed>>
content == <<topics, entities, behind>>
bounds  == <<changes, moves, faults>>
vars    == <<control, phase, pass, last, session, content, bounds, weatherVars>>

-----------------------------------------------------------------------------
(* The loop.                                                                *)

Sleeping == [at |-> "asleep"]
At       == pass.at
Sleep    == pass' = Sleeping
Goto(place) == pass' = [pass EXCEPT !.at = place]

Fits(s) == client # None /\ client = s.conn

\* Snapshot and fingerprint: disconnect, reconnect, or look for changes.  With MQTT
\* switched off and no client there is nothing to do.
Wake ==
  /\ At = "asleep" /\ phase # "down" /\ (cfg.on \/ client # None)
  /\ pass' = [at |-> IF ~cfg.on THEN "drop" ELSE IF Fits(cfg) THEN "revs" ELSE "drop",
              snap |-> cfg]
  /\ UNCHANGED <<control, phase, last, session, content, bounds, weatherVars>>

\* A slip: the connection is closed without a word.
DisconnectSilently == client' = None /\ link' = FALSE /\ UNCHANGED <<avail, strayed>>

\* disconnect: "offline" goes to the prefix stored now, and the orderly end of
\* the session takes its will away.
Disconnect ==
  /\ client' = None /\ link' = FALSE
  /\ \/ link /\ avail' = [avail EXCEPT ![cfg.conn.prefix] = "offline"]
             /\ strayed' = (strayed \cup {client.prefix}) \ {cfg.conn.prefix}
     \/ ~link /\ UNCHANGED <<avail, strayed>>

Drop ==
  /\ At = "drop"
  /\ Disconnect
  /\ IF pass.snap.on THEN Goto("dial") ELSE Sleep
  /\ UNCHANGED <<control, phase, last, content, bounds, weatherVars>>

Connect(c) ==
  /\ client' = c /\ link' = TRUE
  /\ avail' = [avail EXCEPT ![c.prefix] = "online"]
  /\ strayed' = strayed \ {c.prefix}

\* A slip: what was published to another broker counts here.
DialKeepingState ==
  /\ At = "dial"
  /\ Connect(pass.snap.conn) /\ Goto("revs")
  /\ UNCHANGED <<control, phase, last, content, bounds, weatherVars>>

\* connect: after it all is to be published; a refused one is tried again after
\* a while.
Dial ==
  /\ At = "dial"
  /\ \/ Connect(pass.snap.conn) /\ last' = <<-1, -1>> /\ Goto("revs") /\ UNCHANGED faults
     \/ /\ faults < MaxFaults /\ faults' = faults + 1
        /\ Sleep /\ UNCHANGED <<session, last>>
  /\ UNCHANGED <<control, phase, content, changes, moves, weatherVars>>

\* The two counters are read one after the other.
ReadEngineRev ==
  /\ At = "revs"
  /\ pass' = [at |-> "cfgRev", snap |-> pass.snap, seen |-> engRev]
  /\ UNCHANGED <<control, phase, last, session, content, bounds, weatherVars>>

ReadConfigRev ==
  LET state == <<pass.seen, cfgRev>> IN
  /\ At = "cfgRev"
  /\ last' = state
  /\ IF state = last THEN Sleep
     ELSE pass' = [at |-> "state", snap |-> pass.snap, old |-> pass.snap # cfg,
                   discover |-> cfgRev # last[2] /\ pass.snap.conn.discovery]
  /\ UNCHANGED <<control, phase, session, content, bounds, weatherVars>>

OnOff(b) == IF b THEN "ON" ELSE "OFF"

\* stateMessages; a zone that is not enabled has no message.
Rendered(c) ==
  [zones |-> [z \in Zones |-> IF z \in c.enabled THEN OnOff(z = zone) ELSE None],
   run |-> OnOff(c.run), rain |-> OnOff(c.rain), scale |-> cache.scale]

\* What the publication under way consists of, and what becomes of it.
Parts == {"topics"} \cup IF pass.discover THEN {"entities"} ELSE {}

Arrive(parts) ==
  behind' = (behind \ Parts) \cup (Parts \ IF pass.old THEN {} ELSE parts)

\* publish: nothing without a connection, though it counts as published; else
\* the engine's state and the scale as they are now.
ReadState ==
  /\ At = "state"
  /\ \/ /\ pass' = [at |-> "send", snap |-> pass.snap, old |-> pass.old,
                     discover |-> pass.discover, msgs |-> Rendered(pass.snap)]
        /\ UNCHANGED behind
     \/ ~link /\ Arrive({}) /\ Sleep
  /\ UNCHANGED <<control, phase, last, session, topics, entities, bounds, weatherVars>>

Overwritten(old, new) ==
  [new EXCEPT !.zones = [z \in Zones |-> IF @[z] = None THEN old.zones[z] ELSE @[z]]]

\* The messages, at most once each: discovery first, then the state.  They all
\* arrive, or the link was lost before, between or after the two.
Send ==
  /\ At = "send" /\ Sleep
  /\ \E parts \in {{}, {"entities"}, {"entities", "topics"}} :
       /\ link => "topics" \in parts
       /\ topics' = IF "topics" \in parts
                    THEN [topics EXCEPT ![pass.snap.conn.prefix] = Overwritten(@, pass.msgs)]
                    ELSE topics
       /\ entities' = IF pass.discover /\ "entities" \in parts
                      THEN [z \in Zones |-> IF z \in pass.snap.enabled
                                            THEN pass.snap.conn.prefix ELSE None]
                      ELSE entities
       /\ Arrive(parts)
  /\ UNCHANGED <<control, phase, last, session, bounds, weatherVars>>

\* The end of the context.
Leave ==
  /\ At = "asleep" /\ phase = "stopping"
  /\ IF client = None THEN UNCHANGED session ELSE Disconnect
  /\ pass' = [at |-> "ended"]
  /\ UNCHANGED <<control, phase, last, content, bounds, weatherVars>>

-----------------------------------------------------------------------------
(* The broker and the link; the client reconnects by itself.                *)

LastWill == avail' = [avail EXCEPT ![client.prefix] = "offline"]

LinkFails ==
  /\ link /\ faults < MaxFaults /\ faults' = faults + 1
  /\ link' = FALSE /\ LastWill
  /\ UNCHANGED <<control, phase, pass, last, client, strayed, content, changes, moves,
                 weatherVars>>

\* A slip: only the first connection of a client is greeted.
RelinkSilently ==
  /\ client # None /\ ~link /\ link' = TRUE
  /\ UNCHANGED <<control, phase, pass, last, client, avail, strayed, content, bounds,
                 weatherVars>>

Relink ==
  /\ client # None /\ ~link
  /\ Connect(client)
  /\ UNCHANGED <<control, phase, pass, last, content, bounds, weatherVars>>

-----------------------------------------------------------------------------
(* The rest of the daemon.                                                  *)

\* A handler or a command saves a configuration.
SaveConfig ==
  /\ phase # "down" /\ changes < MaxChanges /\ changes' = changes + 1
  /\ \E g \in Groups : cfg \in g /\ cfg' \in g \ {cfg}
  /\ cfgRev' = cfgRev + 1
  /\ UNCHANGED <<zone, engRev, phase, pass, last, session, content, moves, faults, weatherVars>>

\* A tick, a handler or a command changes the outputs, or just the counter.
EngineMoves ==
  /\ phase # "down" /\ moves < MaxMoves /\ moves' = moves + 1
  /\ zone' \in Zones \cup {0} /\ engRev' = engRev + 1
  /\ UNCHANGED <<cfg, cfgRev, phase, pass, last, session, content, changes, faults, weatherVars>>

Aside == phase # "down" /\ UNCHANGED <<control, phase, pass, last, session, content, bounds>>

Refreshing == WeatherNext /\ Aside

Signal ==
  /\ phase = "up" /\ faults < MaxFaults /\ faults' = faults + 1 /\ phase' = "stopping"
  /\ UNCHANGED <<control, pass, last, session, content, changes, moves, weatherVars>>

\* The process ends: killed, or since main does not wait for the bridge.
Exit ==
  /\ \/ phase = "stopping" /\ UNCHANGED faults
     \/ phase = "up" /\ faults < MaxFaults /\ faults' = faults + 1
  /\ phase' = "down"
  /\ IF link THEN LastWill ELSE UNCHANGED avail
  /\ client' = None /\ link' = FALSE /\ Sleep /\ last' = <<0, 0>>
  /\ zone' = 0 /\ engRev' = 0 /\ cfgRev' = 0
  /\ cache' = EmptyCache /\ refresh' = [r \in DOMAIN refresh |-> Resting]
  /\ UNCHANGED <<cfg, strayed, content, changes, moves, asks>>

Restart ==
  /\ phase = "down" /\ phase' = "up"
  /\ UNCHANGED <<control, pass, last, session, content, bounds, weatherVars>>

Init ==
  /\ cfg \in FirstConfigs /\ cfgRev = 0 /\ zone = 0 /\ engRev = 0 /\ phase = "up"
  /\ pass = Sleeping /\ last = <<0, 0>>
  /\ client = None /\ link = FALSE /\ avail = [p \in Prefixes |-> None] /\ strayed = {}
  /\ topics = [p \in Prefixes |-> [zones |-> [z \in Zones |-> None], run |-> None,
                                   rain |-> None, scale |-> None]]
  /\ entities = [z \in Zones |-> None] /\ behind = {}
  /\ changes = 0 /\ moves = 0 /\ faults = 0
  /\ WeatherInit

Pass == Wake \/ Drop \/ Dial \/ ReadEngineRev \/ ReadConfigRev \/ ReadState \/ Send \/ Leave

Next ==
  \/ Pass \/ LinkFails \/ Relink \/ SaveConfig \/ EngineMoves \/ Refreshing
  \/ Signal \/ Exit \/ Restart

Spec == Init /\ [][Next]_vars

\* The loop's ticker and the hourly one go on, a refresh gives up after 20
\* seconds at the latest, the client tries to reconnect, and the network lets it.
FairSpec ==
  /\ Spec
  /\ WF_vars(Pass) /\ WF_vars(Relink)
  /\ WF_vars((AskHourly \/ Fetch(Hourly) \/ Store(Hourly)) /\ Aside)
  /\ \A r \in Requests : WF_vars((Fetch(r) \/ Store(r)) /\ Aside)

-----------------------------------------------------------------------------
(* Properties.                                                              *)

\* Where the loop may be, with the locals it has there.
Passes ==
  {Sleeping, [at |-> "ended"]}
    \cup [at : {"drop", "dial", "revs"}, snap : Configs]
    \cup [at : {"cfgRev"}, snap : Configs, seen : Nat]
    \cup [at : {"state"}, snap : Configs, old : BOOLEAN, discover : BOOLEAN]
    \cup [at : {"send"}, snap : Configs, old : BOOLEAN, discover : BOOLEAN, msgs : TopicSet]

\* Types; nothing is connected without a client.
TypeOK ==
  /\ WeatherTypeOK
  /\ cfg \in Configs /\ cfgRev \in Nat /\ engRev \in Nat /\ zone \in Zones \cup {0}
  /\ phase \in {"up", "stopping", "down"}
  /\ pass \in Passes
  /\ last \in Int \X Int /\ client \in Connection \cup {None} /\ link \in BOOLEAN
  /\ link => client # None
  /\ avail \in [Prefixes -> {"online", "offline", None}]
  /\ topics \in [Prefixes -> TopicSet] /\ entities \in [Zones -> Prefixes \cup {None}]
  /\ behind \subseteq {"topics", "entities"} /\ strayed \subseteq Prefixes

\* The topics of the stored prefix say what engine and configuration are.
TopicsTrue ==
  LET now == topics[cfg.conn.prefix] IN
  /\ \A z \in cfg.enabled : now.zones[z] = OnOff(z = zone)
  /\ now.run = OnOff(cfg.run) /\ now.rain = OnOff(cfg.rain)

\* Home Assistant has an entry for every zone that is enabled and for no other.
EntitiesTrue ==
  \A z \in Zones : entities[z] = IF z \in cfg.enabled THEN cfg.conn.prefix ELSE None

Mirrored ==
  /\ "topics" \notin behind => TopicsTrue
  /\ cfg.conn.discovery /\ "entities" \notin behind => EntitiesTrue

\* No change goes unnoticed: a loop that sleeps and would find its connection as
\* it should be and neither counter moved has told the broker the engine's and
\* the store's state, but for what was lost on the way or taken from a snapshot
\* older than the counter.
NothingUnnoticed ==
  At = "asleep" /\ cfg.on /\ Fits(cfg) /\ last = <<engRev, cfgRev>> => Mirrored

\* A prefix that is shown as online has a client connected for it, whether the
\* last one was closed in order, lost its link or died with the process; except
\* where the prefix was changed and the old client said "offline" under the new one.
OnlineIsHonest ==
  \A p \in Prefixes :
    avail[p] = "online" => (link /\ client.prefix = p) \/ p \in strayed

\* Once things stay as they are, a daemon that is up with MQTT switched on is shown as
\* online under the stored prefix, whatever happened before.  Its topics and entities
\* are then true as well, also after restarts, refused connections and links that
\* failed, except for what was last published from a snapshot older than its counter,
\* without a connection, or over one that was just lost (behind): the loop does not
\* repeat that, and nothing is claimed of it (bridge.go:55, 74, 128-130).
MirroredInTheEnd ==
  <>[](phase = "up" /\ cfg.on => avail[cfg.conn.prefix] = "online" /\ Mirrored)

\* However refreshes overlap, also if the answer of a provider or for a place that was
\* just replaced comes last, the hourly refresh sees to it that in the end the cache
\* holds what came of asking with the settings that are stored, or, without a
\* provider, nothing.
CacheCatchesUp ==
  <>[](phase = "up" =>
         /\ cache.provider = cfg.weather.provider
         /\ cache.provider # "none" => cache.settings = cfg.weather)
=============================================================================

-------------------------- MODULE MqttBridgeProofs --------------------------
(***************************************************************************)
(* The invariants of modules Weather and MqttBridge, for any zones, prefixes *)
(* and configurations, any answers of the providers, any number of refreshes *)
(* side by side, and every bound.                                            *)
(***************************************************************************)
EXTENDS MqttBridge, TLAPS

-----------------------------------------------------------------------------
(* The weather cache.                                                       *)

\* What a scale from these settings may be: neutral, or on the word of their provider.
Founded(s, scale) ==
  scale # 100 =>
    \/ s.provider = "openmeteo" /\ AdvisedByOpenMeteo(scale)
    \/ s.provider = "openweather" /\ s.key /\ AdvisedByOpenWeather(scale)

\* What waits to be stored is founded on the settings the refresh began with, and what
\* is stored on those it is from, whose provider the cache names.
ValsKnown ==
  \A r \in Requests \cup {Hourly} :
    refresh[r].at = "store" => Founded(refresh[r].settings, Scale(refresh[r].vals))

CacheKnown ==
  cache.provider = cache.settings.provider /\ Founded(cache.settings, cache.scale)

WeatherInv == WeatherTypeOK /\ ValsKnown /\ CacheKnown

\* A scale is a percentage from 0 to 200.
LEMMA ClampRange ==
  ASSUME NEW n \in Int
  PROVE  Clamp(n) \in 0 .. 200
  BY DEF Clamp

\* The scale of valid figures is the advice for them.
LEMMA ScaleIsAdvice ==
  ASSUME NEW v \in ValSet
  PROVE  /\ Scale(v) \in 0 .. 200
         /\ v.valid => Scale(v) = Advice(v.humidity, v.temp, v.rain)
         /\ ~v.valid => Scale(v) = 100
<1>1. v.valid \in BOOLEAN /\ v.temp \in Int /\ v.humidity \in Int /\ v.rain \in Int
  BY DEF ValSet
<1>2. CASE ~v.valid
  BY <1>2 DEF Scale
<1>3. CASE v.valid
  <2>. DEFINE n == 100 + (NeutralHumidity - v.humidity) + (v.temp - 70) * 4 - 2 * v.rain
  <2>1. n \in Int /\ n = 100 + (30 - v.humidity) + 4 * (v.temp - 70) - 2 * v.rain
    BY <1>1 DEF NeutralHumidity
  <2>2. Scale(v) = Clamp(n)
    BY <1>3 DEF Scale
  <2>3. Advice(v.humidity, v.temp, v.rain) = Clamp(n)
    BY <2>1 DEF Advice
  <2>. HIDE DEF n
  <2>. QED BY <1>3, <2>1, <2>2, <2>3, ClampRange
<1>. QED BY <1>1, <1>2, <1>3

\* What an answer says is a number, 0 for a field it lacks and a fraction of the
\* temperature if there are hours without one.
LEMMA FigureTypes ==
  ASSUME NEW a \in Replies
  PROVE  /\ a.temp \in Int /\ a.yesterday \in Nat /\ a.today \in Nat
         /\ Figure(a, "temp") \in Int /\ MeanOfDay(a) \in Int
         /\ Figure(a, "yesterday") \in Nat /\ Figure(a, "today") \in Nat
         /\ Humidity(a) \in Int /\ Humidity(a) \in Humidities(a)
<1>1. /\ a.temp \in Int /\ a.yesterday \in Nat /\ a.today \in Nat /\ a.humidity \in Int
      /\ a.hours \in 0 .. 24
  BY WeatherParameters DEF Answer
<1>2. Figure(a, "temp") \in Int /\ Figure(a, "yesterday") \in Nat /\ Figure(a, "today") \in Nat
  BY <1>1 DEF Figure
<1>3. Humidity(a) \in Int /\ Humidity(a) \in Humidities(a)
  BY <1>1 DEF Humidity, Humidities, NeutralHumidity
<1>4. MeanOfDay(a) \in Int
  <2>1. Figure(a, "temp") * a.hours \in Int
    BY <1>1, <1>2
  <2>. QED BY <2>1 DEF MeanOfDay
<1>. QED BY <1>1, <1>2, <1>3, <1>4

\* No answer, or one that is refused, leaves the scale neutral.
LEMMA InvalidFounded ==
  ASSUME NEW s
  PROVE  Invalid \in ValSet /\ Founded(s, Scale(Invalid))
  BY DEF Invalid, ValSet, Founded, Scale

\* A forecast that is accepted has all the fields.
LEMMA OpenMeteoKnown ==
  ASSUME NEW s, s.provider = "openmeteo", NEW first \in Replies \cup {NoReply}
  PROVE  OpenMeteo(s, first) \in ValSet /\ Founded(s, Scale(OpenMeteo(s, first)))
<1>1. CASE OpenMeteo(s, first) = Invalid
  BY <1>1, InvalidFounded
<1>2. CASE OpenMeteo(s, first) # Invalid
  <2>. DEFINE v == OpenMeteo(s, first)
  <2>1. first \in Replies /\ first.has = Fields
    BY <1>2 DEF OpenMeteo
  <2>2. v = [valid |-> TRUE, temp |-> MeanOfDay(first), humidity |-> Humidity(first),
             rain |-> Figure(first, "yesterday") + Figure(first, "today")]
    BY <1>2 DEF OpenMeteo
  <2>3. v \in ValSet
    BY <2>1, <2>2, FigureTypes DEF ValSet
  <2>4. /\ Figure(first, "temp") = first.temp
        /\ Figure(first, "yesterday") = first.yesterday /\ Figure(first, "today") = first.today
    BY <2>1 DEF Fields, Figure
  <2>5. Scale(v) = Advice(Humidity(first), (first.temp * first.hours) \div 24,
                          first.yesterday + first.today)
    <3>1. Scale(v) = Advice(v.humidity, v.temp, v.rain)
      BY <2>2, <2>3, ScaleIsAdvice
    <3>. HIDE DEF v
    <3>. QED BY <2>2, <2>4, <3>1 DEF MeanOfDay
  <2>. HIDE DEF v
  <2>6. AdvisedByOpenMeteo(Scale(v))
    BY <2>1, <2>5, FigureTypes, Zenon DEF AdvisedByOpenMeteo
  <2>. QED BY <2>3, <2>6 DEF v, Founded
<1>. QED BY <1>1, <1>2

\* The second summary tells today's rain, or none is counted.
LEMMA TodayKnown ==
  ASSUME NEW second \in Replies \cup {NoReply}
  PROVE  \E t \in {0} \cup {b.today : b \in {b \in Replies : "today" \in b.has}} :
           t \in Nat /\ t = IF second = NoReply THEN 0 ELSE Figure(second, "today")
<1>1. CASE second \in Replies /\ second # NoReply /\ "today" \in second.has
  BY <1>1, FigureTypes DEF Figure
<1>2. CASE second = NoReply \/ ~("today" \in second.has)
  BY <1>2 DEF Figure
<1>. QED BY <1>1, <1>2

\* Of two summaries that are accepted, yesterday's has a temperature and a rain.
LEMMA OpenWeatherKnown ==
  ASSUME NEW s, s.provider = "openweather", NEW first \in Replies \cup {NoReply},
         NEW second \in Replies \cup {NoReply}
  PROVE  /\ OpenWeather(s, first, second) \in ValSet
         /\ Founded(s, Scale(OpenWeather(s, first, second)))
<1>1. CASE OpenWeather(s, first, second) = Invalid
  BY <1>1, InvalidFounded
<1>2. CASE OpenWeather(s, first, second) # Invalid
  <2>. DEFINE v == OpenWeather(s, first, second)
  <2>1. first \in Replies /\ {"temp", "yesterday"} \subseteq first.has /\ s.key
    BY <1>2 DEF OpenWeather
  <2>2. PICK t \in {0} \cup {b.today : b \in {b \in Replies : "today" \in b.has}} :
          t \in Nat /\ t = IF second = NoReply THEN 0 ELSE Figure(second, "today")
    BY TodayKnown
  <2>3. v = [valid |-> TRUE, temp |-> Figure(first, "temp"), humidity |-> Humidity(first),
             rain |-> Figure(first, "yesterday") + t]
    BY <1>2, <2>2 DEF OpenWeather, Summary
  <2>4. v \in ValSet
    BY <2>1, <2>2, <2>3, FigureTypes DEF ValSet
  <2>5. Figure(first, "temp") = first.temp /\ Figure(first, "yesterday") = first.yesterday
    BY <2>1 DEF Figure
  <2>6. Scale(v) = Advice(Humidity(first), first.temp, first.yesterday + t)
    <3>1. Scale(v) = Advice(v.humidity, v.temp, v.rain)
      BY <2>3, <2>4, ScaleIsAdvice
    <3>. HIDE DEF v
    <3>. QED BY <2>3, <2>5, <3>1
  <2>. HIDE DEF v
  <2>7. AdvisedByOpenWeather(Scale(v))
    BY <2>1, <2>2, <2>6, FigureTypes, Zenon DEF AdvisedByOpenWeather
  <2>. QED BY <2>1, <2>4, <2>7 DEF v, Founded
<1>. QED BY <1>1, <1>2

\* So whichever provider is asked.
LEMMA ValsAreKnown ==
  ASSUME NEW s \in WeatherSet, NEW v,
         v \in Outcomes(s)
  PROVE  v \in ValSet /\ Founded(s, Scale(v))
<1>1. PICK first, second \in Replies \cup {NoReply} : v = Vals(s, first, second)
  BY DEF Outcomes
<1>2. s.provider \in Providers
  BY DEF WeatherSet
<1>3. CASE s.provider = "none"
  BY <1>1, <1>3, InvalidFounded DEF Vals
<1>4. CASE s.provider = "openmeteo"
  BY <1>1, <1>4, OpenMeteoKnown DEF Vals
<1>5. CASE s.provider = "openweather"
  BY <1>1, <1>5, OpenWeatherKnown DEF Vals
<1>. QED BY <1>2, <1>3, <1>4, <1>5 DEF Providers

\* The cache and its refreshes begin with nothing known.
LEMMA EmptyFacts ==
  /\ EmptyCache \in [provider : Providers, scale : 0 .. 200, settings : WeatherSet]
  /\ EmptyCache.provider = EmptyCache.settings.provider
  /\ Founded(EmptyCache.settings, EmptyCache.scale)
<1>1. EmptyCache.settings \in WeatherSet
  BY DEF EmptyCache, WeatherSet, Providers
<1>. QED BY <1>1 DEF EmptyCache, Providers, Founded

\* So nothing unfounded is there to begin with,
LEMMA WeatherStart ==
  ASSUME WeatherInit
  PROVE  WeatherInv
<1>1. WeatherTypeOK
  BY WeatherParameters, EmptyFacts DEF WeatherInit, WeatherTypeOK, Refreshes, Resting
<1>2. ValsKnown
  BY DEF WeatherInit, ValsKnown, Resting
<1>3. CacheKnown
  BY EmptyFacts DEF WeatherInit, CacheKnown
<1>. QED BY <1>1, <1>2, <1>3 DEF WeatherInv

\* A refresh that begins has the settings as they are and nothing to store.
LEMMA AskKeeps ==
  ASSUME WeatherInv, NEW r \in Requests \cup {Hourly}, cfg.weather \in WeatherSet,
         refresh' = [refresh EXCEPT ![r] = Asking(cfg.weather)], UNCHANGED cache,
         asks' \in 0 .. MaxRefreshes
  PROVE  WeatherInv'
<1>1. Asking(cfg.weather) \in Refreshes /\ Asking(cfg.weather).at = "fetch"
  BY DEF Asking, Refreshes
<1>2. WeatherTypeOK'
  BY <1>1 DEF WeatherInv, WeatherTypeOK
<1>3. ValsKnown'
  BY <1>1 DEF WeatherInv, WeatherTypeOK, ValsKnown
<1>. QED BY <1>2, <1>3 DEF WeatherInv, CacheKnown

\* An answer that came is founded.
LEMMA FetchKeeps ==
  ASSUME WeatherInv, NEW r \in Requests \cup {Hourly}, Fetch(r)
  PROVE  WeatherInv'
<1>. DEFINE s == refresh[r].settings
<1>1. /\ refresh \in [Requests \cup {Hourly} -> Refreshes] /\ refresh[r].at = "fetch"
      /\ UNCHANGED <<cache, asks>>
  BY DEF WeatherInv, WeatherTypeOK, Fetch
<1>2. s \in WeatherSet
  BY <1>1 DEF Refreshes, Resting
<1>3. PICK v \in Outcomes(s) :
        refresh' = [refresh EXCEPT ![r] = [at |-> "store", settings |-> s, vals |-> v]]
  BY DEF Fetch
<1>4. v \in ValSet /\ Founded(s, Scale(v))
  BY <1>2, ValsAreKnown
<1>. HIDE DEF s
<1>5. WeatherTypeOK'
  BY <1>1, <1>2, <1>3, <1>4 DEF WeatherInv, WeatherTypeOK, Refreshes
<1>6. ValsKnown'
  <2>. SUFFICES ASSUME NEW q \in Requests \cup {Hourly}, refresh'[q].at = "store"
                PROVE  Founded(refresh'[q].settings, Scale(refresh'[q].vals))
    BY DEF ValsKnown
  <2>1. CASE q = r
    BY <1>1, <1>3, <1>4, <2>1
  <2>2. CASE q # r
    BY <1>1, <1>3, <2>2 DEF WeatherInv, ValsKnown
  <2>. QED BY <2>1, <2>2
<1>. QED BY <1>1, <1>5, <1>6 DEF WeatherInv, CacheKnown

\* What is stored is what was founded.
LEMMA StoreKeeps ==
  ASSUME WeatherInv, NEW r \in Requests \cup {Hourly}, Store(r)
  PROVE  WeatherInv'
<1>. DEFINE s == refresh[r].settings
<1>1. /\ refresh \in [Requests \cup {Hourly} -> Refreshes] /\ refresh[r].at = "store"
      /\ cache' = [provider |-> s.provider, scale |-> Scale(refresh[r].vals), settings |-> s]
      /\ refresh' = [refresh EXCEPT ![r] = Resting] /\ UNCHANGED asks
  BY DEF WeatherInv, WeatherTypeOK, Store
<1>2. refresh[r].vals \in ValSet /\ s \in WeatherSet /\ s.provider \in Providers
  BY <1>1 DEF Refreshes, Resting, WeatherSet
<1>3. Founded(s, Scale(refresh[r].vals))
  BY <1>1 DEF WeatherInv, ValsKnown
<1>4. Scale(refresh[r].vals) \in 0 .. 200
  BY <1>2, ScaleIsAdvice
<1>. HIDE DEF s
<1>5. WeatherTypeOK'
  BY <1>1, <1>2, <1>4 DEF WeatherInv, WeatherTypeOK, Refreshes
<1>6. ValsKnown'
  BY <1>1 DEF WeatherInv, ValsKnown, Resting
<1>7. CacheKnown'
  BY <1>1, <1>3 DEF CacheKnown
<1>. QED BY <1>5, <1>6, <1>7 DEF WeatherInv

\* Every step of the cache keeps what is known of it.
LEMMA WeatherKeeps ==
  ASSUME WeatherInv, WeatherNext, cfg.weather \in WeatherSet
  PROVE  WeatherInv'
<1>1. asks \in 0 .. MaxRefreshes
  BY DEF WeatherInv, WeatherTypeOK
<1>2. CASE AskHourly
  BY <1>1, <1>2, AskKeeps DEF AskHourly
<1>3. CASE \E r \in Requests : AskNow(r)
  <2>1. PICK r \in Requests : AskNow(r)
    BY <1>3
  <2>2. asks' \in 0 .. MaxRefreshes
    BY <1>1, <2>1, WeatherParameters DEF AskNow
  <2>. QED BY <2>1, <2>2, AskKeeps DEF AskNow
<1>4. CASE \E r \in Requests \cup {Hourly} : Fetch(r) \/ Store(r)
  BY <1>4, FetchKeeps, StoreKeeps
<1>. QED BY <1>2, <1>3, <1>4 DEF WeatherNext

\* The process ends: so do its refreshes, and the cache is lost.
LEMMA WeatherEnds ==
  ASSUME WeatherInv, cache' = EmptyCache, refresh' = [r \in DOMAIN refresh |-> Resting],
         UNCHANGED asks
  PROVE  WeatherInv'
<1>1. refresh' = [r \in Requests \cup {Hourly} |-> Resting]
  BY DEF WeatherInv, WeatherTypeOK
<1>2. WeatherTypeOK'
  BY <1>1, EmptyFacts DEF WeatherInv, WeatherTypeOK, Refreshes, Resting
<1>3. ValsKnown'
  BY <1>1 DEF ValsKnown, Resting
<1>4. CacheKnown'
  BY EmptyFacts DEF CacheKnown
<1>. QED BY <1>2, <1>3, <1>4 DEF WeatherInv

\* A step that leaves the cache alone.
LEMMA WeatherStays ==
  ASSUME WeatherInv, UNCHANGED weatherVars
  PROVE  WeatherInv'
  BY DEF WeatherInv, weatherVars, WeatherTypeOK, ValsKnown, CacheKnown

-----------------------------------------------------------------------------
(* The types of the bridge, part by part.                                   *)

ControlTypes ==
  /\ cfg \in Configs /\ cfgRev \in Nat /\ engRev \in Nat /\ zone \in Zones \cup {0}
  /\ phase \in {"up", "stopping", "down"} /\ last \in Int \X Int

SessionTypes ==
  /\ client \in Connection \cup {None} /\ link \in BOOLEAN /\ (link => client # None)
  /\ avail \in [Prefixes -> {"online", "offline", None}] /\ strayed \subseteq Prefixes

ContentTypes ==
  /\ topics \in [Prefixes -> TopicSet] /\ entities \in [Zones -> Prefixes \cup {None}]
  /\ behind \subseteq {"topics", "entities"}

\* They make up TypeOK.
LEMMA TypeParts ==
  TypeOK <=> /\ WeatherTypeOK /\ pass \in Passes
             /\ ControlTypes /\ SessionTypes /\ ContentTypes
  BY DEF TypeOK, ControlTypes, SessionTypes, ContentTypes

\* The same of the state after a step.
LEMMA TypePartsNext ==
  TypeOK' <=> /\ WeatherTypeOK' /\ (pass \in Passes)'
              /\ ControlTypes' /\ SessionTypes' /\ ContentTypes'
  BY DEF TypeOK, ControlTypes, SessionTypes, ContentTypes

\* What a configuration consists of.
LEMMA ConfigFacts ==
  ASSUME NEW c \in Configs
  PROVE  /\ c.on \in BOOLEAN /\ c.conn \in Connection /\ c.conn.prefix \in Prefixes
         /\ c.conn.discovery \in BOOLEAN /\ c.enabled \subseteq Zones
         /\ c.weather \in WeatherSet /\ c.conn # None /\ c.run \in BOOLEAN /\ c.rain \in BOOLEAN
<1>1. c \in ConfigSet
  BY BridgeParameters
<1>2. c.conn \in Connection
  BY <1>1 DEF ConfigSet
<1>3. c.conn # None
  BY <1>2, BridgeParameters
<1>. QED BY <1>1, <1>2, <1>3 DEF ConfigSet, Connection

\* The locals of the loop at its places.
LEMMA PassFacts ==
  ASSUME pass \in Passes
  PROVE  /\ At \in {"asleep", "drop", "dial", "revs", "cfgRev", "state", "send", "ended"}
         /\ At \in {"drop", "dial", "revs", "cfgRev", "state", "send"} => pass.snap \in Configs
         /\ At = "cfgRev" => pass.seen \in Nat
         /\ At \in {"state", "send"} => pass.old \in BOOLEAN /\ pass.discover \in BOOLEAN
         /\ At = "send" => pass.msgs \in TopicSet
  BY DEF Passes, At, Sleeping

\* Going on with the locals there are.
LEMMA GotoTypes ==
  ASSUME pass \in Passes, At \in {"drop", "dial", "revs"},
         NEW place \in {"drop", "dial", "revs"}, Goto(place)
  PROVE  /\ pass' \in Passes /\ pass'.at = place /\ pass'.snap = pass.snap
<1>1. pass \in [at : {"drop", "dial", "revs"}, snap : Configs]
  BY DEF Passes, At, Sleeping
<1>2. pass' \in [at : {"drop", "dial", "revs"}, snap : Configs]
  BY <1>1 DEF Goto
<1>3. pass'.at = place /\ pass'.snap = pass.snap
  BY <1>1 DEF Goto
<1>. QED BY <1>2, <1>3 DEF Passes

\* Sleeping and the end are places.
LEMMA SleepTypes == Sleeping \in Passes /\ [at |-> "ended"] \in Passes
  BY DEF Passes

\* A session keeps its types when it begins,
LEMMA ConnectTypes ==
  ASSUME SessionTypes, NEW c \in Connection, Connect(c)
  PROVE  SessionTypes'
<1>1. c.prefix \in Prefixes /\ c # None
  BY BridgeParameters DEF Connection
<1>. QED BY <1>1 DEF SessionTypes, Connect

\* when it is ended,
LEMMA DisconnectTypes ==
  ASSUME SessionTypes, ControlTypes, Disconnect
  PROVE  SessionTypes'
<1>1. cfg.conn.prefix \in Prefixes
  BY ConfigFacts DEF ControlTypes
<1>2. CASE link /\ avail' = [avail EXCEPT ![cfg.conn.prefix] = "offline"]
                /\ strayed' = (strayed \cup {client.prefix}) \ {cfg.conn.prefix}
  <2>1. client.prefix \in Prefixes
    BY <1>2 DEF SessionTypes, Connection
  <2>. QED BY <1>1, <1>2, <2>1 DEF SessionTypes, Disconnect
<1>3. CASE ~link /\ UNCHANGED <<avail, strayed>>
  BY <1>3 DEF SessionTypes, Disconnect
<1>. QED BY <1>2, <1>3 DEF Disconnect

\* and when it is lost.
LEMMA WillTypes ==
  ASSUME SessionTypes, link, LastWill
  PROVE  avail' \in [Prefixes -> {"online", "offline", None}]
<1>1. client.prefix \in Prefixes
  BY DEF SessionTypes, Connection
<1>. QED BY <1>1 DEF SessionTypes, LastWill

\* What is rendered are topics.
LEMMA RenderedTypes ==
  ASSUME NEW c \in Configs, WeatherTypeOK
  PROVE  Rendered(c) \in TopicSet
<1>1. cache.scale \in 0 .. 200
  BY DEF WeatherTypeOK
<1>2. \A b \in BOOLEAN : OnOff(b) \in Switch
  BY DEF OnOff, Switch
<1>3. [z \in Zones |-> IF z \in c.enabled THEN OnOff(z = zone) ELSE None] \in [Zones -> Switch]
  BY <1>2 DEF Switch
<1>4. OnOff(c.run) \in Switch /\ OnOff(c.rain) \in Switch
  BY <1>2, ConfigFacts
<1>. QED BY <1>1, <1>3, <1>4 DEF Rendered, TopicSet

\* What is retained of old and new messages are topics.
LEMMA OverwrittenTypes ==
  ASSUME NEW old \in TopicSet, NEW new \in TopicSet
  PROVE  /\ Overwritten(old, new) \in TopicSet
         /\ \A z \in Zones : Overwritten(old, new).zones[z] =
              IF new.zones[z] = None THEN old.zones[z] ELSE new.zones[z]
         /\ Overwritten(old, new).run = new.run /\ Overwritten(old, new).rain = new.rain
<1>. DEFINE zs == [z \in Zones |-> IF new.zones[z] = None THEN old.zones[z] ELSE new.zones[z]]
<1>1. new.zones \in [Zones -> Switch] /\ old.zones \in [Zones -> Switch]
  BY DEF TopicSet
<1>2. zs \in [Zones -> Switch]
  BY <1>1
<1>3. Overwritten(old, new) = [new EXCEPT !.zones = zs]
  BY DEF Overwritten
<1>4. \A z \in Zones :
        zs[z] = IF new.zones[z] = None THEN old.zones[z] ELSE new.zones[z]
  OBVIOUS
<1>. HIDE DEF zs
<1>5. Overwritten(old, new) \in TopicSet
  BY <1>2, <1>3 DEF TopicSet
<1>6. /\ Overwritten(old, new).zones = zs
      /\ Overwritten(old, new).run = new.run /\ Overwritten(old, new).rain = new.rain
  BY <1>3 DEF TopicSet
<1>. QED BY <1>4, <1>5, <1>6

\* The first state has its types.
LEMMA BridgeStart ==
  ASSUME Init
  PROVE  TypeOK /\ WeatherInv
<1>1. WeatherInv
  BY WeatherStart DEF Init
<1>2. ControlTypes
  BY BridgeParameters DEF Init, ControlTypes
<1>3. SessionTypes
  BY DEF Init, SessionTypes
<1>4. ContentTypes
  <2>1. None \in Switch /\ None \in 0 .. 200 \cup {None}
    BY DEF Switch
  <2>. QED BY <2>1 DEF Init, ContentTypes, TopicSet
<1>5. pass \in Passes
  BY SleepTypes DEF Init
<1>. QED BY <1>1, <1>2, <1>3, <1>4, <1>5, TypeParts DEF WeatherInv

-----------------------------------------------------------------------------
(* A step of the bridge keeps the types.                                    *)

\* Parts that a step leaves alone.
LEMMA TypesStay ==
  /\ ControlTypes /\ UNCHANGED <<control, phase, last>> => ControlTypes'
  /\ SessionTypes /\ UNCHANGED session => SessionTypes'
  /\ ContentTypes /\ UNCHANGED content => ContentTypes'
  /\ pass \in Passes /\ UNCHANGED pass => pass' \in Passes
  BY DEF ControlTypes, SessionTypes, ContentTypes, control, session, content

\* The loop wakes with a snapshot of the configuration.
LEMMA WakeTypes ==
  ASSUME TypeOK, Wake
  PROVE  /\ ControlTypes' /\ pass' \in Passes /\ SessionTypes' /\ ContentTypes'
<1>1. pass' \in [at : {"drop", "dial", "revs"}, snap : Configs]
  BY TypeParts DEF Wake, ControlTypes
<1>. QED BY <1>1, TypeParts, TypesStay DEF Wake, Passes

\* Closing the old connection, because of a changed setting.
LEMMA DropTypes ==
  ASSUME TypeOK, Drop
  PROVE  /\ ControlTypes' /\ pass' \in Passes /\ SessionTypes' /\ ContentTypes'
<1>1. At = "drop" /\ Disconnect /\ UNCHANGED <<control, phase, last, content>>
  BY DEF Drop
<1>2. pass' \in Passes
  BY <1>1, TypeParts, GotoTypes, SleepTypes DEF Drop, Sleep
<1>. QED BY <1>1, <1>2, TypeParts, TypesStay, DisconnectTypes

\* Connecting, after which a pass publishes everything, or not getting through.
LEMMA DialTypes ==
  ASSUME TypeOK, Dial
  PROVE  /\ ControlTypes' /\ pass' \in Passes /\ SessionTypes' /\ ContentTypes'
<1>1. /\ At = "dial" /\ pass.snap.conn \in Connection
      /\ UNCHANGED <<control, phase, content, changes, moves, weatherVars>>
  BY TypeParts, PassFacts, ConfigFacts DEF Dial
<1>2. CASE Connect(pass.snap.conn) /\ last' = <<-1, -1>> /\ Goto("revs")
  <2>1. ControlTypes'
    BY <1>1, <1>2, TypeParts DEF ControlTypes, control
  <2>2. SessionTypes' /\ pass' \in Passes
    BY <1>1, <1>2, TypeParts, GotoTypes, ConnectTypes
  <2>. QED BY <1>1, <2>1, <2>2, TypeParts, TypesStay
<1>3. CASE Sleep /\ UNCHANGED <<session, last>>
  BY <1>1, <1>3, TypeParts, TypesStay, SleepTypes DEF Sleep
<1>. QED BY <1>2, <1>3 DEF Dial

\* The first look of a pass, at the counter of the engine,
LEMMA ReadEngineRevTypes ==
  ASSUME TypeOK, ReadEngineRev
  PROVE  /\ ControlTypes' /\ pass' \in Passes /\ SessionTypes' /\ ContentTypes'
<1>1. pass.snap \in Configs /\ engRev \in Nat
  BY TypeParts, PassFacts DEF ReadEngineRev, ControlTypes
<1>2. pass' \in [at : {"cfgRev"}, snap : Configs, seen : Nat]
  BY <1>1 DEF ReadEngineRev
<1>. QED BY <1>2, TypeParts, TypesStay DEF ReadEngineRev, Passes

\* the second, at the counter of the configuration,
LEMMA ReadConfigRevTypes ==
  ASSUME TypeOK, ReadConfigRev
  PROVE  /\ ControlTypes' /\ pass' \in Passes /\ SessionTypes' /\ ContentTypes'
<1>1. /\ pass.snap \in Configs /\ pass.seen \in Nat /\ cfgRev \in Nat
      /\ last' = <<pass.seen, cfgRev>> /\ UNCHANGED <<control, phase, session, content>>
      /\ pass.snap.conn.discovery \in BOOLEAN
  BY TypeParts, PassFacts, ConfigFacts DEF ReadConfigRev, ControlTypes
<1>2. ControlTypes'
  BY <1>1, TypeParts DEF ControlTypes, control
<1>3. pass' \in Passes
  <2>1. CASE Sleep
    BY <2>1, SleepTypes DEF Sleep
  <2>2. CASE ~Sleep
    <3>1. PICK o \in BOOLEAN, d \in BOOLEAN :
            pass' = [at |-> "state", snap |-> pass.snap, old |-> o, discover |-> d]
      <4>. DEFINE o == pass.snap # cfg
                  d == cfgRev # last[2] /\ pass.snap.conn.discovery
      <4>1. o \in BOOLEAN /\ d \in BOOLEAN
        OBVIOUS
      <4>2. pass' = [at |-> "state", snap |-> pass.snap, old |-> o, discover |-> d]
        BY <2>2 DEF ReadConfigRev
      <4>. HIDE DEF o, d
      <4>. QED BY <4>1, <4>2
    <3>2. pass' \in [at : {"state"}, snap : Configs, old : BOOLEAN, discover : BOOLEAN]
      BY <1>1, <3>1
    <3>. QED BY <3>2 DEF Passes
  <2>. QED BY <2>1, <2>2
<1>. QED BY <1>1, <1>2, <1>3, TypeParts, TypesStay

\* What is behind are parts of a publication.
LEMMA ArriveTypes ==
  ASSUME ContentTypes, NEW parts, Arrive(parts)
  PROVE  behind' \subseteq {"topics", "entities"}
  BY DEF ContentTypes, Arrive, Parts

\* and what is rendered from them for the messages.
LEMMA ReadStateTypes ==
  ASSUME TypeOK, ReadState
  PROVE  /\ ControlTypes' /\ pass' \in Passes /\ SessionTypes' /\ ContentTypes'
<1>1. /\ At = "state" /\ UNCHANGED <<control, phase, last, session, topics, entities>>
      /\ pass.snap \in Configs /\ pass.old \in BOOLEAN /\ pass.discover \in BOOLEAN
  BY TypeParts, PassFacts DEF ReadState
<1>2. CASE /\ pass' = [at |-> "send", snap |-> pass.snap, old |-> pass.old,
                       discover |-> pass.discover, msgs |-> Rendered(pass.snap)]
           /\ UNCHANGED behind
  <2>1. Rendered(pass.snap) \in TopicSet
    BY <1>1, TypeParts, RenderedTypes
  <2>2. pass' \in [at : {"send"}, snap : Configs, old : BOOLEAN, discover : BOOLEAN,
                   msgs : TopicSet]
    BY <1>1, <1>2, <2>1
  <2>3. pass' \in Passes
    BY <2>2 DEF Passes
  <2>. QED BY <1>1, <1>2, <2>3, TypeParts, TypesStay DEF content
<1>3. CASE ~link /\ Arrive({}) /\ Sleep
  <2>1. ContentTypes'
    BY <1>1, <1>3, TypeParts, ArriveTypes DEF ContentTypes
  <2>. QED BY <1>1, <1>3, <2>1, TypeParts, TypesStay, SleepTypes DEF Sleep
<1>. QED BY <1>2, <1>3 DEF ReadState

\* The messages of the pass go out, all of them or as far as the link lets them.
LEMMA SendTypes ==
  ASSUME TypeOK, Send
  PROVE  /\ ControlTypes' /\ pass' \in Passes /\ SessionTypes' /\ ContentTypes'
<1>1. /\ At = "send" /\ Sleep /\ UNCHANGED <<control, phase, last, session>>
      /\ pass.snap \in Configs /\ pass.msgs \in TopicSet
      /\ pass.snap.conn.prefix \in Prefixes
  BY TypeParts, PassFacts, ConfigFacts DEF Send
<1>2. PICK parts \in {{}, {"entities"}, {"entities", "topics"}} :
        /\ topics' = IF "topics" \in parts
                     THEN [topics EXCEPT ![pass.snap.conn.prefix] =
                             Overwritten(topics[pass.snap.conn.prefix], pass.msgs)]
                     ELSE topics
        /\ entities' = IF pass.discover /\ "entities" \in parts
                       THEN [z \in Zones |-> IF z \in pass.snap.enabled
                                             THEN pass.snap.conn.prefix ELSE None]
                       ELSE entities
        /\ Arrive(parts)
  BY DEF Send
<1>3. topics' \in [Prefixes -> TopicSet]
  <2>1. topics \in [Prefixes -> TopicSet]
    BY TypeParts DEF ContentTypes
  <2>2. Overwritten(topics[pass.snap.conn.prefix], pass.msgs) \in TopicSet
    BY <1>1, <2>1, OverwrittenTypes
  <2>. QED BY <1>1, <1>2, <2>1, <2>2
<1>4. entities' \in [Zones -> Prefixes \cup {None}]
  <2>1. entities \in [Zones -> Prefixes \cup {None}]
    BY TypeParts DEF ContentTypes
  <2>. QED BY <1>1, <1>2, <2>1
<1>5. behind' \subseteq {"topics", "entities"}
  BY <1>2, TypeParts, ArriveTypes
<1>6. ContentTypes'
  BY <1>3, <1>4, <1>5 DEF ContentTypes
<1>. QED BY <1>1, <1>6, TypeParts, TypesStay, SleepTypes DEF Sleep

\* The end of the bridge.
LEMMA LeaveTypes ==
  ASSUME TypeOK, Leave
  PROVE  /\ ControlTypes' /\ pass' \in Passes /\ SessionTypes' /\ ContentTypes'
<1>1. SessionTypes'
  BY TypeParts, TypesStay, DisconnectTypes DEF Leave
<1>. QED BY <1>1, TypeParts, TypesStay, SleepTypes DEF Leave

\* The loop as a whole.
LEMMA LoopTypes ==
  ASSUME TypeOK, Pass
  PROVE  /\ ControlTypes' /\ pass' \in Passes /\ SessionTypes' /\ ContentTypes'
         /\ UNCHANGED weatherVars
<1>1. UNCHANGED weatherVars
  BY DEF Pass, Wake, Drop, Dial, ReadEngineRev, ReadConfigRev, ReadState, Send, Leave
<1>. QED BY <1>1, WakeTypes, DropTypes, DialTypes, ReadEngineRevTypes, ReadConfigRevTypes,
            ReadStateTypes, SendTypes, LeaveTypes DEF Pass

\* The link, and the rest of the daemon while it runs.
LEMMA OthersTypes ==
  ASSUME TypeOK,
         LinkFails \/ Relink \/ SaveConfig \/ EngineMoves \/ Refreshing \/ Signal \/ Restart
  PROVE  /\ ControlTypes' /\ pass' \in Passes /\ SessionTypes' /\ ContentTypes'
         /\ (UNCHANGED weatherVars \/ Refreshing)
<1>1. CASE LinkFails
  <2>1. SessionTypes'
    BY <1>1, TypeParts, WillTypes DEF LinkFails, SessionTypes
  <2>. QED BY <1>1, <2>1, TypeParts, TypesStay DEF LinkFails
<1>2. CASE Relink
  <2>1. client \in Connection
    BY <1>2, TypeParts DEF Relink, SessionTypes
  <2>2. SessionTypes'
    BY <1>2, <2>1, TypeParts, ConnectTypes DEF Relink
  <2>. QED BY <1>2, <2>2, TypeParts, TypesStay DEF Relink
<1>3. CASE SaveConfig
  <2>1. cfg' \in Configs /\ cfgRev' \in Nat
    BY <1>3, TypeParts DEF SaveConfig, Configs, ControlTypes
  <2>. QED BY <1>3, <2>1, TypeParts, TypesStay DEF SaveConfig, ControlTypes
<1>4. CASE EngineMoves
  <2>1. zone' \in Zones \cup {0} /\ engRev' \in Nat
    BY <1>4, TypeParts DEF EngineMoves, ControlTypes
  <2>. QED BY <1>4, <2>1, TypeParts, TypesStay DEF EngineMoves, ControlTypes
<1>5. CASE Refreshing
  BY <1>5, TypeParts, TypesStay DEF Refreshing, Aside
<1>6. CASE Signal
  BY <1>6, TypeParts, TypesStay DEF Signal, ControlTypes, control
<1>7. CASE Restart
  BY <1>7, TypeParts, TypesStay DEF Restart, ControlTypes, control
<1>. QED BY <1>1, <1>2, <1>3, <1>4, <1>5, <1>6, <1>7

\* The end of the process.
LEMMA ExitTypes ==
  ASSUME TypeOK, Exit
  PROVE  /\ ControlTypes' /\ pass' \in Passes /\ SessionTypes' /\ ContentTypes'
<1>1. avail' \in [Prefixes -> {"online", "offline", None}]
  BY TypeParts, WillTypes DEF Exit, SessionTypes
<1>2. SessionTypes'
  BY <1>1, TypeParts DEF Exit, SessionTypes
<1>3. ControlTypes'
  BY TypeParts DEF Exit, ControlTypes
<1>. QED BY <1>2, <1>3, TypeParts, TypesStay, SleepTypes DEF Exit, Sleep

\* Every step keeps the types and what is known of the weather.
LEMMA StepTypes ==
  ASSUME TypeOK, WeatherInv, [Next]_vars
  PROVE  TypeOK' /\ WeatherInv'
<1>0. cfg.weather \in WeatherSet
  BY TypeParts, ConfigFacts DEF ControlTypes
<1>1. CASE Pass
  BY <1>1, LoopTypes, WeatherStays, TypePartsNext DEF WeatherInv
<1>2. CASE Exit
  <2>1. WeatherInv'
    BY <1>2, WeatherEnds DEF Exit
  <2>. QED BY <1>2, <2>1, ExitTypes, TypePartsNext DEF WeatherInv
<1>3. CASE LinkFails \/ Relink \/ SaveConfig \/ EngineMoves \/ Refreshing \/ Signal \/ Restart
  <2>1. WeatherInv'
    BY <1>0, <1>3, OthersTypes, WeatherStays, WeatherKeeps DEF Refreshing, Aside
  <2>. QED BY <1>3, <2>1, OthersTypes, TypePartsNext DEF WeatherInv
<1>4. CASE UNCHANGED vars
  <2>1. WeatherInv'
    BY <1>4, WeatherStays DEF vars
  <2>. QED BY <1>4, <2>1, TypeParts, TypesStay, TypePartsNext DEF vars, WeatherInv
<1>. QED BY <1>1, <1>2, <1>3, <1>4 DEF Next

\* Every variable keeps its type, and a link has a client.
THEOREM TypeCorrect == Spec => []TypeOK
<1>1. Init => TypeOK /\ WeatherInv
  BY BridgeStart
<1>2. (TypeOK /\ WeatherInv) /\ [Next]_vars => (TypeOK /\ WeatherInv)'
  BY StepTypes
<1>. QED BY <1>1, <1>2, PTL DEF Spec

\* However refreshes overlap and whatever the providers' servers leave out of their
\* answers, the scale is neutral or follows from an answer with the figures that the
\* provider the cache names has to give, hours without a temperature counting as 0
\* degrees and an untold rain of today as none (cache.go:66-79, openmeteo.go:105-166,
\* openweather.go:81-138, weather.go:33-41).
THEOREM WeatherNeutral == Spec => []NeutralUnlessKnown
<1>1. Init => TypeOK /\ WeatherInv
  BY BridgeStart
<1>2. (TypeOK /\ WeatherInv) /\ [Next]_vars => (TypeOK /\ WeatherInv)'
  BY StepTypes
<1>3. TypeOK /\ WeatherInv => NeutralUnlessKnown
  BY DEF WeatherInv, CacheKnown, Founded, NeutralUnlessKnown
<1>. QED BY <1>1, <1>2, <1>3, PTL DEF Spec

-----------------------------------------------------------------------------
(* Who is shown as online.  A prefix says so from the greeting of a client on *)
(* until the orderly end or the will of that same client takes it back: for  *)
(* this, the loop must not connect a client while there is another.          *)

NoOtherClient == At = "dial" => client = None

HonestInv == TypeOK /\ WeatherInv /\ NoOtherClient /\ OnlineIsHonest

\* A client that greets.
LEMMA ConnectHonest ==
  ASSUME TypeOK, OnlineIsHonest, ~link, NEW c \in Connection, Connect(c)
  PROVE  OnlineIsHonest'
<1>1. avail \in [Prefixes -> {"online", "offline", None}]
  BY TypeParts DEF SessionTypes
<1>2. /\ client' = c /\ link' = TRUE /\ strayed' = strayed \ {c.prefix}
      /\ avail' = [avail EXCEPT ![c.prefix] = "online"]
  BY DEF Connect
<1>3. ASSUME NEW p \in Prefixes, avail'[p] = "online"
      PROVE  (link' /\ client'.prefix = p) \/ p \in strayed'
  <2>1. CASE p = c.prefix
    BY <1>2, <2>1
  <2>2. CASE p # c.prefix
    <3>1. avail[p] = "online"
      BY <1>1, <1>2, <1>3, <2>2
    <3>2. p \in strayed
      BY <3>1 DEF OnlineIsHonest
    <3>. QED BY <1>2, <2>2, <3>2
  <2>. QED BY <2>1, <2>2
<1>. QED BY <1>3 DEF OnlineIsHonest

\* A client that says "offline" under the prefix that is stored.
LEMMA DisconnectHonest ==
  ASSUME TypeOK, OnlineIsHonest, Disconnect
  PROVE  OnlineIsHonest'
<1>1. avail \in [Prefixes -> {"online", "offline", None}]
  BY TypeParts DEF SessionTypes
<1>2. ASSUME NEW p \in Prefixes, avail'[p] = "online"
      PROVE  (link' /\ client'.prefix = p) \/ p \in strayed'
  <2>1. CASE link /\ avail' = [avail EXCEPT ![cfg.conn.prefix] = "offline"]
                  /\ strayed' = (strayed \cup {client.prefix}) \ {cfg.conn.prefix}
    <3>1. p # cfg.conn.prefix /\ avail[p] = "online"
      BY <1>1, <1>2, <2>1
    <3>2. client.prefix = p \/ p \in strayed
      BY <3>1 DEF OnlineIsHonest
    <3>. QED BY <2>1, <3>1, <3>2
  <2>2. CASE ~link /\ UNCHANGED <<avail, strayed>>
    BY <1>2, <2>2 DEF OnlineIsHonest
  <2>. QED BY <2>1, <2>2 DEF Disconnect
<1>. QED BY <1>2 DEF OnlineIsHonest

\* A client the broker loses: its will says "offline" for it.
LEMMA WillHonest ==
  ASSUME TypeOK, OnlineIsHonest, LastWill, link' = FALSE, UNCHANGED strayed
  PROVE  OnlineIsHonest'
<1>1. avail \in [Prefixes -> {"online", "offline", None}]
  BY TypeParts DEF SessionTypes
<1>2. ASSUME NEW p \in Prefixes, avail'[p] = "online"
      PROVE  p \in strayed'
  <2>1. p # client.prefix /\ avail[p] = "online"
    BY <1>1, <1>2 DEF LastWill
  <2>. QED BY <2>1 DEF OnlineIsHonest
<1>. QED BY <1>2 DEF OnlineIsHonest

\* The broker and the client as they were.
LEMMA HonestStays ==
  ASSUME OnlineIsHonest, UNCHANGED session
  PROVE  OnlineIsHonest'
  BY DEF OnlineIsHonest, session

\* Every step keeps it.
LEMMA StepHonest ==
  ASSUME HonestInv, [Next]_vars
  PROVE  HonestInv'
<1>0. /\ TypeOK' /\ WeatherInv' /\ TypeOK /\ OnlineIsHonest /\ NoOtherClient
      /\ (link => client # None)
  BY StepTypes DEF HonestInv, TypeOK
<1>1. CASE Wake
  BY <1>0, <1>1, HonestStays DEF Wake, HonestInv, NoOtherClient, At
<1>2. CASE Drop
  <2>1. client' = None
    BY <1>2 DEF Drop, Disconnect
  <2>. QED BY <1>0, <1>2, <2>1, DisconnectHonest DEF Drop, HonestInv, NoOtherClient
<1>3. CASE Dial
  <2>1. At = "dial" /\ ~link /\ pass.snap.conn \in Connection
    BY <1>0, <1>3, TypeParts, PassFacts, ConfigFacts DEF Dial, NoOtherClient
  <2>2. OnlineIsHonest'
    BY <1>0, <1>3, <2>1, ConnectHonest, HonestStays DEF Dial
  <2>3. At' # "dial"
    BY <1>0, <1>3, <2>1, TypeParts, GotoTypes DEF Dial, At, Sleep, Sleeping
  <2>. QED BY <1>0, <2>2, <2>3 DEF HonestInv, NoOtherClient
<1>4. CASE ReadEngineRev \/ ReadConfigRev \/ ReadState \/ Send
  <2>1. UNCHANGED session
    BY <1>4 DEF ReadEngineRev, ReadConfigRev, ReadState, Send
  <2>2. At' # "dial"
    BY <1>4 DEF ReadEngineRev, ReadConfigRev, ReadState, Send, At, Sleep, Sleeping
  <2>. QED BY <1>0, <2>1, <2>2, HonestStays DEF HonestInv, NoOtherClient
<1>5. CASE Leave
  <2>1. OnlineIsHonest'
    BY <1>0, <1>5, DisconnectHonest, HonestStays DEF Leave
  <2>. QED BY <1>0, <1>5, <2>1 DEF HonestInv, NoOtherClient, Leave, At
<1>6. CASE LinkFails
  <2>1. OnlineIsHonest'
    BY <1>0, <1>6, WillHonest DEF LinkFails
  <2>. QED BY <1>0, <1>6, <2>1 DEF HonestInv, NoOtherClient, LinkFails, At
<1>7. CASE Relink
  <2>1. client \in Connection /\ ~link /\ Connect(client) /\ UNCHANGED pass
    BY <1>0, <1>7, TypeParts DEF Relink, SessionTypes
  <2>2. OnlineIsHonest'
    BY <1>0, <2>1, ConnectHonest
  <2>3. client' = client
    BY <2>1 DEF Connect
  <2>. QED BY <1>0, <2>1, <2>2, <2>3 DEF HonestInv, NoOtherClient, At
<1>8. CASE Exit
  <2>1. link' = FALSE /\ client' = None /\ UNCHANGED strayed
        /\ IF link THEN LastWill ELSE UNCHANGED avail
    BY <1>8 DEF Exit
  <2>2. OnlineIsHonest'
    <3>1. CASE link
      BY <1>0, <2>1, <3>1, WillHonest
    <3>2. CASE ~link
      BY <1>0, <2>1, <3>2 DEF OnlineIsHonest
    <3>. QED BY <3>1, <3>2
  <2>. QED BY <1>0, <2>1, <2>2 DEF HonestInv, NoOtherClient
<1>9. CASE SaveConfig \/ EngineMoves \/ Refreshing \/ Signal \/ Restart \/ UNCHANGED vars
  <2>1. UNCHANGED session /\ UNCHANGED pass
    BY <1>9 DEF SaveConfig, EngineMoves, Refreshing, Aside, Signal, Restart, vars
  <2>. QED BY <1>0, <2>1, HonestStays DEF HonestInv, NoOtherClient, At, session
<1>. QED BY <1>1, <1>2, <1>3, <1>4, <1>5, <1>6, <1>7, <1>8, <1>9 DEF Next, Pass

\* No prefix is shown as online without a client connected for it, whatever
\* settings, links and processes do, but for the old prefix of a client that said
\* "offline" under the new one (bridge.go:102-183).
THEOREM OnlineHonest == Spec => []OnlineIsHonest
<1>1. ASSUME Init PROVE HonestInv
  <2>1. None # "online"
    BY BridgeParameters
  <2>2. OnlineIsHonest
    BY <1>1, <2>1 DEF Init, OnlineIsHonest
  <2>3. NoOtherClient
    BY <1>1 DEF Init, NoOtherClient
  <2>. QED BY <1>1, <2>2, <2>3, BridgeStart DEF HonestInv
<1>2. HonestInv /\ [Next]_vars => HonestInv'
  BY StepHonest
<1>3. HonestInv => OnlineIsHonest
  BY DEF HonestInv
<1>. QED BY <1>1, <1>2, <1>3, PTL DEF Spec

-----------------------------------------------------------------------------
(* That no change goes unnoticed.  The counters of the last publication are  *)
(* never ahead of those of the engine and the store, so that a change makes  *)
(* them differ and they stay different until the loop has read them again;   *)
(* and a publication under way with the counters of now tells what is so now *)
(* unless its snapshot is old.  Discovery is published only if the store's   *)
(* counter moved, so what it told is followed separately.                    *)

Publishing == At \in {"state", "send"}

CountersBehind ==
  /\ last[1] <= engRev /\ last[2] <= cfgRev
  /\ At = "cfgRev" => pass.seen <= engRev

ClientOfSnapshot == At \in {"revs", "cfgRev", "state", "send"} => client = pass.snap.conn

SnapshotCurrent == Publishing /\ last[2] = cfgRev /\ ~pass.old => pass.snap = cfg

MessagesCurrent ==
  At = "send" /\ last = <<engRev, cfgRev>> /\ ~pass.old =>
    /\ \A z \in cfg.enabled : pass.msgs.zones[z] = OnOff(z = zone)
    /\ pass.msgs.run = OnOff(cfg.run) /\ pass.msgs.rain = OnOff(cfg.rain)

TopicsPublished ==
  Fits(cfg) /\ last = <<engRev, cfgRev>> /\ ~Publishing /\ "topics" \notin behind => TopicsTrue

EntitiesPublished ==
  Fits(cfg) /\ last[2] = cfgRev /\ cfg.conn.discovery /\ ~(Publishing /\ pass.discover)
    /\ "entities" \notin behind => EntitiesTrue

Published == SnapshotCurrent /\ MessagesCurrent /\ TopicsPublished /\ EntitiesPublished

NoticedInv == TypeOK /\ CountersBehind /\ ClientOfSnapshot /\ Published

\* The counters are numbers.
LEMMA CounterTypes ==
  ASSUME TypeOK
  PROVE  last[1] \in Int /\ last[2] \in Int /\ engRev \in Nat /\ cfgRev \in Nat
  BY DEF TypeOK

\* A step that publishes nothing and leaves what was published alone, with the
\* same client or none.
LEMMA QuietStep ==
  ASSUME Published, UNCHANGED <<cfg, cfgRev, zone, engRev, last, topics, entities, behind>>,
         ~Publishing, ~Publishing', client' \in {client, None}
  PROVE  Published'
<1>1. SnapshotCurrent' /\ MessagesCurrent'
  BY DEF SnapshotCurrent, MessagesCurrent, Publishing, At
<1>2. TopicsPublished'
  BY DEF Published, TopicsPublished, TopicsTrue, Fits
<1>3. EntitiesPublished'
  BY DEF Published, EntitiesPublished, EntitiesTrue, Fits
<1>. QED BY <1>1, <1>2, <1>3 DEF Published

\* A step that leaves the loop and the client alone as well.
LEMMA OtherStep ==
  ASSUME NoticedInv,
         UNCHANGED <<cfg, cfgRev, zone, engRev, last, topics, entities, behind, pass, client>>
  PROVE  CountersBehind' /\ ClientOfSnapshot' /\ Published'
  BY DEF NoticedInv, CountersBehind, ClientOfSnapshot, Published, SnapshotCurrent,
         MessagesCurrent, TopicsPublished, EntitiesPublished, Publishing, At, Fits,
         TopicsTrue, EntitiesTrue

\* A configuration is saved: the store's counter leaves that of the loop behind.
LEMMA SaveNoticed ==
  ASSUME NoticedInv, SaveConfig
  PROVE  CountersBehind' /\ ClientOfSnapshot' /\ Published'
<1>1. cfgRev' = cfgRev + 1 /\ UNCHANGED <<engRev, pass, last, client>>
  BY DEF SaveConfig, session
<1>2. /\ last[1] <= engRev /\ last[2] <= cfgRev /\ last[2] \in Int /\ cfgRev \in Nat
      /\ (At = "cfgRev" => pass.seen <= engRev)
  BY CounterTypes DEF NoticedInv, CountersBehind
<1>3. last'[2] < cfgRev'
  BY <1>1, <1>2
<1>4. last'[2] # cfgRev' /\ last' # <<engRev, cfgRev>>'
  BY <1>1, <1>2, <1>3
<1>5. CountersBehind'
  BY <1>1, <1>2, <1>3 DEF CountersBehind, At
<1>6. Published'
  BY <1>4 DEF Published, SnapshotCurrent, MessagesCurrent, TopicsPublished, EntitiesPublished
<1>. QED BY <1>1, <1>5, <1>6 DEF NoticedInv, ClientOfSnapshot, At

\* So does the engine's.
LEMMA MoveNoticed ==
  ASSUME NoticedInv, EngineMoves
  PROVE  CountersBehind' /\ ClientOfSnapshot' /\ Published'
<1>1. /\ engRev' = engRev + 1
      /\ UNCHANGED <<cfg, cfgRev, pass, last, client, topics, entities, behind>>
  BY DEF EngineMoves, session, content
<1>2. /\ last[1] <= engRev /\ last[2] <= cfgRev /\ last[1] \in Int /\ engRev \in Nat
      /\ (At = "cfgRev" => pass.seen <= engRev /\ pass.seen \in Nat)
  BY CounterTypes, PassFacts DEF NoticedInv, CountersBehind, TypeOK
<1>3. last' # <<engRev, cfgRev>>'
  BY <1>1, <1>2
<1>4. CountersBehind'
  BY <1>1, <1>2 DEF CountersBehind, At
<1>5. SnapshotCurrent' /\ EntitiesPublished'
  BY <1>1 DEF NoticedInv, Published, SnapshotCurrent, EntitiesPublished, EntitiesTrue,
              Publishing, At, Fits
<1>6. MessagesCurrent' /\ TopicsPublished'
  BY <1>3 DEF MessagesCurrent, TopicsPublished
<1>. QED BY <1>1, <1>4, <1>5, <1>6 DEF NoticedInv, Published, ClientOfSnapshot, At

\* A new client: all is to be published.
LEMMA DialNoticed ==
  ASSUME NoticedInv, Dial
  PROVE  CountersBehind' /\ ClientOfSnapshot' /\ Published'
<1>1. /\ At = "dial" /\ UNCHANGED <<cfg, cfgRev, zone, engRev, topics, entities, behind>>
      /\ pass \in Passes
  BY DEF Dial, control, content, NoticedInv, TypeOK
<1>2. CASE Connect(pass.snap.conn) /\ last' = <<-1, -1>> /\ Goto("revs")
  <2>1. pass'.at = "revs" /\ pass'.snap = pass.snap /\ client' = pass.snap.conn
    BY <1>1, <1>2, GotoTypes DEF Connect
  <2>2. last'[1] = -1 /\ last'[2] = -1 /\ engRev' \in Nat /\ cfgRev' \in Nat
    BY <1>1, <1>2, CounterTypes DEF NoticedInv
  <2>3. last'[2] # cfgRev' /\ last' # <<engRev, cfgRev>>'
    BY <2>2
  <2>4. CountersBehind'
    BY <2>1, <2>2 DEF CountersBehind, At
  <2>. QED BY <2>1, <2>3, <2>4 DEF ClientOfSnapshot, Published, SnapshotCurrent,
               MessagesCurrent, TopicsPublished, EntitiesPublished, At
<1>3. CASE Sleep /\ UNCHANGED <<session, last>>
  <2>1. At' = "asleep" /\ ~Publishing /\ ~Publishing' /\ client' = client /\ last' = last
    BY <1>1, <1>3 DEF Sleep, Sleeping, At, Publishing, session
  <2>2. Published'
    BY <1>1, <2>1, QuietStep DEF NoticedInv
  <2>. QED BY <1>1, <2>1, <2>2 DEF NoticedInv, CountersBehind, ClientOfSnapshot
<1>. QED BY <1>1, <1>2, <1>3 DEF Dial

\* Steps of the loop before it compares the counters, and its end.
LEMMA QuietNoticed ==
  ASSUME NoticedInv, Wake \/ Drop \/ ReadEngineRev \/ Leave
  PROVE  CountersBehind' /\ ClientOfSnapshot' /\ Published'
<1>1. /\ UNCHANGED <<cfg, cfgRev, zone, engRev, last, topics, entities, behind>>
      /\ client' \in {client, None}
  BY DEF Wake, Drop, ReadEngineRev, Leave, Disconnect, control, session, content
<1>2. ~Publishing
  BY DEF Publishing, Wake, Drop, ReadEngineRev, Leave, At
<1>3. pass \in Passes /\ CountersBehind /\ ClientOfSnapshot /\ Published
  BY DEF NoticedInv, TypeOK
<1>4. CASE Wake
  <2>1. /\ pass' = [at |-> IF ~cfg.on THEN "drop" ELSE IF Fits(cfg) THEN "revs" ELSE "drop",
                    snap |-> cfg]
        /\ client' = client
    BY <1>4 DEF Wake, session
  <2>2. /\ At' \in {"drop", "revs"} /\ pass'.snap = cfg
        /\ At' = "revs" => Fits(cfg)
    BY <2>1 DEF At
  <2>. QED BY <1>1, <1>2, <1>3, <2>1, <2>2, QuietStep
           DEF CountersBehind, ClientOfSnapshot, Publishing, Fits
<1>5. CASE Drop
  <2>1. At' \in {"dial", "asleep"}
    BY <1>3, <1>5, GotoTypes DEF Drop, Sleep, Sleeping, At
  <2>. QED BY <1>1, <1>2, <1>3, <2>1, QuietStep
           DEF CountersBehind, ClientOfSnapshot, Publishing
<1>6. CASE ReadEngineRev
  <2>1. /\ At = "revs" /\ At' = "cfgRev" /\ pass'.snap = pass.snap /\ pass'.seen = engRev
        /\ client' = client
    BY <1>6 DEF ReadEngineRev, At, session
  <2>2. engRev \in Nat
    BY CounterTypes DEF NoticedInv
  <2>. QED BY <1>1, <1>2, <1>3, <2>1, <2>2, QuietStep
           DEF CountersBehind, ClientOfSnapshot, Publishing
<1>7. CASE Leave
  <2>1. At' = "ended"
    BY <1>7 DEF Leave, At
  <2>. QED BY <1>1, <1>2, <1>3, <2>1, QuietStep
           DEF CountersBehind, ClientOfSnapshot, Publishing
<1>. QED BY <1>4, <1>5, <1>6, <1>7

\* The counters are compared: those of the engine may have moved again by then.
LEMMA CompareNoticed ==
  ASSUME NoticedInv, ReadConfigRev
  PROVE  CountersBehind' /\ ClientOfSnapshot' /\ Published'
<1>1. /\ At = "cfgRev" /\ last' = <<pass.seen, cfgRev>>
      /\ UNCHANGED <<cfg, cfgRev, zone, engRev, client, topics, entities, behind>>
  BY DEF ReadConfigRev, control, session, content
<1>2. /\ CountersBehind /\ ClientOfSnapshot /\ Published /\ pass.seen \in Nat
      /\ last[1] \in Int /\ last[2] \in Int /\ engRev \in Nat /\ cfgRev \in Nat
      /\ pass.seen <= engRev /\ client = pass.snap.conn /\ ~Publishing
  BY <1>1, CounterTypes, PassFacts
     DEF NoticedInv, TypeOK, CountersBehind, ClientOfSnapshot, Publishing
<1>3. last'[1] <= engRev' /\ last'[2] <= cfgRev' /\ last'[2] = cfgRev
  BY <1>1, <1>2
<1>4. CASE <<pass.seen, cfgRev>> = last
  <2>1. At' = "asleep" /\ last' = last
    BY <1>1, <1>4 DEF ReadConfigRev, Sleep, Sleeping, At
  <2>. QED BY <1>1, <1>2, <1>3, <2>1, QuietStep
           DEF CountersBehind, ClientOfSnapshot, Publishing
<1>5. CASE <<pass.seen, cfgRev>> # last
  <2>1. pass' = [at |-> "state", snap |-> pass.snap, old |-> pass.snap # cfg,
                 discover |-> cfgRev # last[2] /\ pass.snap.conn.discovery]
    BY <1>5 DEF ReadConfigRev
  <2>2. /\ At' = "state" /\ pass'.snap = pass.snap /\ pass'.old = (pass.snap # cfg)
        /\ pass'.discover = (cfgRev # last[2] /\ pass.snap.conn.discovery)
    BY <2>1, Zenon DEF At
  <2>3. CountersBehind' /\ ClientOfSnapshot'
    BY <1>1, <1>2, <1>3, <2>2 DEF CountersBehind, ClientOfSnapshot
  <2>4. SnapshotCurrent' /\ MessagesCurrent' /\ TopicsPublished'
    BY <1>1, <2>2 DEF SnapshotCurrent, MessagesCurrent, TopicsPublished, Publishing
  <2>5. ASSUME Fits(cfg)', cfg'.conn.discovery, ~pass'.discover, "entities" \notin behind'
        PROVE  EntitiesTrue'
    <3>1. Fits(cfg) /\ cfg.conn.discovery /\ "entities" \notin behind
      BY <1>1, <2>5 DEF Fits
    <3>2. pass.snap.conn = cfg.conn
      BY <1>2, <3>1 DEF Fits
    <3>3. last[2] = cfgRev
      BY <2>2, <2>5, <3>1, <3>2
    <3>4. EntitiesTrue
      BY <1>2, <3>1, <3>3 DEF Published, EntitiesPublished
    <3>. QED BY <1>1, <3>4 DEF EntitiesTrue
  <2>6. EntitiesPublished'
    BY <2>2, <2>5 DEF EntitiesPublished, Publishing
  <2>. QED BY <2>3, <2>4, <2>6 DEF Published
<1>. QED BY <1>4, <1>5

\* The messages are made, of the engine's state as it is by then.
LEMMA RenderNoticed ==
  ASSUME NoticedInv, ReadState
  PROVE  CountersBehind' /\ ClientOfSnapshot' /\ Published'
<1>1. /\ At = "state"
      /\ UNCHANGED <<cfg, cfgRev, zone, engRev, last, client, topics, entities>>
  BY DEF ReadState, control, session
<1>2. /\ CountersBehind /\ ClientOfSnapshot /\ Published /\ cfg \in Configs
      /\ client = pass.snap.conn /\ Publishing
  BY <1>1 DEF NoticedInv, TypeOK, ClientOfSnapshot, Publishing
<1>3. CASE /\ pass' = [at |-> "send", snap |-> pass.snap, old |-> pass.old,
                       discover |-> pass.discover, msgs |-> Rendered(pass.snap)]
           /\ UNCHANGED behind
  <2>1. /\ At' = "send" /\ pass'.snap = pass.snap /\ pass'.old = pass.old
        /\ pass'.discover = pass.discover /\ pass'.msgs = Rendered(pass.snap)
    BY <1>3 DEF At
  <2>2. CountersBehind' /\ ClientOfSnapshot'
    BY <1>1, <1>2, <2>1 DEF CountersBehind, ClientOfSnapshot
  <2>3. SnapshotCurrent' /\ TopicsPublished' /\ EntitiesPublished'
    BY <1>1, <1>2, <1>3, <2>1
       DEF Published, SnapshotCurrent, TopicsPublished, EntitiesPublished, Publishing, Fits,
           EntitiesTrue
  <2>4. ASSUME last' = <<engRev, cfgRev>>', ~pass'.old
        PROVE  /\ \A z \in cfg'.enabled : pass'.msgs.zones[z] = OnOff(z = zone')
               /\ pass'.msgs.run = OnOff(cfg'.run) /\ pass'.msgs.rain = OnOff(cfg'.rain)
    <3>1. last[2] = cfgRev /\ pass.snap = cfg
      BY <1>1, <1>2, <2>1, <2>4 DEF Published, SnapshotCurrent
    <3>2. cfg.enabled \subseteq Zones
      BY <1>2, ConfigFacts
    <3>. QED BY <1>1, <2>1, <3>1, <3>2 DEF Rendered
  <2>5. MessagesCurrent'
    BY <2>4 DEF MessagesCurrent
  <2>. QED BY <2>2, <2>3, <2>5 DEF Published
<1>4. CASE ~link /\ Arrive({}) /\ Sleep
  <2>1. /\ At' = "asleep" /\ "topics" \in behind'
        /\ pass.discover => "entities" \in behind'
        /\ ~pass.discover /\ "entities" \notin behind' => "entities" \notin behind
    BY <1>4 DEF Sleep, Sleeping, At, Arrive, Parts
  <2>2. CountersBehind' /\ ClientOfSnapshot'
    BY <1>1, <1>2, <2>1 DEF CountersBehind, ClientOfSnapshot
  <2>3. SnapshotCurrent' /\ MessagesCurrent' /\ TopicsPublished'
    BY <2>1 DEF SnapshotCurrent, MessagesCurrent, TopicsPublished, Publishing
  <2>4. EntitiesPublished'
    BY <1>1, <1>2, <2>1
       DEF Published, EntitiesPublished, Publishing, Fits, EntitiesTrue
  <2>. QED BY <2>2, <2>3, <2>4 DEF Published
<1>. QED BY <1>3, <1>4 DEF ReadState

\* The messages are sent, and arrive or are lost.
LEMMA SendNoticed ==
  ASSUME NoticedInv, Send
  PROVE  CountersBehind' /\ ClientOfSnapshot' /\ Published'
<1>1. /\ At = "send" /\ At' = "asleep"
      /\ UNCHANGED <<cfg, cfgRev, zone, engRev, last, client>>
  BY DEF Send, Sleep, Sleeping, At, control, session
<1>2. /\ CountersBehind /\ Published /\ cfg \in Configs /\ Publishing /\ pass.msgs \in TopicSet
      /\ pass.old \in BOOLEAN /\ topics \in [Prefixes -> TopicSet]
  BY <1>1, PassFacts DEF NoticedInv, TypeOK, Publishing
<1>3. PICK parts \in {{}, {"entities"}, {"entities", "topics"}} :
        /\ topics' = IF "topics" \in parts
                     THEN [topics EXCEPT ![pass.snap.conn.prefix] =
                             Overwritten(topics[pass.snap.conn.prefix], pass.msgs)]
                     ELSE topics
        /\ entities' = IF pass.discover /\ "entities" \in parts
                       THEN [z \in Zones |-> IF z \in pass.snap.enabled
                                             THEN pass.snap.conn.prefix ELSE None]
                       ELSE entities
        /\ Arrive(parts)
  BY DEF Send
<1>4. /\ "topics" \notin behind' => ~pass.old /\ "topics" \in parts
      /\ pass.discover /\ "entities" \notin behind' => ~pass.old /\ "entities" \in parts
      /\ ~pass.discover /\ "entities" \notin behind' => "entities" \notin behind
  BY <1>3 DEF Arrive, Parts
<1>5. CountersBehind' /\ ClientOfSnapshot' /\ SnapshotCurrent' /\ MessagesCurrent'
  BY <1>1, <1>2
     DEF CountersBehind, ClientOfSnapshot, SnapshotCurrent, MessagesCurrent, Publishing
<1>6. ASSUME last = <<engRev, cfgRev>>, "topics" \notin behind'
      PROVE  TopicsTrue'
  <2>1. ~pass.old /\ "topics" \in parts /\ pass.snap = cfg
    BY <1>2, <1>4, <1>6 DEF Published, SnapshotCurrent
  <2>2. /\ \A z \in cfg.enabled : pass.msgs.zones[z] = OnOff(z = zone)
        /\ pass.msgs.run = OnOff(cfg.run) /\ pass.msgs.rain = OnOff(cfg.rain)
    BY <1>1, <1>2, <1>6, <2>1 DEF Published, MessagesCurrent
  <2>. DEFINE p == cfg.conn.prefix
  <2>3. p \in Prefixes /\ cfg.enabled \subseteq Zones
    BY <1>2, ConfigFacts
  <2>4. topics'[p] = Overwritten(topics[p], pass.msgs)
    BY <1>2, <1>3, <2>1, <2>3
  <2>5. topics[p] \in TopicSet
    BY <1>2, <2>3
  <2>6. ASSUME NEW z \in cfg.enabled
        PROVE  topics'[p].zones[z] = OnOff(z = zone)
    <3>1. OnOff(z = zone) # None
      BY BridgeParameters DEF OnOff
    <3>2. pass.msgs.zones[z] # None /\ pass.msgs.zones[z] = OnOff(z = zone)
      BY <2>2, <3>1
    <3>3. topics'[p].zones[z] = pass.msgs.zones[z]
      BY <1>2, <2>3, <2>4, <2>5, <3>2, OverwrittenTypes
    <3>. QED BY <3>2, <3>3
  <2>7. \A z \in cfg.enabled : topics'[p].zones[z] = OnOff(z = zone)
    BY <2>6
  <2>8. topics'[p].run = OnOff(cfg.run) /\ topics'[p].rain = OnOff(cfg.rain)
    BY <1>2, <2>2, <2>4, <2>5, OverwrittenTypes
  <2>. QED BY <1>1, <2>7, <2>8 DEF TopicsTrue
<1>7. TopicsPublished'
  BY <1>1, <1>6 DEF TopicsPublished
<1>8. ASSUME Fits(cfg), last[2] = cfgRev, cfg.conn.discovery, "entities" \notin behind'
      PROVE  EntitiesTrue'
  <2>1. CASE pass.discover
    <3>1. pass.snap = cfg /\ "entities" \in parts
      BY <1>2, <1>4, <1>8, <2>1 DEF Published, SnapshotCurrent
    <3>. QED BY <1>1, <1>3, <2>1, <3>1 DEF EntitiesTrue
  <2>2. CASE ~pass.discover
    <3>1. EntitiesTrue
      BY <1>2, <1>4, <1>8, <2>2 DEF Published, EntitiesPublished
    <3>. QED BY <1>1, <1>3, <2>2, <3>1 DEF EntitiesTrue
  <2>. QED BY <2>1, <2>2
<1>9. EntitiesPublished'
  BY <1>1, <1>8 DEF EntitiesPublished, Fits
<1>. QED BY <1>5, <1>7, <1>9 DEF Published

\* The process ends, and nothing is connected any more.
LEMMA ExitNoticed ==
  ASSUME Exit
  PROVE  CountersBehind' /\ ClientOfSnapshot' /\ Published'
<1>1. /\ At' = "asleep" /\ client' = None /\ last' = <<0, 0>> /\ engRev' = 0 /\ cfgRev' = 0
  BY DEF Exit, Sleep, Sleeping, At
<1>. QED BY <1>1 DEF CountersBehind, ClientOfSnapshot, Published, SnapshotCurrent,
            MessagesCurrent, TopicsPublished, EntitiesPublished, Publishing, Fits

\* Every step keeps it.
LEMMA StepNoticed ==
  ASSUME NoticedInv, [Next]_vars
  PROVE  CountersBehind' /\ ClientOfSnapshot' /\ Published'
<1>1. CASE Pass
  BY <1>1, QuietNoticed, DialNoticed, CompareNoticed, RenderNoticed, SendNoticed DEF Pass
<1>2. CASE LinkFails \/ Relink \/ Refreshing \/ Signal \/ Restart \/ UNCHANGED vars
  <2>1. UNCHANGED <<cfg, cfgRev, zone, engRev, last, topics, entities, behind, pass, client>>
    BY <1>2 DEF LinkFails, Relink, Connect, Refreshing, Aside, Signal, Restart, vars, control,
                session, content
  <2>. QED BY <2>1, OtherStep
<1>. QED BY <1>1, <1>2, SaveNoticed, MoveNoticed, ExitNoticed DEF Next

\* A loop that sleeps with a connection that fits and with both counters as it
\* last saw them has told the broker how engine and store are: no change slips
\* between the two counters, the snapshot and the messages, wherever it falls, but
\* for what was lost or published from an older snapshot (bridge.go:117-154).
THEOREM ChangesNoticed == Spec => []NothingUnnoticed
<1>1. ASSUME Init PROVE NoticedInv /\ WeatherInv
  <2>1. At = "asleep" /\ client = None /\ last = <<0, 0>> /\ engRev = 0 /\ cfgRev = 0
    BY <1>1 DEF Init, At, Sleeping
  <2>2. CountersBehind /\ ClientOfSnapshot /\ Published
    BY <2>1 DEF CountersBehind, ClientOfSnapshot, Published, SnapshotCurrent,
                MessagesCurrent, TopicsPublished, EntitiesPublished, Publishing, Fits
  <2>. QED BY <1>1, <2>2, BridgeStart DEF NoticedInv
<1>2. (NoticedInv /\ WeatherInv) /\ [Next]_vars => (NoticedInv /\ WeatherInv)'
  BY StepNoticed, StepTypes DEF NoticedInv
<1>3. NoticedInv => NothingUnnoticed
  <2>. SUFFICES ASSUME NoticedInv, At = "asleep", Fits(cfg), last = <<engRev, cfgRev>>
                PROVE  Mirrored
    BY DEF NothingUnnoticed
  <2>1. last[2] = cfgRev /\ ~Publishing
    BY DEF Publishing
  <2>2. "topics" \notin behind => TopicsTrue
    BY <2>1 DEF NoticedInv, Published, TopicsPublished
  <2>3. cfg.conn.discovery /\ "entities" \notin behind => EntitiesTrue
    BY <2>1 DEF NoticedInv, Published, EntitiesPublished
  <2>. QED BY <2>2, <2>3 DEF Mirrored
<1>. QED BY <1>1, <1>2, <1>3, PTL DEF Spec
=============================================================================

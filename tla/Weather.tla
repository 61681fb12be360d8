------------------------------- MODULE Weather -------------------------------
(***************************************************************************)
(* The weather cache of internal/weather/cache.go and the two providers it   *)
(* asks.  The hourly loop and the goroutines of requests refresh it side by  *)
(* side: each reads the settings, asks the provider over the network for as  *)
(* long as that takes, and stores what came of it under the mutex.  The      *)
(* engine and the bridge read the stored scale.                              *)
(*                                                                          *)
(* Of an answer the model keeps which fields it has and the figures the      *)
(* scale is computed from; a figure that is missing reads as 0, as in Go,    *)
(* and so does an hour that is listed without a temperature.                 *)
(***************************************************************************)
EXTENDS Integers

CONSTANTS
  Hourly,        \* the loop's refresh
  Requests,      \* refreshes that may be under way besides it
  Replies,       \* what a provider's server may answer, see Answer
  NoReply,       \* an error, a status other than 200, or no JSON
  Places,        \* locations given by latitude and longitude
  NoPlace,       \* any other location
  MaxRefreshes,  \* bound: refreshes that requests make
  IdleRefreshes  \* bound: whether to look at refreshes of an empty cache without
                 \* a provider

Providers  == {"none", "openmeteo", "openweather"}
WeatherSet == [provider : Providers, place : Places \cup {NoPlace}, key : BOOLEAN]

\* One day summary or forecast: temperature, humidity, rain of yesterday and
\* today, and what else is asked for.  A forecast's temperature is a list of 24
\* hours, of which so many have a value, temp being the mean of these.
Fields == {"temp", "humidity", "yesterday", "today", "other"}
Answer ==
  [has : SUBSET Fields, temp : Int, hours : 0 .. 24, humidity : Int, yesterday : Nat,
   today : Nat]

ASSUME WeatherParameters ==
  /\ Hourly \notin Requests /\ NoReply \notin Replies
  /\ Replies \subseteq Answer /\ MaxRefreshes \in Nat

VARIABLES
  cfg,       \* the stored configuration; here only its part cfg.weather
  cache,     \* provider and scale of the cache; history: the settings they are from
  refresh,   \* per refresh: where it is, the settings it read, what it got
  asks       \* counts towards MaxRefreshes

weatherVars == <<cache, refresh, asks>>

-----------------------------------------------------------------------------
(* The providers.                                                           *)

NeutralHumidity == 30
Invalid == [valid |-> FALSE, temp |-> 0, humidity |-> 0, rain |-> 0]

Figure(reply, field) == IF field \in reply.has THEN reply[field] ELSE 0

Humidity(reply) ==
  IF "humidity" \in reply.has /\ reply.humidity \in 0 .. 100 THEN reply.humidity
  ELSE NeutralHumidity

\* The sum over yesterday's hours, by 24 however many have a value.
MeanOfDay(reply) == (Figure(reply, "temp") * reply.hours) \div 24

\* A forecast: every field has to be there, the hours of the temperature only as
\* entries of its list, which may be null.  Of an answer that is refused the figures
\* are left out: the scale does not depend on them.
OpenMeteo(s, reply) ==
  IF s.place = NoPlace \/ reply = NoReply THEN Invalid
  ELSE IF reply.has # Fields THEN Invalid
  ELSE [valid |-> TRUE, temp |-> MeanOfDay(reply), humidity |-> Humidity(reply),
        rain |-> Figure(reply, "yesterday") + Figure(reply, "today")]

Summary(first, second) ==
  [valid |-> TRUE, temp |-> Figure(first, "temp"), humidity |-> Humidity(first),
   rain |-> Figure(first, "yesterday") + IF second = NoReply THEN 0 ELSE Figure(second, "today")]

\* A slip: of yesterday's summary nothing has to be there.
OpenWeatherLax(s, first, second) ==
  IF ~s.key \/ s.place = NoPlace \/ first = NoReply THEN Invalid ELSE Summary(first, second)

\* Two summaries: yesterday's must have temperature and rain, today's rain is
\* taken if it comes.
OpenWeather(s, first, second) ==
  IF ~s.key \/ s.place = NoPlace \/ first = NoReply THEN Invalid
  ELSE IF ~({"temp", "yesterday"} \subseteq first.has) THEN Invalid
  ELSE Summary(first, second)

Vals(s, first, second) ==
  CASE s.provider = "none" -> Invalid
    [] s.provider = "openmeteo" -> OpenMeteo(s, first)
    [] s.provider = "openweather" -> OpenWeather(s, first, second)

\* What may come of asking with the settings s.
Outcomes(s) == {Vals(s, first, second) : first, second \in Replies \cup {NoReply}}

Clamp(n) == IF n < 0 THEN 0 ELSE IF n > 200 THEN 200 ELSE n

\* A slip: a hot, dry day asks for more than twice the water.
ScaleUnbounded(v) ==
  IF ~v.valid THEN 100
  ELSE 100 + (NeutralHumidity - v.humidity) + (v.temp - 70) * 4 - 2 * v.rain

Scale(v) ==
  IF ~v.valid THEN 100
  ELSE Clamp(100 + (NeutralHumidity - v.humidity) + (v.temp - 70) * 4 - 2 * v.rain)

-----------------------------------------------------------------------------
(* The cache.                                                               *)

Resting == [at |-> "rest"]

\* NewCache.
EmptyCache ==
  [provider |-> "none", scale |-> 100,
   settings |-> [provider |-> "none", place |-> NoPlace, key |-> FALSE]]

WeatherInit ==
  /\ cache = EmptyCache
  /\ refresh = [r \in Requests \cup {Hourly} |-> Resting]
  /\ asks = 0

Asking(s) == [at |-> "fetch", settings |-> s]

ToRefresh == IdleRefreshes \/ cfg.weather.provider # "none" \/ cache.provider # "none"

\* Slip: the loop asks until it has got something once.
AskOnce ==
  /\ refresh[Hourly].at = "rest" /\ ToRefresh /\ cache.provider = "none"
  /\ refresh' = [refresh EXCEPT ![Hourly] = Asking(cfg.weather)]
  /\ UNCHANGED <<cache, asks>>

\* Run: at once, and again an hour after the last one ended.
AskHourly ==
  /\ refresh[Hourly].at = "rest" /\ ToRefresh
  /\ refresh' = [refresh EXCEPT ![Hourly] = Asking(cfg.weather)]
  /\ UNCHANGED <<cache, asks>>

\* getWeatherCheck, and the goroutines that putSettings and postRestore start
\* after their change: by the time they read the settings, those may be others.
AskNow(r) ==
  /\ refresh[r].at = "rest" /\ ToRefresh /\ asks < MaxRefreshes
  /\ refresh' = [refresh EXCEPT ![r] = Asking(cfg.weather)]
  /\ asks' = asks + 1
  /\ UNCHANGED cache

\* The provider is asked without the mutex, with the settings read before.
Fetch(r) ==
  LET s == refresh[r].settings IN
  /\ refresh[r].at = "fetch"
  /\ \E v \in Outcomes(s) :
       refresh' = [refresh EXCEPT ![r] = [at |-> "store", settings |-> s, vals |-> v]]
  /\ UNCHANGED <<cache, asks>>

\* A slip: the provider's name is read again after the answer came.
StoreNamedAnew(r) ==
  /\ refresh[r].at = "store"
  /\ cache' = [provider |-> cfg.weather.provider, scale |-> Scale(refresh[r].vals),
               settings |-> refresh[r].settings]
  /\ refresh' = [refresh EXCEPT ![r] = Resting]
  /\ UNCHANGED asks

Store(r) ==
  LET s == refresh[r].settings IN
  /\ refresh[r].at = "store"
  /\ cache' = [provider |-> s.provider, scale |-> Scale(refresh[r].vals), settings |-> s]
  /\ refresh' = [refresh EXCEPT ![r] = Resting]
  /\ UNCHANGED asks

WeatherNext ==
  \/ AskHourly
  \/ \E r \in Requests : AskNow(r)
  \/ \E r \in Requests \cup {Hourly} : Fetch(r) \/ Store(r)

-----------------------------------------------------------------------------
(* Properties.                                                              *)

ValSet == [valid : BOOLEAN, temp : Int, humidity : Int, rain : Int]

Refreshes ==
  {Resting} \cup [at : {"fetch"}, settings : WeatherSet]
    \cup [at : {"store"}, settings : WeatherSet, vals : ValSet]

WeatherTypeOK ==
  /\ cache \in [provider : Providers, scale : 0 .. 200, settings : WeatherSet]
  /\ refresh \in [Requests \cup {Hourly} -> Refreshes]
  /\ asks \in 0 .. MaxRefreshes

\* The formula of weather.go:33-41 for figures a gardener would give it.
Advice(humidity, temp, rain) == Clamp(100 + (30 - humidity) + 4 * (temp - 70) - 2 * rain)

\* A humidity that an answer tells, or the neutral one in its place.
Humidities(a) == {NeutralHumidity} \cup IF "humidity" \in a.has THEN {a.humidity} ELSE {}

\* The advice for a forecast that has all its fields, the mean of yesterday's hours
\* taking those without a value for 0 degrees.
AdvisedByOpenMeteo(scale) ==
  \E a \in Replies : \E h \in Humidities(a) :
    /\ a.has = Fields
    /\ scale = Advice(h, (a.temp * a.hours) \div 24, a.yesterday + a.today)

\* The advice for yesterday's summary, which has a temperature and a rain, and for
\* today's rain or, without it, for a dry day.
AdvisedByOpenWeather(scale) ==
  \E a \in Replies : \E h \in Humidities(a),
                        t \in {0} \cup {b.today : b \in {b \in Replies : "today" \in b.has}} :
    /\ {"temp", "yesterday"} \subseteq a.has
    /\ scale = Advice(h, a.temp, a.yesterday + t)

\* Watering is changed only on the word of the provider the cache names, however
\* refreshes with other settings overlap: an answer without the figures that provider
\* has to give, or settings it cannot be asked with, leave the scale at 100.  Two gaps
\* are filled with zeros and do change it: hours that Open-Meteo lists without a
\* temperature, down to all 24 (openmeteo.go:51, 110-115), count as 0 degrees, and
\* today's rain, if OpenWeather does not tell it, as a dry day (openweather.go:127-132).
NeutralUnlessKnown ==
  cache.scale # 100 =>
    \/ cache.provider = "openmeteo" /\ AdvisedByOpenMeteo(cache.scale)
    \/ cache.provider = "openweather" /\ cache.settings.key /\ AdvisedByOpenWeather(cache.scale)
=============================================================================

---------------------------- MODULE MCMqttBridge ----------------------------
(* Two zones and two prefixes.  MQTT settings change without a provider, and  *)
(* provider and place change without MQTT.                                   *)
EXTENDS MqttBridge

Weather0(provider) == [provider |-> provider, place |-> "here", key |-> TRUE]

Config(on, prefix, discovery, run, enabled, provider) ==
  [on |-> on, conn |-> [prefix |-> prefix, discovery |-> discovery], run |-> run,
   rain |-> ~run, enabled |-> enabled, weather |-> Weather0(provider)]

Home   == Config(TRUE, "home", TRUE, TRUE, {1, 2}, "none")
Plain  == Config(TRUE, "home", FALSE, TRUE, {1, 2}, "none")
Fewer  == Config(TRUE, "home", TRUE, FALSE, {1}, "none")
Garden == Config(TRUE, "garden", TRUE, TRUE, {1, 2}, "none")
Dark   == Config(FALSE, "home", TRUE, TRUE, {1, 2}, "none")
Sky(provider) == [Dark EXCEPT !.run = FALSE, !.weather.provider = provider]

MCGroups == {{Home, Plain, Fewer, Garden, Dark},
             {Sky("none"), Sky("openmeteo"), Sky("openweather"),
              [Sky("openmeteo") EXCEPT !.weather.place = "there"]}}
MCFirst  == {Home, Sky("openmeteo")}

Day(has, hours) ==
  [has |-> has, temp |-> 96, hours |-> hours, humidity |-> 30, yesterday |-> 0, today |-> 5]

\* A hot, dry day, with all there is to know of it, with half of its hours, or with
\* hardly anything.
MCReplies == {Day(Fields, 24), Day(Fields, 12), Day(Fields \ {"temp", "humidity"}, 0)}
=============================================================================

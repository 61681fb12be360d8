------------------------------ MODULE MCEngine ------------------------------
(* Two zones, one behind the pump, days of six minutes and configurations   *)
(* chosen so that starts wait, coincide, are suppressed or lose their       *)
(* schedule, and runs pause to soak and cross midnight.                     *)
EXTENDS Engine

MCZones == <<[enabled |-> TRUE, pump |-> TRUE], [enabled |-> TRUE, pump |-> FALSE]>>

Schedule(days, starts, durations, cycle, soak, adjust) ==
  [days |-> days, starts |-> starts, durations |-> durations, cycle |-> cycle,
   soak |-> soak, weatherAdjust |-> adjust]

Config(schedules, rainUntil, pre, post) ==
  [runSchedules |-> TRUE, rainUntil |-> rainUntil, pumpPre |-> pre, pumpPost |-> post,
   seasonal |-> 100, zones |-> MCZones, schedules |-> schedules]

\* The evening run waits for, or is due with, the late one, which crosses
\* midnight; the weather may leave nothing of the evening run.
Evening == Schedule({0, 1}, <<1, 4>>, <<1, 1>>, 0, 0, TRUE)
Late    == Schedule({0}, <<4>>, <<2, 1>>, 0, 0, FALSE)
\* One minute of zone 1, a soak of two minutes, another minute.
Soaking == Schedule({0, 1}, <<1>>, <<2>>, 1, 2, FALSE)

Both      == Config(<<Evening, Late>>, 0, 1, 1)
LateOnly  == Config(<<Late>>, 0, 1, 1)       \* the first schedule deleted
Raining   == Config(<<Evening, Late>>, 3, 0, 0)
SoakOnly  == Config(<<Soaking>>, 0, 0, 1)
Off       == [Both EXCEPT !.runSchedules = FALSE]

MCFirstConfigs   == {Both, SoakOnly}
MCConfigs        == {Both, LateOnly, Raining, SoakOnly, Off}
\* A pump that runs alone for two minutes before a slot of one.
LongPreRun   == {Config(<<Evening>>, 0, 2, 0)}

\* For the run on liveness: nothing is due on the second day, so that every run
\* can end before the clock stops.
Once(c)       == [c EXCEPT !.schedules = [s \in DOMAIN @ |-> [@[s] EXCEPT !.days = {0}]]]
MCOnceConfigs == {Once(Both), Once(SoakOnly), Once(LateOnly)}
MCOnceFirst   == {Once(Both), Once(SoakOnly)}

MCWeatherScales  == {0, 100}
MCQuickDurations == {<<1, 2>>}
MCManualTimers   == {0, 2}
=============================================================================

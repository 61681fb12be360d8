# sprinklerGo in TLA+

sprinklerGo is a daemon that waters a garden: it keeps a configuration of zones
and schedules, expands a due schedule into a sequence of valve openings, drives
a relay board, and lets people and Home Assistant interfere at any time. This
directory holds TLA+ models of it, the TLC configurations that check them, and
proofs the TLA+ proof system checks. Paths below are relative to the repository.

## 1. The system

| Part | State | Operations | Talks to |
|---|---|---|---|
| Engine (`internal/engine/engine.go`) | start list `pending`, expanded run `running`, run state `run`, outputs `outState`, deferred steps `outSteps`, last latched outputs `prevOut`/`havePrev`, `lastDay`, `rev`, all under the mutex `mu` | `Tick` (once a second), `Reload`, `StopAll`, `SetManualZone`, `QuickRunSchedule`, `QuickRunDurations`, `SwapOutput`, `Shutdown`, `State`, `Rev` | reads the configuration store and the weather cache, writes the zone log, drives the output backend, emits events |
| Slot expansion (`startScheduleLocked`) | `remaining`, `lastEnd`, `at` (locals) | one iteration per slot | part of the engine |
| Schedules, calendar (`internal/model`) | none | `RunsOn`, `Normalize`, `Validate`, `NextRunAfter`, `EpochDays` | used by the engine, the store and the API |
| Configuration store (`internal/store/config.go`) | the configuration, the file, `rev` | `OpenConfig`, `Snapshot`, `Update`, `ReplaceRaw`, `save` | read by everything |
| Migration (`internal/store/migrate.go`) | none | `migrateRaw` | store |
| Zone log (`internal/store/logstore.go`) | SQLite table | `LogZoneEvent`, `Entries`, `Grouped`, `Prune` | engine writes, API reads |
| HTTP API (`internal/api/api.go`) | none of its own | one handler per route: update the store, then call the engine | store, engine, weather, backend exchange, web server |
| Backend exchange (`cmd/sprinklerd/main.go`, `internal/hardware`) | `current` under `outMu` | `applyOutput` | engine (`SwapOutput`), the device |
| Weather cache (`internal/weather/cache.go`) | last values, scale | `Refresh`, `Run`, `Scale` | providers over HTTP |
| MQTT bridge (`internal/mqttbridge`) | client, connection fingerprint, last published revisions | `Run`, `connect`, `disconnect`, `publish`, `onCommand` | broker, store, engine |
| State stream (`getEvents`) | last sent fingerprint | poll and send | browser |
| Web server (`internal/websrv`) | listener and server | `Start`, `Swap`, `Shutdown` | API |
| Daemon (`cmd/sprinklerd/main.go`) | goroutines and their context | start and shutdown order | everything |
| Events, webhook, metrics, login, frontend | | | not part of the irrigation logic |

What is hard in it:

* everything the engine does is cut up by ticks that may come late, and by calls
  that arrive between any two of them;
* a run is a list of events computed when it starts, while the run state, the
  outputs and the deferred pump steps move on separately: a call that resets one
  of the three and not the others leaves the rest behind;
* configuration and engine are two monitors: every handler updates one and then
  calls the other, and the loop's tick may come in between;
* the board may refuse a command, and it keeps its outputs over a crash.

What has to be true, part by part:

* *expansion*: no minute lost, no two valves at once, soaks kept, no idle gap
  that is not forced, always finite;
* *engine*: the outputs are those of the run and of nothing older; a start fires
  at most once; a run that blocks the others ends; no valve stays open past its
  end; no watering without a log entry; the board follows in the end;
* *store*: after a crash the old or the new document; memory never ahead of disk;
* *handlers*: once the last of several requests has returned, engine, board and
  port agree with the stored configuration;
* *bridge*: retained state converges to the engine's, as far as the loop repeats what it
  published; nothing dead is shown as online;
* *weather*: the cache ends with the provider and place that are configured, and adjusts the
  watering only for an answer with what its provider has to give;
* *calendar and log*: a schedule that runs every N days does so over all calendar
  irregularities, what is announced is what happens, rows go when the retention says;
* *daemon*: when the process has ended every valve is off.

## 2. The modules

| Module | Models |
|---|---|
| `CyclePlan` | the arithmetic of the expansion as operators on a plan, the record of the loop's locals |
| `CycleSoak` | the loop on its own, from any demand and setting |
| `Engine` | the engine with its surroundings: store, board, clock, crashes |
| `ConfigRegister` | what the configuration store promises: one document, changed as if at once |
| `ConfigStore` | the store with its file, the steps of `save`, kills and power cuts, and the clients of the state stream |
| `Handlers` | the requests of the API and of MQTT, step by step, over store, engine, output board and listener, and the end of the daemon |
| `Weather` | the providers as functions from an answer to values, the cache and its concurrent refreshes; part of `MqttBridge` |
| `MqttBridge` | the loop of the MQTT bridge over store, engine and weather cache, the link, the broker's retained topics, the end of the daemon |
| `Calendar` | day numbers, the days a schedule runs on, the run that is announced |
| `ZoneLog` | days going by: starts, rows of the zone log, its pruning, announcements |
| `MCCycleSoak`, `MCEngine`, `MCConfigStore`, `MCHandlers`, `MCMqttBridge`, `MCZoneLog` | small instances for TLC |
| `CyclePlanProofs`, `CycleSoakProofs`, `EngineProofs`, `ConfigStoreProofs`, `CalendarProofs`, `ZoneLogProofs`, `HandlersProofs`, `MqttBridgeProofs` | theorems and proofs |

`Engine` extends `CyclePlan`, so the expansion it runs inside a pass is, operator
by operator, the one `CycleSoak` checks alone. `ConfigStore` instantiates
`ConfigRegister` with its own file as the document and implements it; `Handlers` and
`Engine` use the store as that register: a change is one step that takes place or, in
`Handlers`, fails. `MqttBridge` extends `Weather`, whose cache it publishes, and `ZoneLog`
extends `Calendar`; the former has its own, coarser view of the store (a counter and a
document) and of the engine (a counter and the zone that is open).

### Engine and the code

* **Steps.** Every exported method holds `e.mu` from its first line to its last
  and reads clock and configuration once. A method without a loop over the run is
  one action of the same name. `Tick` and the two quick runs are several: the
  action with the method's name takes the lock (`lock = "expand"` or `"fire"`),
  `ExpandSlot`/`BeginRun` are the loop of `startScheduleLocked`,
  `FireZoneOn`/`FirePause`/`FireAllOff` the iterations of `processLocked`'s second
  loop, and `ExpireManual`/`EndPass` the manual timer, the latch and the unlock.
  Other methods and the clock wait for `lock = "free"`; a crash does not.
* **State.** The variables are the fields of `Engine`, with `pending` as the set of
  starts that are not done (its order is that of schedule and start time, see
  `Before`), and the locals of the expansion in `plan`. `hw` is what is really on
  at the board. `logged`, `driven` and `consumed` are history.
* **Configuration.** `SaveConfig` changes it at any time between two methods and is
  *not* followed by a reload: the reload is the handler's next call, which may come
  late or never. This covers the gap between `Update` and `Reload` in every handler.
* **Board.** `LatchOn` succeeds or fails. A new backend starts with its outputs off
  (GPIO lines requested anew) or shares the relays of the old one (a script).
* **Crash.** At any point, also inside a pass. A relay board holds, GPIO lines may
  fall back, so `hw` stays or becomes empty; the first tick of the new process finds
  `havePrev = FALSE`.
* **Time** is counted in minutes, the unit of every duration in the configuration
  except the pump's pre- and post-run, which are seconds in the code and minutes
  here. The loop ticks once a second; between two ticks at most `MaxLag` minutes
  pass, so with a lag of 0 or 1 the loop is on time and with 2 it skips a minute.

Abstracted: the adjustment figures a run carries for its log row; the event sink;
`rev` and `State()`; the number of zones, which only a restore can change. Times of
day that do not exist or exist twice (daylight saving) and a clock set back are left
out: the clock of the model only moves forward.

### ConfigStore and the code

* **Steps.** `Change` is what `Update` and `ReplaceRaw` do under the write lock up to
  `save`; then come `CreateTemp`, `WriteTemp`, `SyncTemp`, `CloseTemp`, `Rename` and
  `Finish` (counter, unlock). `SaveFails` is the error return of any of them with the
  roll-back of the caller, and, during a start, the end of the process. `OpenConfig`
  reads the file and either serves it or goes through the same steps first.
* **State.** `cfg` and `rev` are the fields of the store, `prev` the local of the call
  in progress, `step` how far it has got (`"none"`: the lock is free). `file` is what a
  reader of the path sees, `older` what the directory may still hold if the power fails
  before it is written back: the rename is not followed by a sync of the directory. A
  rename of a file that was not synced would put `Torn` there.
* **Documents** are a version and one field for each migration step. A field holds a
  value, the migration's default, nothing, or something `Validate` refuses. JSON, the
  settings no migration touches, and documents that are not JSON at all except as
  `Torn`, are abstracted. A process that is killed leaves its temporary file behind
  under a name nobody reads; the model forgets it.
* **Watchers** run `getEvents`: the counter without the lock (`Fingerprint`), then the
  snapshot under it (`Send`), also without a change, as every five seconds.

### Handlers and the code

* **Steps.** A request goes through the places of `req[c].at`: `Begin` (snapshots and
  checks before the store is touched), `Update`, `Look` (`putZone`'s `State`),
  `CallEngine`, then for `putSettings` and `postRestore` `applyOutput` in three steps
  (`OpenBoard` before `outMu`, `SwapBoard` with it, `CloseOld` up to the unlock), then
  `Listen` (`websrv.Swap`) and `Revert`. MQTT commands are the requests of the clients in
  `Remote`: nothing stops them at the shutdown.
* **The engine** is reduced to what requests can tell: `pending`, the running zone, the
  events to come, and whether the run blocks other starts. When anything happens is left
  open (`ComeDue`, `NextSlot`, `EndCycle` at any time), so every behaviour of `Engine` in
  these terms is among them. A start has the place of its schedule in the list, as in the
  code, and the identity of the schedule it was made for, which the code does not have.
* **Boards.** GPIO boards hold lines, and `ForSettings` cannot request lines that are
  held. A script has none and stays callable after `Close`; its `Apply(0)` switches off
  what that instance has on. `relay` is the boards on which a valve is open.
* **The end.** `Signal`, `StopHTTP` (which gives up waiting after three seconds),
  `StopEngine`, `CloseBoard`, `Exit` are the last lines of `run`; `EndLoop` is the
  engine's own goroutine, which shuts the engine down as well.

Abstracted: validation and decoding of requests, the pump, `Apply` failing (see
`Engine`), the change of the day, the rain delay request (a start may be dropped at any
time instead), a backend that cannot be opened when the daemon starts, the draining of
connections after a move of the port, the number of zones.

### Weather, MqttBridge and the code

* **Refreshes.** `AskHourly` and `AskNow` are the first line of `Refresh`, which reads the
  settings; `Fetch` is the provider's answer, minutes later, to the settings read then;
  `Store` the lines under the mutex. The loop and any number of requests are each at a
  place of `refresh`. `AskNow` comes at any time, which covers the goroutines of
  `putSettings` and `postRestore` and `getWeatherCheck`.
* **Answers** are records of which fields are there, of the figures the scale is
  computed from, and of how many of the 24 hours of a forecast have a temperature: the code
  counts the entries of that list and reads those without a value as 0 °F (`MeanOfDay`).
  The two humidities of Open-Meteo are one, rounding is left out. Any answer of `Replies`, an
  error or nothing at all may come for each of the requests, whatever place is asked for.
* **The cache** is its provider and scale; `cache.settings` is history, the settings its
  content was asked for with. A location is one of `Places` or cannot be read (`NoPlace`).
* **The loop** is `pass`, with its locals: `Wake` (snapshot, fingerprint), `Drop`
  (`disconnect`), `Dial` (`connect`), `ReadEngineRev`, `ReadConfigRev` (the comparison),
  `ReadState` and `Send` (`publish`). A second after a pass ended the next may begin; the
  15 seconds after a refused connection are time in which nothing happens.
* **The broker** is external: `topics`, `entities` and `avail` are what it retains.
  A client greets (`online`, subscriptions) in the step that connects it, and the will of
  a client that is lost takes effect at once. Broker, account and prefix are one value of
  `Prefixes`. What is published while the link is down is dropped, as the client does for
  messages it is not asked to confirm.
* **The others.** `SaveConfig` is any handler or command that stores something, the rain
  delay command among them; `EngineMoves` anything that changes what the engine shows,
  or just its counter. The commands themselves are requests of `Handlers`. Restarts keep
  the configuration and nothing else.

Abstracted: the active zone's name, the JSON blob and the fixed entities (published with
what is modelled, in the same call), the labels, the rain delay running out by itself,
the retained state of a zone that was disabled, which stays.

### Calendar, ZoneLog and the code

* `DaysFromCivil`, `RunsOn` and `NextRunAfter` are translated, the last with its loop from
  day to day as a recursive function; what they are measured by is
  not: `Tomorrow`, which only knows the lengths of the months, moves the day, and the
  history variable `number` counts the steps from the number of the first day. `Weekday` and `AddDate` are those of
  package `time`, from how they are used.
* `Midnight` and `Restart` list the starts as `rebuildPendingLocked` does, `LaterToday`
  moves to the next minute at which anything happens. A run is one row at its start:
  waiting, pausing and rain are the subject of `Engine`.
* `Prune` is one turn of the loop in `main.go`, due at the start and 24 hours after the
  last; a restart takes no time.

Abstracted: seconds, daylight saving, years before 1970, `Entries` and `Grouped` (queries),
`VACUUM` and a database that fails, start times that are in a schedule twice.

## 3. What TLC checks

| Run | Instance | What it shows |
|---|---|---|
| `MCCycleSoak` | 3 zones, 0 to 4 minutes each, cycle limit 0 to 2, soak 0, 1, 3 or 7 | all the promises of the expansion, and that it ends |
| `MCEngine` | 2 zones (one with pump), days of 6 minutes, 8 minutes, 2 calls up to minute 6, 1 fault, ticks up to 2 minutes late | the safety properties of the engine |
| `MCEngineLive` | schedules of one day, 11 minutes, 1 call up to minute 5, 1 fault | passes end, the board catches up, watering ends |
| `MCEngineManual`, `MCEngineWaiting`, `MCEngineDryLog` | as `MCEngine`, fewer calls | the findings of section 5 |
| `MCConfigStore` | 2 fields (3 versions and a newer one), 3 changes, 2 faults, 1 watcher | the promises of the store, and that it implements `ConfigRegister` |
| `MCHandlers` | 2 requests under way at once, 1 of them perhaps by MQTT, 1 start that comes due, 1 failing save, 3 boards, a port that is taken | engine, board, port and configuration agree once the requests are through; the daemon ends dry |
| `MCHandlersPort`, `MCHandlersExit` | 1 client, saving settings; 1 MQTT client | the findings of section 5 |
| `MCMqttBridge` | 2 zones, 2 prefixes, 2 places, 9 configurations, 2 of them saved, 1 move of the engine, 2 faults (link, refused connection, end of the process), the hourly refresh and 1 more | what the broker retains follows the daemon; the cache follows the settings and adjusts nothing without the figures it needs |
| `MCZoneLog` | 6 worlds of first day, schedule and retention, 41 days each, 2 restarts, announcements or changes of the retention | the calendar, the announced runs, the retention |

**Why these bounds.** The two-schedule configuration makes a start wait behind a run
(or be due with it), lets a run cross midnight, and can leave nothing of a run (a
weather scale of 0); the soaking one has a pause, in which the outputs are off and
the run goes on. Pre- and post-run of a minute are as long as a slot, the worst case
short of a slot they swallow. `LateOnly` is `Both` with the first schedule deleted,
so that start indices point elsewhere or nowhere; `Raining` suppresses starts and
lifts the delay; `Off` switches the schedules off. Two calls are enough to interrupt
a run with something and that with something else; one fault is a failing `Apply` or a
crash at any point. A second day starts before the clock stops, so the rebuild at
midnight and a start after it are in every behaviour. Three zones and a soak of 7 are
enough for zones that fill another's soak wholly, partly and not at all, with ties.
In `MCEngineLive` no schedule is due on the second day and calls end at minute 5, so
that every run can end before the clock stops at 11; without that, "ends by itself"
would fail only for want of time. In `MCConfigStore` the first files are one of the oldest
version, a current one, one that is refused, one that is newer and none at all; two
faults are a failure while the first is being repaired, or a power cut after a kill, and
with three changes two of them can be waiting for the directory at once. In
`MCHandlers` two requests meet in every order of their steps, which is what a race
between handlers needs, and two more parties, the tick and the shutdown, come between.
The bodies exchange board and port one at a time and restore a configuration in which
everything is different; the second schedule moves up when the first is deleted. One new
port can be bound and one cannot.
In `MCMqttBridge` the five MQTT configurations differ from one another in the prefix, the
discovery, the switch, and the zones and settings that are shown; the four weather
configurations in the provider, or in the place that Open-Meteo is asked for. The answers are
one with every field, the same with half of its hours empty, whose mean is 48 °F instead of
96 °F and takes the scale from 194 to 2, and one without temperature and humidity. The two sets are not mixed (`Groups`): bridge and
cache share nothing but the published scale. Refreshes that would find an empty cache and
no provider are not looked at (`IdleRefreshes`). Two changes are one while the other is
being published, or a change and the way back; two faults are a link that fails again
before everything is repaired, or a restart after a failed link. In `MCZoneLog` 41 days
contain the end of a short or long February, the first days of March and, from February
20, also March 29 to 31, for which there is no day in February to go back to; an interval
of 20 days leaves nothing to announce for two weeks.

**Fairness.** `WF(Tick)`: the loop's goroutine is woken by its ticker for as long as
the process lives and `Shutdown` has not ended it. `WF(Pass)`: a method that has the
mutex runs to its end, nothing in it waits for another goroutine. `SF(AdvanceClock)`:
time goes on although the mutex is taken again and again. In `MqttBridge`, `WF(Pass)`: the
bridge's ticker, and none of its calls waits for ever (every one has a timeout);
`WF(Relink)`: the client reconnects by itself and finds the broker in the end, links
that fail are bounded; `WF` of the hourly loop, whose refresh begins, is answered and is
stored, and of every other refresh under way, while the process lives: the context of
each ends it after 20 seconds. Nothing is assumed of
`Restart`: the liveness properties speak of a daemon that is up. No fairness is assumed of
operators, of `Apply` succeeding (failures are bounded by `MaxFaults`, which is what
"as long as it does not fail for ever" comes to) or of a crash.

`CHECK_DEADLOCK FALSE` is set where the modelled system may stop: the expansion ends,
after a shutdown nothing is left to happen once nobody calls and the clock stops, a
daemon whose file it cannot use stays down, and an ended process does nothing more.

**The properties** are in the modules, each with the behaviour it is about. The ones
worth a second look:

* `OutputsFollowRun` relates three pieces of state that five code paths set one by
  one. It holds because `setOutputsLocked` empties the queue of steps first thing.
* `NeverTwice` spans reloads, midnight, switching off and on, and a restart.
* `RunWillEnd`: `e.run.schedule` blocks every other start, and only an event in
  `e.running` can reset it, so the closing all-off must survive whatever happens.
* `NoOverrun`: after any tick, however late, no zone is open past its end.
* `PauseOnlyToSoak`: the run is never idle while a zone could be watered.
* `NeverBricked` needs the sync before the rename: without it a power cut leaves a file
  the daemon cannot start with.
* `WatcherFresh` rests on an order: a client reads the counter before the document, and
  the store moves it after the document is final. A document read first, or without the
  lock while it may still be rolled back, would be taken for the current one for good.
* `EngineFollowsConfig` is what makes update-then-reload enough, with any overlap of
  handlers: the reload takes a new snapshot instead of what the handler wrote.
* `OffRequestStops` speaks of the switch of `putSystemRun` and MQTT only: a scheduler
  switched off by saving the settings lets the run finish.
* `BoardInForce` is why `applyOutput` holds its mutex over the engine's call: without it
  two exchanges leave the engine driving a board that was closed.
* `SettingsInForce` says when two requests do not hurt each other; its exceptions are the
  defects of finding 4 and of two settings requests at once.
* `NothingUnnoticed` compares the broker's topics with the engine and the store whenever the
  bridge would do nothing more; it names what may be missing (`behind`).
* `OnlineIsHonest` needs both the orderly "offline" and the will, and a client of one
  prefix never answers for another.
* `MirroredInTheEnd` promises "online" without exception, and true topics and entities
  except for what was last published from an old snapshot, without a connection or into a
  link that was just lost: the loop does not repeat that, and section 5 says so.
* `CacheCatchesUp` is not true of the goroutines alone: a slow answer of the old provider,
  or for the old place, may come last, and only the hourly refresh repairs that.
* `NeutralUnlessKnown` compares the scale with an independent statement of the formula, for
  an answer with the fields the provider *named in the cache* has to give. It allows two gaps
  by name: hours of a forecast without a temperature, and today's rain of OpenWeather.
* `TypeOK` of `ZoneLog` has the day number of every day equal to the days counted.
* `QuietExitIsDry` is what the shutdown does guarantee; finding 5 is what it does not.

## 4. What is proved

For every number of zones, every configuration, every setting and every bound:

| Theorem | Says | Rests on |
|---|---|---|
| `EngineProofs!TypeCorrect` | `Spec => []TypeOK` | the inductive `TInv`: `TypeOK` and `run.since <= now`, without which a logged duration might be negative |
| `EngineProofs!OutputsAreTheRuns` | `Spec => []OutputsFollowRun` | `SInv = TInv /\ FInv` |
| `EngineProofs!EveryMinuteLogged` | `Spec => []WaterAccounted` | itself, with `SInv`: a minute goes only to the valve of the run's zone |
| `EngineProofs!NeverOverrun` | `Spec => []NoOverrun` | the inductive `RInv = TInv /\ ListInv /\ RunInv /\ NoOverrun` |
| `EngineProofs!RunsEnd` | `Spec => []RunWillEnd` | `RInv`: the last event is the all-off, and events fire in the order of the list |
| `EngineProofs!StartsFireOnce` | `Spec => []NeverTwice` | `RInv` and `NInv`: what a tick took was due by `tickAt` |
| `CycleSoakProofs!TypeCorrect` | `Spec => []TypeOK` | `IInv` |
| `CycleSoakProofs!MinutesConserved` | `Spec => []Conserved` | `IInv` |
| `CycleSoakProofs!SlotsSequential` | `Spec => []Sequential` | `IInv` |
| `CycleSoakProofs!CyclesSoak` | `Spec => []SoakKept` | `IInv` |
| `CycleSoakProofs!CyclesKept` | `Spec => []CycleKept` | `IInv` |
| `CycleSoakProofs!NoOpenGaps` | `Spec => []GapsArePauses` | `IInv` and `GInv`: a last slot ends where the loop is |
| `CycleSoakProofs!PausesSoak` | `Spec => []PauseOnlyToSoak` | `IInv` and `PInv`: `lastEnd[z]` is the end of a slot of `z`, and all that wait after a pause soaked through it |
| `CycleSoakProofs!OriginalOrder` | `Spec => []ClassicOrder` | `IInv` and `OInv`: the zones that wait come after all that had their slot |
| `ConfigStoreProofs!TypeCorrect` | `Spec => []TypeOK` | `IInv` |
| `ConfigStoreProofs!ImplementsRegister` | `Spec => IsRegister` | the inductive `IInv`; every step of the store is a step of the register or a stutter |
| `ConfigStoreProofs!MemoryMatchesFile` | `Spec => []MemoryIsFile` | `IInv` |
| `ConfigStoreProofs!StartsAgain` | `Spec => NeverBricked` | `IInv`, action by action |
| `ConfigStoreProofs!StreamIsFresh` | `Spec => []WatcherFresh` | `IInv` and `WInv`: no watcher has a counter from the future |
| `ConfigStoreProofs!NothingMissing` | `Spec => []ServedComplete` | `IInv` and `CInv`: what is stored, or may come back, lacks only fields younger than it |
| `HandlersProofs!TypeCorrect` | `Spec => []TypeOK` | the inductive `TInv`: with each place of a request go the kinds that get there |
| `HandlersProofs!ListFollowsConfig` | `Spec => []EngineFollowsConfig` | `TInv` and `EInv`: the list is right or a request that rebuilds it has its call to come |
| `HandlersProofs!OffStops` | `Spec => []OffRequestStops` | `TInv` and `OInv`: nothing is listed or scheduled, or the request that stops it has its call to come |
| `HandlersProofs!OneBoardDriven` | `Spec => []BoardInForce` | `TInv` and `BInv`, the two halves of an exchange |
| `HandlersProofs!QuietEndIsDry` | `Spec => []QuietExitIsDry` | `TInv`, `BInv` and `DInv`: without a late call the engine stays quiet |
| `HandlersProofs!SettingsTakeEffect` | `Spec => []SettingsInForce` | `TInv` and `SInv`: how far the one request for settings has got |
| `CalendarProofs!NextDayNextNumber` | `EpochDays(Tomorrow(date)) = EpochDays(date) + 1` | how long a year is from March to March (`YearLength`), and the months in the code's formula (`NextMonth`) |
| `CalendarProofs!WeekdayOfNumber` | `Weekday(date) = (EpochDays(date) + 4) % 7` | the two differ by whole weeks, in the years and in the months |
| `CalendarProofs!NumbersCountDays` | `EpochDays(DaysOn(date, n)) = EpochDays(date) + n` | `NextDayNextNumber`, and counting up |
| `CalendarProofs!IntervalRuns` | every N days is N days later and on no day between | `NumbersCountDays`, and what N divides (`NextMultiple`) |
| `CalendarProofs!AnnouncesTheFirst` | the loop of `NextRunAfter` stops at the first day with a start to come, or finds none | the loop is a function on the days (`SearchExists`); it passes over days that have none, by counting up (`SearchSkips`) |
| `CalendarProofs!FoundInTwoWeeks` | with a week's days, or up to every 14 days, there is one | `NumbersCountDays`, `WeekdayOfNumber`, `MultipleAhead` |
| `ZoneLogProofs!TypeCorrect` | `Spec => []TypeOK` | itself, with `NextDayNextNumber` and `WeekdayOfNumber` |
| `ZoneLogProofs!RunsEveryNDays` | `Spec => []EveryNDays` | the inductive `RowsInv`: all rows are starts of days that N divides, and from the first that is kept none is missing |
| `ZoneLogProofs!AnnouncementsKept` | `Spec => []AnnouncementKept` | the inductive `PromiseInv`: the day of the announcement, and the rows since then |
| `ZoneLogProofs!RetentionIsKept` | `Spec => RetentionKept` | the inductive `PrunedInv`: the day and instant of the last pruning, and `NextDayBack` |
| `MqttBridgeProofs!TypeCorrect` | `Spec => []TypeOK` | `TypeOK` and `WeatherInv`, one part of the state at a time |
| `MqttBridgeProofs!WeatherNeutral` | `Spec => []NeutralUnlessKnown` | `WeatherInv`: what a refresh is about to store, and what is stored, came of asking with the settings it goes with (`ValsKnown`, `CacheKnown`), which is neutral or follows from an answer (`Founded`) |
| `MqttBridgeProofs!ChangesNoticed` | `Spec => []NothingUnnoticed` | the inductive `NoticedInv` |
| `MqttBridgeProofs!OnlineHonest` | `Spec => []OnlineIsHonest` | the inductive `HonestInv`: nobody connects while there is a client |

`OutputsFollowRun` is not inductive: it speaks of states in which the mutex is free,
and in the middle of a pass the new run has no zone while the valve of the run before
it is still open. `FInv` adds what makes up for that: while a run is expanded its first
event (or, before there is one, the point the loop has got to) is due at once, and while
events are fired the outputs follow the run or an event is due. So the pass cannot end
before the outputs were set again, even if the run expands to nothing but its all-off.
`IInv` of the expansion adds that `at` is past every slot appended so far and
`lastEnd[z]` past every slot of zone `z`: the two locals the code chooses the next start by.

`NoOverrun` and `RunWillEnd` rest on the list of the run. `ListInv` says it is in the order
of time, the event after a slot is due when the slot ends, the all-off is the last event and
nothing else is, and an event has fired if a later one has. While the list still grows,
the last slot ends where the loop is (`Growing`). So what a tick leaves open has its end in
an event that is not due yet, and a run that was taken over by hand still has its all-off to
come: `NextEvent` is the part that speaks of a run whose events a manual start left in place.
`NeverTwice` needs another argument: a tick takes only what is due by its own instant, and
whatever is listed later, by a reload, a midnight or a new process, is in the future of the
last tick or of a day that had none (`NInv`).

`CyclePlanProofs` has the facts about the operators: that the loop's choice exists
(`BestPicked`, by the well-ordering of the naturals), what a slot is (`SlotFacts`), and
what an iteration leaves (`AfterSlotFacts`, `SlotEventsFacts`).

`MemoryIsFile` is not inductive either: it speaks of a free lock. The `IInv` of the store
says where the document is at every step in between (`SaveInv`: until the rename `prev` is
in the file and the temporary file holds what was written so far; afterwards the file is
`cfg`), and that a file that can be opened has no predecessor that cannot be (`DiskInv`),
which is what a power cut relies on.

The properties of `Handlers` speak of the moments between requests, so their invariants say
what holds in the middle of them. For the exchange (`BInv`): a board that holds lines and is
opened for an exchange is not the one in use and is opened for nobody else, because `Free`
refuses lines that are held; `outMu` is taken exactly while a request is between `swap` and
`close`; and a valve on the old board is then closed, because the board holds its lines or
the request has seen it open (`wet`). `QuietEndIsDry` needs this: the valve `CloseBoard`
closes must be the one that is open. `SInv` follows one request for settings from place to place
(`BoardStage`, `PortStage`), which is enough because a second one makes the board and the
port doubtful for good.

What `DaysOn` and `DaysBack` compute, for any number of days or months, is proved by counting
up: a set of naturals that has 0 and with every number the next is all of them
(`CountingUp`, from the well-ordering of the naturals), and the set is that of the numbers for
which the fact holds. The recursive functions are taken apart in the same way: there is a
walk of every length (`WalkExists`), and a longer one begins as a shorter one (`WalksAgree`).
`NextDayBack`, that as many months back are at most three days fewer on the next day, is the
longest of these arguments: over the end of a month the months back gain that month and lose
the one that drops out (`NextMonthsBack`).

The three properties of `ZoneLog` rest on the same two facts about its steps. Where the
clock goes on (`TimePasses`), the starts between the two instants are exactly those of the
new day and minute that were listed, and all are logged, because the clock stops at every one;
`ListExact` says that the list is what the schedule has left of the day. Where it stands
(`TimeStands`), only a pruning takes rows, and whoever keeps a row keeps the later ones. So
`RowsAll` can say that after the day of any row none is missing. `PromiseInv` knows the date
of the announcement, of which the state has only the instant, and how far it has come
since; a pruning does not touch rows of the last two weeks, since a month has 28 days at least.
`PrunedInv` says that the last pruning by this setting was today or yesterday: a second midnight
would be later than the next pruning, at which the clock stops. What it left is then at most a
day and, by `NextDayBack`, three more too old.

`NothingUnnoticed` speaks of a bridge that sleeps. `NoticedInv` follows the pass: its
counters are never ahead of the engine's and the store's (`CountersBehind`), the client is that of
the snapshot the pass works with (`ClientOfSnapshot`), and if the store's counter is still the
one looked at, the snapshot is the configuration, or the pass knows it to be older
(`SnapshotCurrent`); the same for the rendered messages and both counters (`MessagesCurrent`), and, unless a
pass is about to publish them, for topics and entities. Each change of the store or the engine
moves a counter and so makes its part hold for want of a premise. `OnlineIsHonest` is nearly
inductive; `NoOtherClient` is what a connecting client relies on.

The assumptions are the named `ASSUME`s of `Engine` (`Parameters`) and `CycleSoak`
(`Inputs`): types of the constants, which `Config.Validate` enforces; of `ConfigStore`
`Parameters`, in the same way, and `WrittenByIt`: a document has every field its version
knew, as this program and its predecessors wrote them. Only `NothingMissing` uses the
latter. `Parameters` of `ZoneLog` has the first day in or after 1970 and schedules as
`Validate` lets them through; that of `Handlers` says that 0 is no zone and nobody no client. `WeatherParameters`
has answers as `internal/weather` reads them, numbers for the figures and 0 to 24 hours, and
`BridgeParameters` says of `None`, which stands for a topic that was never published and for no
client, that it is none of what may be published. The calendar needs no assumption: the code's arithmetic is
compared with the lengths of the months in every year there is. That it is right on every
day a run visits is one thing; an error in a formula of quotients by 4, 100 and 400 hides in the
days it does not, and the proof leaves none out.

Only model-checked: liveness, which is out of the prover's reach, that is `Ends`,
`AllOffInTheEnd`, `BoardCatchesUp`, `PassEnds`, `MirroredInTheEnd` and `CacheCatchesUp`.
Every invariant and every action property that a passing run checks is proved, and so is
the refinement of `ConfigRegister`.

## 5. Where code and documents disagree

1. **A manual run does not last until it is stopped** (`MCEngineManual`,
   `ManualUntilStopped`). `PLAN.md:61`, among the semantics the port must keep:
   "einzelne Zone an/aus, ohne Endzeit (bis manuell gestoppt)". `SetManualZone` leaves the
   events of a schedule run in `e.running`, so the manual run is taken over by that
   run's next slot or closed by its all-off.
2. **A waiting start does not fire once the run ends** (`MCEngineWaiting`,
   `WaitingStartStays`). The comment at `internal/engine/engine.go:552-553` says "this start
   stays queued [...] and fires once the run ends". Any reload in between drops it:
   `rebuildPendingLocked(false)` skips what is not in the future.
3. **A zone that never opened is in the log** (`MCEngineDryLog`, `LoggedZonesRan`).
   `PLAN.md:49`: "ein Eintrag pro gelaufener Zone". If the pump's pre-run is at least as
   long as a slot (120 seconds and one minute are both allowed), the step that opens the
   valve is discarded with the slot, and the slot is logged in full.
4. **A port that is saved does not always take effect** (`MCHandlersPort`, `PortInForce`).
   `README.md:83`: "Ein neuer Port (Einstellungen → System) greift sofort"; if it cannot be
   bound, the setting is reset. `putSettings` returns where the output cannot be exchanged
   (`internal/api/api.go:585-589`), before it looks at the port, and the settings stay
   stored. Another polarity of the same GPIO lines is such a change: the lines are still
   held by the old backend.
5. **A valve may be open when the daemon has ended** (`MCHandlersExit`, `ExitIsDry`).
   `cmd/sprinklerd/main.go:171`: "Safety: make sure every valve is off before exiting." The
   engine accepts calls after its `Shutdown`, and nothing waits for the MQTT bridge.

Seen while modelling and not a run of their own: two settings requests at once may leave a
stored port or board that is not in force, because each compares with a snapshot from
before the other (`api.go:558`); an exchange of one script for another that drives the same
relays closes the running valve with the old one's `Apply(0)`, after `SwapOutput` has
opened it through the new one, and the engine does not know (`main.go:109-112`; boards of
`Handlers` do not share relays). A publication is rendered from a snapshot that may be older
than the counter it is taken for (`bridge.go:55`, `:74`), and one made without a connection
counts as made (`:129`): both stay wrong until the next change, and lost discovery entries
until the next change of the configuration. After a change of the prefix "offline" goes to
the new prefix, and the old one stays online (`:120`). The rain delay stays "ON" when it has
run out (`messages.go:45`), and a new weather scale waits for some other change to be
published. On a day the month before does not have, the retention deletes up to three days
more than a month's rows (`logstore.go:79`). A forecast whose hours have no temperature is
accepted and counted as 0 °F, down to all 24 of them (`openmeteo.go:51`, `:110-115`), although
any other figure of the scale that is null makes it invalid, and
`TestOpenMeteoIncompleteResponse` asks that of an answer without them; today's rain, if OpenWeather does not tell it, counts as none
(`openweather.go:127-132`). A refresh that fails puts the scale back to 100, whatever the last
known result was (`cache.go:76`).

## 6. Not modelled, and the plan

Next, in this order:

1. An abstract irrigation specification (a controller that waters one zone at a time, for as
   long as it was told) which `Engine` implements.
2. In `Handlers`: a restore with another number of zones, a failing last `Apply`, a start of
   the daemon without its board, the rain delay request.

Left out for good: SQL queries, HTTP and JSON below the providers, device I/O below `Apply`,
webhook and metrics (nothing reads them back), the queue of `State()` (it feeds nothing back),
the web frontend, login and sessions (they guard the handlers and change nothing they do).

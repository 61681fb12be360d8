------------------------------- MODULE Engine -------------------------------
(***************************************************************************)
(* The irrigation engine of internal/engine/engine.go: the list of the      *)
(* day's schedule starts, the run they are expanded into, the pump's pre-   *)
(* and post-run, manual and quick runs, the latch that drives the board,    *)
(* and around it a configuration that changes under its feet, a clock that  *)
(* may be looked at late, an output that may fail and a process that may    *)
(* crash.                                                                   *)
(*                                                                          *)
(* Every exported method runs under the mutex e.mu and reads the clock and  *)
(* the configuration once, when it begins.  A method without a loop over    *)
(* the run is one action.  Tick and the two quick runs begin a pass: the    *)
(* iterations of the loops of startScheduleLocked ("expand") and            *)
(* processLocked ("fire") are the actions between the one that takes the    *)
(* lock and the one that gives it back, and no other method, no change of   *)
(* the configuration and no tick of the clock comes between them: each of   *)
(* those would commute with the rest of the pass, which reads neither.      *)
(*                                                                          *)
(* Time is counted in minutes.  An output state is the set of outputs that  *)
(* are on, Pump being bit 0 and z the bit of zone z.                        *)
(***************************************************************************)
EXTENDS CyclePlan, FiniteSets

CONSTANTS
  NumZones,        \* zones of every configuration (a restore that changes
                   \* their number is not part of this module)
  DayLen,          \* minutes of a day
  Configs,         \* the configurations the operator may save
  FirstConfigs,    \* those the process may be started with
  WeatherScales,   \* percentages the weather cache may return
  QuickDurations,  \* duration lists QuickRunDurations is called with
  ManualTimers,    \* timers SetManualZone is called with, 0 = none
  MaxTime,         \* bound: the clock stops here
  LastOpTime,      \* bound: operators act up to here
  MaxLag,          \* bound: minutes the loop's next tick may be late
  MaxOps,          \* bound: calls of operators and configuration changes
  MaxFaults        \* bound: failing Apply calls and crashes

Pump  == 0
Zones == 1 .. NumZones
Outs  == Zones \cup {Pump}

NoSched       == -1     \* schedID of a manual run and of no run
ScheduleQuick == 99

ScheduleSet ==
  [days : SUBSET Nat, starts : Seq(Nat), durations : Seq(Nat),
   cycle : Nat, soak : Nat, weatherAdjust : BOOLEAN]

ConfigSet ==
  [runSchedules : BOOLEAN, rainUntil : Nat, pumpPre : Nat, pumpPost : Nat,
   seasonal : Nat, zones : [Zones -> [enabled : BOOLEAN, pump : BOOLEAN]],
   schedules : Seq(ScheduleSet)]

\* What Config.Validate guarantees of a saved configuration.
ASSUME Parameters ==
  /\ NumZones \in Nat
  /\ DayLen \in Nat \ {0}
  /\ Configs \subseteq ConfigSet
  /\ FirstConfigs \subseteq Configs
  /\ WeatherScales \subseteq Nat
  /\ QuickDurations \subseteq Seq(Nat)
  /\ ManualTimers \subseteq Nat
  /\ MaxTime \in Nat /\ LastOpTime \in Nat /\ MaxLag \in Nat
  /\ MaxOps \in Nat /\ MaxFaults \in Nat

VARIABLES
  now,        \* the wall clock
  cfg,        \* the configuration in the store
  phase,      \* "new" until the first tick, "ticking", "stopped" after Shutdown
  lock,       \* "free", or the loop of the pass that holds e.mu
  lastDay,    \* e.lastDay
  pending,    \* e.pending without its done entries: the starts still to fire
  running,    \* e.running
  plan,       \* the local variables of startScheduleLocked
  runFor,     \* the schedID the run being expanded will have
  outSteps,   \* e.outSteps
  run,        \* e.run
  outState,   \* e.outState
  prevOut,    \* e.prevOut
  havePrev,   \* e.havePrev
  hw,         \* the outputs that are on at the board
  logged,     \* history: minutes the zone log has of each zone
  driven,     \* history: minutes each zone was commanded open
  consumed,   \* history: the starts fired or suppressed by a rain delay
  tickAt,     \* the time of the last tick
  ops,        \* counts towards MaxOps
  faults      \* counts towards MaxFaults

plans   == <<running, plan, runFor>>
outputs == <<outSteps, outState>>
board   == <<prevOut, havePrev, hw>>
bounds  == <<tickAt, ops, faults>>
vars    == <<now, cfg, phase, lock, lastDay, pending, plans, outputs, run, board,
             logged, driven, consumed, bounds>>

NoPlan == NewPlan([z \in Zones |-> 0], 0, 0, 0)
NoRun(t) == [mode |-> "idle", sched |-> NoSched, zone |-> 0, endAt |-> Never, since |-> t]

Day(t)      == t \div DayLen
Midnight(t) == DayLen * Day(t)

-----------------------------------------------------------------------------
(* The list of starts.  The array's order is that of schedules and, within  *)
(* one, of its start times; a start is the minute it is due and its place.  *)

Start(s, k, t) == [sched |-> s, slot |-> k, at |-> t]

StartsOf(c, t) ==
  UNION {{Start(s, k, Midnight(t) + c.schedules[s].starts[k]) :
             k \in DOMAIN c.schedules[s].starts} :
          s \in {s \in DOMAIN c.schedules : Day(t) \in c.schedules[s].days}}

\* A slip: a reload also takes the starts that are over.
RebuiltWithPast(includePast) ==
  IF cfg.runSchedules THEN StartsOf(cfg, now) ELSE {}

Rebuilt(includePast) ==
  IF cfg.runSchedules
  THEN {s \in StartsOf(cfg, now) : includePast \/ s.at > now}
  ELSE {}

\* The order of the array.
Before(a, b) == a.sched < b.sched \/ (a.sched = b.sched /\ a.slot < b.slot)

Due(starts)  == {s \in starts : s.at <= now}
Known(s)     == s.sched \in DOMAIN cfg.schedules
RainDelayed  == now < cfg.rainUntil

\* The start the loop over the array expands, if no run is in its way: the
\* first due one that names a schedule.  Due ones before it are dropped.
Fires(starts, s) ==
  /\ s \in Due(starts) /\ Known(s)
  /\ \A d \in Due(starts) : Before(d, s) => ~Known(d)

Passed(starts, s) == {d \in Due(starts) : d = s \/ Before(d, s)}

-----------------------------------------------------------------------------
(* Outputs.                                                                 *)

NeedsPreRun(target, cur) ==
  cfg.pumpPre > 0 /\ Pump \in target /\ Pump \notin cur /\ target # {Pump}

NeedsPostRun(target, cur) ==
  cfg.pumpPost > 0 /\ target = {} /\ Pump \in cur /\ cur # {Pump}

Step(t, target) == [at |-> t, state |-> target]

\* A slip: the steps queued for the last target are left in the queue.
SetOutputsKeepSteps(target) ==
  \/ /\ NeedsPreRun(target, outState)
     /\ outState' = {Pump}
     /\ outSteps' = <<Step(now + cfg.pumpPre, target)>>
  \/ /\ ~NeedsPreRun(target, outState)
     /\ outState' = target
     /\ UNCHANGED outSteps

\* setOutputsLocked: move towards target, by way of the pump alone before the
\* first valve opens and after the last one closed.
SetOutputs(target) ==
  \/ /\ NeedsPreRun(target, outState)
     /\ outState' = {Pump}
     /\ outSteps' = <<Step(now + cfg.pumpPre, target)>>
  \/ /\ NeedsPostRun(target, outState)
     /\ outState' = {Pump}
     /\ outSteps' = <<Step(now + cfg.pumpPost, {})>>
  \/ /\ ~NeedsPreRun(target, outState)
     /\ ~NeedsPostRun(target, outState)
     /\ outState' = target
     /\ outSteps' = << >>

ValvesOf(z) == IF cfg.zones[z].pump THEN {z, Pump} ELSE {z}

OutputsOff == outState' = {} /\ outSteps' = << >>

\* processLocked's first loop; the queue never holds more than one step.
ApplySteps ==
  \/ /\ outSteps # << >> /\ outSteps[1].at <= now
     /\ outState' = outSteps[1].state
     /\ outSteps' = Tail(outSteps)
  \/ /\ outSteps # << >> => now < outSteps[1].at
     /\ UNCHANGED outputs

\* A slip: what the board refused counts as applied.
LatchOnForgetting(b, known) ==
  /\ prevOut' = outState' /\ havePrev' = TRUE
  /\ \/ known /\ prevOut = outState' /\ hw' = b /\ UNCHANGED faults
     \/ ~(known /\ prevOut = outState') /\ hw' = outState' /\ UNCHANGED faults
     \/ /\ ~(known /\ prevOut = outState')
        /\ faults < MaxFaults
        /\ hw' = b /\ faults' = faults + 1

\* latchLocked: hand the outputs to the board unless it is known to have them.
\* A failing Apply leaves everything as it was, for the next tick to retry.
LatchOn(b, known) ==
  \/ /\ known /\ prevOut = outState'
     /\ hw' = b /\ UNCHANGED <<prevOut, havePrev, faults>>
  \/ /\ ~(known /\ prevOut = outState')
     /\ hw' = outState' /\ prevOut' = outState' /\ havePrev' = TRUE
     /\ UNCHANGED faults
  \/ /\ ~(known /\ prevOut = outState')
     /\ faults < MaxFaults
     /\ hw' = b /\ havePrev' = known /\ faults' = faults + 1
     /\ UNCHANGED prevOut

Latch == LatchOn(hw, havePrev)

-----------------------------------------------------------------------------
(* The run state.  Each transition of it logs the zone that ran until now.  *)

\* A slip: the minutes are counted from the wrong end.
ElapsedNegative(z) == IF run.zone = z THEN run.since - now ELSE 0

Elapsed(z) == IF run.zone = z THEN now - run.since ELSE 0

LogRun == logged' = [z \in Zones |-> logged[z] + Elapsed(z)]

ClearRun == LogRun /\ run' = NoRun(now)

ContinueSchedule(z, end) ==
  /\ LogRun
  /\ run' = [mode |-> "schedule", sched |-> run.sched, zone |-> z, endAt |-> end,
             since |-> now]

\* A slip: the chunk that ends with a pause is not logged.
PauseRunUnlogged ==
  /\ UNCHANGED logged
  /\ run' = [run EXCEPT !.zone = 0, !.endAt = Never, !.since = now]

PauseRun == ContinueSchedule(0, Never)

SetManual(z, end) ==
  /\ LogRun
  /\ run' = [mode |-> "manual", sched |-> NoSched, zone |-> z, endAt |-> end, since |-> now]

-----------------------------------------------------------------------------
(* Starting a run: from here to the end of the expansion the pass only      *)
(* touches running and plan.                                                *)

ScaledDurations(s, weather) ==
  [z \in DOMAIN s.durations |->
     Scaled(s.durations[z], cfg.seasonal, IF s.weatherAdjust THEN weather ELSE 100)]

StartSchedule(s) ==
  \E weather \in WeatherScales :
    LET sched == cfg.schedules[s] IN
    /\ plan' = NewPlan(Demand(cfg.zones, ScaledDurations(sched, weather)),
                       sched.cycle, sched.soak, now)
    /\ runFor' = s
    /\ running' = << >>
    /\ lock' = "expand"

StartQuick(durations) ==
  /\ plan' = NewPlan(Demand(cfg.zones, durations), 0, 0, now)
  /\ runFor' = ScheduleQuick
  /\ running' = << >>
  /\ lock' = "expand"

-----------------------------------------------------------------------------
(* The process starts, with a board in whatever state the last one left it. *)

Init ==
  /\ now = 0
  /\ cfg \in FirstConfigs
  /\ hw \in {{}, Outs}
  /\ consumed = {}
  /\ tickAt = 0 /\ ops = 0 /\ faults = 0
  /\ phase = "new" /\ lock = "free" /\ lastDay = 0 /\ pending = {}
  /\ running = << >> /\ plan = NoPlan /\ runFor = NoSched
  /\ outSteps = << >> /\ outState = {} /\ prevOut = {} /\ havePrev = FALSE
  /\ run = NoRun(0)
  /\ logged = [z \in Zones |-> 0] /\ driven = [z \in Zones |-> 0]

-----------------------------------------------------------------------------
(* A pass: Tick or a quick run, the loops, and the latch that ends it.      *)

NoStart == lock' = "fire" /\ UNCHANGED plans

\* The loop over the starts of processLocked.
ProcessPending(starts) ==
  \/ /\ RainDelayed
     /\ pending' = starts \ Due(starts)
     /\ consumed' = consumed \cup Due(starts)
     /\ NoStart
  \/ /\ ~RainDelayed
     /\ run.mode = "schedule"
     /\ pending' = starts
     /\ NoStart /\ UNCHANGED consumed
  \/ /\ ~RainDelayed
     /\ run.mode # "schedule"
     /\ \E s \in starts :
          /\ Fires(starts, s)
          /\ pending' = starts \ Passed(starts, s)
          /\ consumed' = consumed \cup Passed(starts, s)
          /\ StartSchedule(s.sched)
  \/ /\ ~RainDelayed
     /\ run.mode # "schedule"
     /\ \A s \in Due(starts) : ~Known(s)
     /\ pending' = starts \ Due(starts)
     /\ consumed' = consumed \cup Due(starts)
     /\ NoStart

\* The starts a tick works on: the first tick of a process takes those still to
\* come, the first of a day all of that day's.
TodaysStarts ==
  IF phase = "new" THEN Rebuilt(FALSE)
  ELSE IF Day(now) # lastDay THEN Rebuilt(TRUE)
  ELSE pending

Tick ==
  /\ phase \in {"new", "ticking"}
  /\ lock = "free"
  /\ phase' = "ticking"
  /\ lastDay' = Day(now)
  /\ tickAt' = now
  /\ ApplySteps
  /\ ProcessPending(TodaysStarts)
  /\ UNCHANGED <<now, cfg, run, board, logged, driven, ops, faults>>

\* startScheduleLocked's loop, and what follows it.
ExpandSlot ==
  /\ lock = "expand"
  /\ Thirsty(plan) # {}
  /\ running' = running \o SlotEvents(plan)
  /\ plan' = AfterSlot(plan)
  /\ UNCHANGED <<now, cfg, phase, lock, lastDay, pending, runFor, outputs, run, board,
                 logged, driven, consumed, bounds>>

\* A slip: the run is left without its closing all-off.
BeginRunOpenEnded ==
  /\ lock = "expand"
  /\ Thirsty(plan) = {}
  /\ lock' = "fire"
  /\ plan' = NoPlan /\ runFor' = NoSched
  /\ LogRun
  /\ run' = [mode |-> "schedule", sched |-> runFor, zone |-> 0, endAt |-> Never,
             since |-> now]
  /\ UNCHANGED <<now, cfg, phase, lastDay, pending, running, outputs, board, driven,
                 consumed, bounds>>

BeginRun ==
  /\ lock = "expand"
  /\ Thirsty(plan) = {}
  /\ lock' = "fire"
  /\ running' = Append(running, AllOff(plan.at))
  /\ plan' = NoPlan /\ runFor' = NoSched
  /\ LogRun
  /\ run' = [mode |-> "schedule", sched |-> runFor, zone |-> 0, endAt |-> Never,
             since |-> now]
  /\ UNCHANGED <<now, cfg, phase, lastDay, pending, outputs, board, driven, consumed, bounds>>

\* processLocked's loop over the events of the run.
DueEvents == {i \in DOMAIN running : ~running[i].done /\ running[i].at <= now}

FirstDue(i) == i \in DueEvents /\ \A j \in DueEvents : i <= j

\* A slip: the event fired is not marked as done.
FireUnmarked(i, kind) ==
  /\ lock = "fire"
  /\ FirstDue(i)
  /\ running[i].kind = kind
  /\ UNCHANGED <<now, cfg, phase, lock, lastDay, pending, plans, board, driven,
                 consumed, bounds>>

Fire(i, kind) ==
  /\ lock = "fire"
  /\ FirstDue(i)
  /\ running[i].kind = kind
  /\ running' = [running EXCEPT ![i].done = TRUE]
  /\ UNCHANGED <<now, cfg, phase, lock, lastDay, pending, plan, runFor, board, driven,
                 consumed, bounds>>

FireZoneOn ==
  \E i \in DOMAIN running :
    /\ Fire(i, "on")
    /\ SetOutputs(ValvesOf(running[i].zone))
    /\ ContinueSchedule(running[i].zone, running[i].endAt)

FirePause ==
  \E i \in DOMAIN running :
    /\ Fire(i, "pause")
    /\ SetOutputs({})
    /\ PauseRun

FireAllOff ==
  \E i \in DOMAIN running :
    /\ Fire(i, "off")
    /\ SetOutputs({})
    /\ ClearRun

\* A slip: the timer expires a minute late.
ManualExpiredLate == run.mode = "manual" /\ run.endAt # Never /\ run.endAt < now

ManualExpired == run.mode = "manual" /\ run.endAt # Never /\ run.endAt <= now

ExpireManual ==
  /\ lock = "fire" /\ DueEvents = {}
  /\ ManualExpired
  /\ lock' = "free"
  /\ SetOutputs({})
  /\ ClearRun
  /\ Latch
  /\ UNCHANGED <<now, cfg, phase, lastDay, pending, plans, driven, consumed, tickAt, ops>>

EndPass ==
  /\ lock = "fire" /\ DueEvents = {}
  /\ ~ManualExpired
  /\ lock' = "free"
  /\ UNCHANGED <<outputs, run, logged>>
  /\ Latch
  /\ UNCHANGED <<now, cfg, phase, lastDay, pending, plans, driven, consumed, tickAt, ops>>

-----------------------------------------------------------------------------
(* What operators call, through the API or MQTT.                            *)

Call ==
  /\ lock = "free" /\ phase # "new"
  /\ ops < MaxOps /\ now <= LastOpTime
  /\ ops' = ops + 1
  /\ UNCHANGED <<now, lastDay, driven, consumed, tickAt>>

Reload ==
  /\ Call
  /\ pending' = Rebuilt(FALSE)
  /\ UNCHANGED <<cfg, phase, lock, plans, outputs, run, logged>>
  /\ Latch

StopAll ==
  /\ Call
  /\ running' = << >>
  /\ OutputsOff
  /\ ClearRun
  /\ pending' = Rebuilt(FALSE)
  /\ Latch
  /\ UNCHANGED <<cfg, phase, lock, plan, runFor>>

SetManualOn(z, timer) ==
  /\ Call
  /\ SetOutputs(ValvesOf(z))
  /\ SetManual(z, IF timer > 0 THEN now + timer ELSE Never)
  /\ Latch
  /\ UNCHANGED <<cfg, phase, lock, pending, plans>>

SetManualOff ==
  /\ Call
  /\ SetOutputs({})
  /\ ClearRun
  /\ Latch
  /\ UNCHANGED <<cfg, phase, lock, pending, plans>>

\* Both quick runs: whatever runs is cut off, the outputs without a post-run.
QuickRun ==
  /\ Call
  /\ ClearRun
  /\ OutputsOff
  /\ pending' = Rebuilt(FALSE)
  /\ UNCHANGED <<cfg, phase, board, faults>>

QuickRunSchedule(s) == s \in DOMAIN cfg.schedules /\ QuickRun /\ StartSchedule(s)

QuickRunDurations(durations) == QuickRun /\ StartQuick(durations)

\* A new backend: one whose outputs are off, or one on the same relays.
SwapOutput ==
  /\ Call
  /\ UNCHANGED <<cfg, phase, lock, pending, plans, outputs, run, logged>>
  /\ \E b \in {{}, hw} : LatchOn(b, FALSE)

Shutdown ==
  /\ Call
  /\ phase' = "stopped"
  /\ pending' = {}
  /\ running' = << >>
  /\ OutputsOff
  /\ ClearRun
  /\ Latch
  /\ UNCHANGED <<cfg, lock, plan, runFor>>

\* The store takes a new configuration; the engine learns of it when the
\* handler gets to calling it, if it does.
SaveConfig ==
  /\ Call
  /\ cfg' \in Configs \ {cfg}
  /\ UNCHANGED <<phase, lock, pending, plans, outputs, run, board, logged, faults>>

-----------------------------------------------------------------------------
(* The world around.                                                        *)

AdvanceClock ==
  /\ lock = "free"
  /\ now < MaxTime
  /\ phase = "ticking" => now - tickAt < MaxLag
  /\ now' = now + 1
  /\ driven' = [z \in Zones |-> driven[z] + IF z \in outState THEN 1 ELSE 0]
  /\ UNCHANGED <<cfg, phase, lock, lastDay, pending, plans, outputs, run, board, logged,
                 consumed, bounds>>

\* The process dies, at any point of a pass, and is started again: a relay board
\* holds its outputs, lines of a GPIO chip may fall back.
Crash ==
  /\ phase # "new"
  /\ faults < MaxFaults
  /\ faults' = faults + 1
  /\ hw' \in {hw, {}}
  /\ phase' = "new" /\ lock' = "free" /\ lastDay' = 0 /\ pending' = {}
  /\ running' = << >> /\ plan' = NoPlan /\ runFor' = NoSched
  /\ outSteps' = << >> /\ outState' = {} /\ prevOut' = {} /\ havePrev' = FALSE
  /\ run' = NoRun(now)
  /\ logged' = [z \in Zones |-> 0] /\ driven' = [z \in Zones |-> 0]
  /\ UNCHANGED <<now, cfg, consumed, tickAt, ops>>

-----------------------------------------------------------------------------
Pass == ExpandSlot \/ BeginRun \/ FireZoneOn \/ FirePause \/ FireAllOff \/ ExpireManual \/ EndPass

Operate ==
  \/ Reload \/ StopAll \/ SetManualOff \/ SwapOutput \/ Shutdown \/ SaveConfig
  \/ \E z \in Zones, timer \in ManualTimers : SetManualOn(z, timer)
  \/ \E s \in 1 .. Len(cfg.schedules) : QuickRunSchedule(s)
  \/ \E d \in QuickDurations : QuickRunDurations(d)

Next == Tick \/ Pass \/ Operate \/ AdvanceClock \/ Crash

Spec == Init /\ [][Next]_vars

\* The loop's goroutine is scheduled again and again while it has not ended, a
\* method runs to its end once it has the lock, and the clock goes on however
\* often somebody else has the lock when it does.
FairSpec == Spec /\ WF_vars(Tick) /\ WF_vars(Pass) /\ SF_vars(AdvanceClock)

-----------------------------------------------------------------------------
(* Properties.                                                              *)

StartSet == [sched : Nat \ {0}, slot : Nat \ {0}, at : Nat]

StepSet == [at : Nat, state : SUBSET Outs]

RunSet ==
  [mode : {"idle", "schedule", "manual"}, sched : Int, zone : Outs,
   endAt : Nat \cup {Never}, since : Nat]

\* The shape of the state: one type per variable, and at most one deferred
\* output step.
TypeOK ==
  /\ now \in Nat /\ cfg \in Configs
  /\ phase \in {"new", "ticking", "stopped"}
  /\ lock \in {"free", "expand", "fire"}
  /\ lastDay \in Nat
  /\ pending \subseteq StartSet
  /\ running \in Seq(EventsOf(Zones))
  /\ plan \in PlansOf(Zones)
  /\ runFor \in Int
  /\ outSteps \in Seq(StepSet) /\ Len(outSteps) <= 1
  /\ run \in RunSet
  /\ outState \subseteq Outs /\ prevOut \subseteq Outs /\ hw \subseteq Outs
  /\ havePrev \in BOOLEAN
  /\ logged \in [Zones -> Nat] /\ driven \in [Zones -> Nat]
  /\ consumed \subseteq StartSet
  /\ tickAt \in Nat /\ ops \in Nat /\ faults \in Nat

Closed ==
  \/ outState = {} /\ outSteps = << >>
  \/ outState = {Pump} /\ outSteps # << >> /\ outSteps[1].state = {}

OpenFor(z) ==
  \/ outState \in {{z}, {z, Pump}} /\ outSteps = << >>
  \/ outState = {Pump} /\ outSteps # << >> /\ outSteps[1].state = {z, Pump}

\* Between two methods the commanded outputs are those of the run: no valve but
\* the one of the zone that runs, never two, and the pump alone only while the
\* step that opens that valve, or closes everything, is still queued.  Whatever
\* was interrupted by what, setOutputsLocked's queue never outlives its run.
OutputsFollowRun ==
  lock = "free" => IF run.zone = 0 THEN Closed ELSE OpenFor(run.zone)

\* No valve is open off the books: the minutes a zone was commanded open are in
\* the zone log, or belong to the run that will be logged when it ends
\* (logRunLocked at every transition of the run state).
WaterAccounted == \A z \in Zones : driven[z] <= logged[z] + Elapsed(z)

\* A start that fired, or was suppressed by a rain delay, is never in the list
\* again: not after a reload, not at midnight, not after a crash and restart.
NeverTwice == pending \cap consumed = {}

\* A run that blocks the schedules has its end in store: while e.run is a
\* schedule's, the closing all-off is still to be fired, after the current slot.
RunWillEnd ==
  (lock = "free" /\ run.mode = "schedule") =>
    \E i \in DOMAIN running : /\ running[i].kind = "off" /\ ~running[i].done
                              /\ run.endAt # Never => run.endAt <= running[i].at

\* After a tick no zone is open past the end it was given, be it a slot's or a
\* manual timer's, however late the tick came and whatever was called before it.
NoOverrun ==
  (lock = "free" /\ phase = "ticking" /\ tickAt = now /\ run.zone # 0 /\ run.endAt # Never)
     => now < run.endAt

\* A pass comes to its end, however many events are due at once: the mutex is
\* given back.
PassEnds == (lock # "free") ~> (lock = "free")

\* A failed Apply is made up for: as long as the loop ticks, the board gets the
\* commanded outputs, also on a new backend and after a restart over open valves.
BoardCatchesUp ==
  [](phase # "stopped") => []<>(havePrev /\ hw = outState)

UnlimitedManual == run.mode = "manual" /\ run.endAt = Never

\* Watering ends by itself: once nobody calls any more, all outputs of the board
\* go off, unless a manual run without a timer is left on or the loop has ended.
AllOffInTheEnd == <>[](hw = {} \/ UnlimitedManual \/ phase = "stopped")

-----------------------------------------------------------------------------
(* What the documentation says and the code does not do: see the README.    *)

\* PLAN.md:61: a manual run goes on until it is stopped by hand; so only a
\* call, a schedule that starts, or a crash may end one without a timer.
ManualUntilStopped ==
  [][UnlimitedManual /\ run' # run => ops' # ops \/ lock = "expand" \/ phase' = "new"]_vars

\* engine.go:552-553: a start that is due while another schedule runs stays
\* queued and fires once the run ends; so it stays while that run goes on.
WaitingStartStays ==
  [][\A s \in Due(pending) :
       (run.mode = "schedule" /\ run' = run /\ ~RainDelayed) => s \in pending']_vars

\* PLAN.md:48-49: the zone log has an entry for each zone that ran; so a zone it
\* has minutes of was open at some time.
LoggedZonesRan == \A z \in Zones : logged[z] > 0 => driven[z] > 0
=============================================================================

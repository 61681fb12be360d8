---------------------------- MODULE EngineProofs ----------------------------
(* What holds of Engine for every number of zones, every configuration and  *)
(* every bound.                                                             *)
EXTENDS Engine, CyclePlanProofs, SequenceTheorems, TLAPS

-----------------------------------------------------------------------------
(* The operators of the model: types.                                       *)

\* Dividing naturals gives a natural.
LEMMA DivNat ==
  ASSUME NEW a \in Nat, NEW d \in Nat \ {0}
  PROVE  a \div d \in Nat
OBVIOUS

\* So does multiplying them.
LEMMA TimesNat ==
  ASSUME NEW a \in Nat, NEW b \in Nat
  PROVE  a * b \in Nat
OBVIOUS

\* A scaled duration is a number of minutes, whatever the percentages.
LEMMA ScaledType ==
  ASSUME NEW d \in Nat, NEW seasonal \in Nat, NEW weather \in Nat
  PROVE  Scaled(d, seasonal, weather) \in Nat
<1>1. (seasonal * weather) \div 100 \in Nat
  BY TimesNat, DivNat
<1>2. d * ((seasonal * weather) \div 100) \in Nat
  BY <1>1, TimesNat
<1>3. QED
  BY <1>2 DEF Scaled, Least, MaxZoneMinutes

\* Zones are the outputs above the pump's bit.
LEMMA ZonesAreNat == Zones \subseteq Nat \ {0} /\ Pump \in Outs /\ Zones \subseteq Outs
BY Parameters DEF Zones, Outs, Pump

\* A configuration that can be saved, part by part.
LEMMA ConfigType ==
  ASSUME NEW c \in Configs
  PROVE  /\ c.runSchedules \in BOOLEAN /\ c.rainUntil \in Nat
         /\ c.pumpPre \in Nat /\ c.pumpPost \in Nat /\ c.seasonal \in Nat
         /\ c.zones \in [Zones -> [enabled : BOOLEAN, pump : BOOLEAN]]
         /\ c.schedules \in Seq(ScheduleSet)
BY Parameters DEF ConfigSet

\* The outputs of a zone are outputs of the board.
LEMMA ValvesType == ASSUME NEW z \in Zones PROVE ValvesOf(z) \subseteq Outs
BY ZonesAreNat DEF ValvesOf

\* An idle run state is one (clearRunLocked).
LEMMA NoRunType ==
  ASSUME NEW t \in Nat
  PROVE  NoRun(t) \in RunSet
BY ZonesAreNat DEF NoRun, NoSched, Pump, RunSet

\* The loop of startScheduleLocked begins with a well-formed plan.
LEMMA NewPlanType ==
  ASSUME NEW demand \in [Zones -> Nat], NEW cycle \in Nat, NEW soak \in Nat, NEW t \in Nat
  PROVE  NewPlan(demand, cycle, soak, t) \in PlansOf(Zones)
BY DEF NewPlan, PlansOf

\* Between two expansions the plan is well formed.
LEMMA NoPlanType == NoPlan \in PlansOf(Zones)
BY NewPlanType DEF NoPlan

\* The list of starts rebuilt from any configuration.
LEMMA RebuiltType ==
  ASSUME TypeOK, NEW past \in BOOLEAN
  PROVE  Rebuilt(past) \subseteq StartSet
<1>1. Midnight(now) \in Nat
  BY Parameters, DivNat, TimesNat DEF Midnight, Day, TypeOK
<1>2. ASSUME NEW s \in DOMAIN cfg.schedules, NEW k \in DOMAIN cfg.schedules[s].starts
      PROVE  Start(s, k, Midnight(now) + cfg.schedules[s].starts[k]) \in StartSet
  <2>1. s \in Nat \ {0} /\ cfg.schedules[s] \in ScheduleSet
    BY ConfigType DEF TypeOK
  <2>2. k \in Nat \ {0} /\ cfg.schedules[s].starts[k] \in Nat
    BY <2>1 DEF ScheduleSet
  <2>3. QED
    BY <1>1, <2>1, <2>2 DEF Start, StartSet
<1>3. StartsOf(cfg, now) \subseteq StartSet
  BY <1>2 DEF StartsOf
<1>4. QED
  BY <1>3 DEF Rebuilt

\* What the expansion of a schedule starts from, whatever the weather says.
LEMMA StartScheduleType ==
  ASSUME TypeOK, NEW s \in DOMAIN cfg.schedules, StartSchedule(s)
  PROVE  /\ plan' \in PlansOf(Zones) /\ plan'.at = now
         /\ runFor' \in Int /\ running' = << >> /\ lock' = "expand"
<1> DEFINE sched == cfg.schedules[s]
<1>1. s \in Nat /\ sched \in ScheduleSet
  BY ConfigType DEF TypeOK
<1>2. PICK weather \in WeatherScales :
        plan' = NewPlan(Demand(cfg.zones, ScaledDurations(sched, weather)),
                        sched.cycle, sched.soak, now)
  BY DEF StartSchedule
<1>3. Demand(cfg.zones, ScaledDurations(sched, weather)) \in [Zones -> Nat]
  <2>1. \A z \in DOMAIN sched.durations : sched.durations[z] \in Nat
    BY <1>1 DEF ScheduleSet
  <2>2. weather \in Nat /\ cfg.seasonal \in Nat /\ DOMAIN cfg.zones = Zones
    BY Parameters, ConfigType DEF TypeOK
  <2>3. \A z \in DOMAIN sched.durations : ScaledDurations(sched, weather)[z] \in Nat
    BY <2>1, <2>2, ScaledType DEF ScaledDurations
  <2>4. DOMAIN ScaledDurations(sched, weather) = DOMAIN sched.durations
    BY DEF ScaledDurations
  <2>5. QED
    BY <2>2, <2>3, <2>4 DEF Demand
<1>4. sched.cycle \in Nat /\ sched.soak \in Nat /\ now \in Nat
  BY <1>1 DEF ScheduleSet, TypeOK
<1>5. plan' \in PlansOf(Zones) /\ plan'.at = now
  BY <1>2, <1>3, <1>4, NewPlanType DEF NewPlan
<1>6. QED
  BY <1>1, <1>5 DEF StartSchedule

\* What the expansion of a quick run starts from.
LEMMA StartQuickType ==
  ASSUME TypeOK, NEW durations \in QuickDurations, StartQuick(durations)
  PROVE  /\ plan' \in PlansOf(Zones) /\ plan'.at = now
         /\ runFor' \in Int /\ running' = << >> /\ lock' = "expand"
<1>1. Demand(cfg.zones, durations) \in [Zones -> Nat]
  BY Parameters, ConfigType DEF Demand, TypeOK
<1>2. plan' \in PlansOf(Zones)
  BY <1>1, NewPlanType DEF StartQuick, TypeOK
<1>3. QED
  BY <1>2 DEF StartQuick, NewPlan, ScheduleQuick

-----------------------------------------------------------------------------
(* The parts of the actions: types.                                         *)

\* setOutputsLocked leaves outputs of the board and at most one deferred step.
LEMMA SetOutputsType ==
  ASSUME TypeOK, NEW target \in SUBSET Outs, SetOutputs(target)
  PROVE  outState' \subseteq Outs /\ outSteps' \in Seq(StepSet) /\ Len(outSteps') <= 1
<1>1. now + cfg.pumpPre \in Nat /\ now + cfg.pumpPost \in Nat
  BY ConfigType DEF TypeOK
<1>2. {Pump} \subseteq Outs /\ {} \subseteq Outs
  BY ZonesAreNat
<1>3. \A t \in Nat, o \in SUBSET Outs : Step(t, o) \in StepSet
  BY DEF Step, StepSet
<1>4. \A st \in StepSet : <<st>> \in Seq(StepSet) /\ Len(<<st>>) = 1
  OBVIOUS
<1>5. << >> \in Seq(StepSet) /\ Len(<< >>) = 0
  OBVIOUS
<1>6. CASE outState' = {Pump} /\ outSteps' = <<Step(now + cfg.pumpPre, target)>>
  BY <1>1, <1>2, <1>3, <1>4, <1>6
<1>7. CASE outState' = {Pump} /\ outSteps' = <<Step(now + cfg.pumpPost, {})>>
  BY <1>1, <1>2, <1>3, <1>4, <1>7
<1>8. CASE outState' = target /\ outSteps' = << >>
  BY <1>5, <1>8
<1>9. QED
  BY <1>6, <1>7, <1>8 DEF SetOutputs

\* So does applying a deferred step.
LEMMA ApplyStepsType ==
  ASSUME TypeOK, ApplySteps
  PROVE  outState' \subseteq Outs /\ outSteps' \in Seq(StepSet) /\ Len(outSteps') <= 1
<1>1. outSteps \in Seq(StepSet) /\ Len(outSteps) <= 1
  BY DEF TypeOK, StepSet
<1>2. CASE outSteps # << >> /\ outState' = outSteps[1].state /\ outSteps' = Tail(outSteps)
  <2>1. outSteps[1] \in StepSet
    BY <1>1, <1>2
  <2>2. outSteps' \in Seq(StepSet) /\ Len(outSteps') = Len(outSteps) - 1
    BY <1>1, <1>2, HeadTailProperties
  <2>3. QED
    BY <1>1, <1>2, <2>1, <2>2 DEF StepSet
<1>3. CASE UNCHANGED outputs
  BY <1>1, <1>3 DEF outputs, TypeOK
<1>4. QED
  BY <1>2, <1>3 DEF ApplySteps

\* latchLocked hands over outputs of the board, whether Apply fails or not.
LEMMA LatchType ==
  ASSUME TypeOK, outState' \subseteq Outs, NEW b \in SUBSET Outs, NEW known \in BOOLEAN,
         LatchOn(b, known)
  PROVE  /\ hw' \subseteq Outs /\ prevOut' \subseteq Outs
         /\ havePrev' \in BOOLEAN /\ faults' \in Nat
<1>1. prevOut \subseteq Outs /\ havePrev \in BOOLEAN /\ faults \in Nat /\ faults + 1 \in Nat
  BY DEF TypeOK
<1>2. CASE hw' = b /\ UNCHANGED <<prevOut, havePrev, faults>>
  BY <1>1, <1>2
<1>3. CASE hw' = outState' /\ prevOut' = outState' /\ havePrev' = TRUE /\ UNCHANGED faults
  BY <1>1, <1>3
<1>4. CASE hw' = b /\ havePrev' = known /\ faults' = faults + 1 /\ UNCHANGED prevOut
  BY <1>1, <1>4
<1>5. QED
  BY <1>2, <1>3, <1>4 DEF LatchOn

\* logRunLocked never logs a negative duration.
LEMMA LogRunType ==
  ASSUME TypeOK, run.since <= now, LogRun
  PROVE  logged' \in [Zones -> Nat]
<1>1. now - run.since \in Nat
  BY DEF TypeOK, RunSet
<1>2. \A z \in Zones : logged[z] \in Nat /\ Elapsed(z) \in Nat
  BY <1>1 DEF TypeOK, Elapsed
<1>3. QED
  BY <1>2 DEF LogRun

\* The transitions of the run state that a pass and the calls are made of.
LEMMA ClearRunType ==
  ASSUME TypeOK, run.since <= now, ClearRun
  PROVE  logged' \in [Zones -> Nat] /\ run' \in RunSet /\ run'.since = now
BY LogRunType, NoRunType DEF ClearRun, NoRun, TypeOK

\* A slot, or a pause, makes a well-formed run state (continueScheduleLocked).
LEMMA ContinueScheduleType ==
  ASSUME TypeOK, run.since <= now, NEW z \in Outs, NEW end \in Nat \cup {Never},
         ContinueSchedule(z, end)
  PROVE  logged' \in [Zones -> Nat] /\ run' \in RunSet /\ run'.since = now
BY LogRunType DEF ContinueSchedule, RunSet, TypeOK

\* So does a manual run, with a timer or without (setManualLocked).
LEMMA SetManualType ==
  ASSUME TypeOK, run.since <= now, NEW z \in Outs, NEW end \in Nat \cup {Never},
         SetManual(z, end)
  PROVE  logged' \in [Zones -> Nat] /\ run' \in RunSet /\ run'.since = now
BY LogRunType DEF SetManual, NoSched, RunSet, TypeOK

-----------------------------------------------------------------------------
(* Type correctness.  What is logged is a natural number because no run      *)
(* begins in the future.                                                     *)

TInv == TypeOK /\ run.since <= now

\* The process starts well typed.
LEMMA InitTInv == Init => TInv
<1> SUFFICES ASSUME Init PROVE TInv
  OBVIOUS
<1>1. NoPlan \in PlansOf(Zones) /\ NoRun(0) \in RunSet /\ NoRun(0).since = 0
  BY NoPlanType, NoRunType DEF NoRun
<1>2. << >> \in Seq(EventsOf(Zones)) /\ << >> \in Seq(StepSet) /\ Len(<< >>) = 0
  OBVIOUS
<1>3. cfg \in Configs /\ hw \subseteq Outs
  BY Parameters DEF Init
<1>4. logged \in [Zones -> Nat] /\ driven \in [Zones -> Nat]
  BY DEF Init
<1>5. havePrev \in BOOLEAN
  BY DEF Init
<1>6. runFor \in Int /\ consumed \subseteq StartSet
  BY DEF Init, NoSched
<1>7. now \in Nat /\ run.since <= now
  BY <1>1 DEF Init
<1>8. QED
  BY <1>1, <1>2, <1>3, <1>4, <1>5, <1>6, <1>7 DEF Init, TInv, TypeOK

\* A step of the pass over the list of starts.
LEMMA ProcessPendingType ==
  ASSUME TypeOK, NEW starts \in SUBSET StartSet, ProcessPending(starts)
  PROVE  /\ pending' \subseteq StartSet /\ consumed' \subseteq StartSet
         /\ running' \in Seq(EventsOf(Zones)) /\ plan' \in PlansOf(Zones) /\ runFor' \in Int
         /\ lock' \in {"expand", "fire"}
<1>1. Due(starts) \subseteq StartSet /\ consumed \subseteq StartSet
  BY DEF Due, TypeOK
<1>2. \A s : Passed(starts, s) \subseteq StartSet
  BY <1>1 DEF Passed
<1>3. CASE NoStart /\ pending' \subseteq starts /\ consumed' \subseteq consumed \cup Due(starts)
  BY <1>1, <1>3 DEF NoStart, plans, TypeOK
<1>4. ASSUME NEW s \in starts, Fires(starts, s), pending' = starts \ Passed(starts, s),
             consumed' = consumed \cup Passed(starts, s), StartSchedule(s.sched)
      PROVE  /\ pending' \subseteq StartSet /\ consumed' \subseteq StartSet
             /\ running' \in Seq(EventsOf(Zones)) /\ plan' \in PlansOf(Zones)
             /\ runFor' \in Int /\ lock' \in {"expand", "fire"}
  <2>1. s.sched \in DOMAIN cfg.schedules
    BY <1>4 DEF Fires, Known
  <2>2. /\ plan' \in PlansOf(Zones) /\ runFor' \in Int
        /\ running' = << >> /\ lock' = "expand"
    BY <1>4, <2>1, StartScheduleType
  <2>3. QED
    BY <1>1, <1>2, <1>4, <2>2
<1>5. QED
  BY <1>3, <1>4 DEF ProcessPending

\* The first event due is one of the run's.
LEMMA FireType ==
  ASSUME TypeOK, NEW i \in DOMAIN running, NEW kind, Fire(i, kind)
  PROVE  /\ running[i] \in EventsOf(Zones) /\ running[i].kind = kind
         /\ running' \in Seq(EventsOf(Zones))
<1>1. running \in Seq(EventsOf(Zones)) /\ i \in 1 .. Len(running)
  BY DEF TypeOK
<1>2. running[i] \in EventsOf(Zones)
  BY <1>1, ElementOfSeq
<1>3. [running[i] EXCEPT !.done = TRUE] \in EventsOf(Zones)
  BY <1>2 DEF EventsOf
<1>4. running' = [running EXCEPT ![i] = [running[i] EXCEPT !.done = TRUE]]
  BY DEF Fire
<1>5. QED
  BY <1>1, <1>2, <1>3, <1>4, ExceptSeq DEF Fire

\* Tick keeps the types, up to the loops it begins.
LEMMA TickTInv == TInv /\ Tick => TInv'
<1> SUFFICES ASSUME TInv, Tick PROVE TInv'
  OBVIOUS
<1>1. TodaysStarts \in SUBSET StartSet
  BY RebuiltType DEF TodaysStarts, TInv, TypeOK
<1>2. /\ pending' \subseteq StartSet /\ consumed' \subseteq StartSet
      /\ running' \in Seq(EventsOf(Zones)) /\ plan' \in PlansOf(Zones) /\ runFor' \in Int
      /\ lock' \in {"expand", "fire"}
  BY <1>1, ProcessPendingType DEF Tick, TInv
<1>3. outState' \subseteq Outs /\ outSteps' \in Seq(StepSet) /\ Len(outSteps') <= 1
  BY ApplyStepsType DEF Tick, TInv
<1>4. lastDay' \in Nat
  BY Parameters, DivNat DEF Tick, Day, TInv, TypeOK
<1>5. QED
  BY <1>2, <1>3, <1>4 DEF Tick, TInv, TypeOK, board

\* An iteration of startScheduleLocked's loop keeps the types.
LEMMA ExpandSlotTInv == TInv /\ ExpandSlot => TInv'
<1> SUFFICES ASSUME TInv, ExpandSlot PROVE TInv'
  OBVIOUS
<1>1. plan \in PlansOf(Zones) /\ Thirsty(plan) # {} /\ running \in Seq(EventsOf(Zones))
  BY DEF ExpandSlot, TInv, TypeOK
<1>2. plan' \in PlansOf(Zones)
  BY <1>1, AfterSlotFacts, ZonesAreNat DEF ExpandSlot
<1>3. running' \in Seq(EventsOf(Zones))
  BY <1>1, SlotEventsFacts, ConcatProperties, ZonesAreNat DEF ExpandSlot
<1>4. QED
  BY <1>2, <1>3 DEF ExpandSlot, TInv, TypeOK, outputs, board, bounds

\* So does the end of that loop.
LEMMA BeginRunTInv == TInv /\ BeginRun => TInv'
<1> SUFFICES ASSUME TInv, BeginRun PROVE TInv'
  OBVIOUS
<1>1. AllOff(plan.at) \in EventsOf(Zones)
  BY ZonesAreNat DEF AllOff, EventsOf, PlansOf, TInv, TypeOK
<1>2. running' \in Seq(EventsOf(Zones))
  BY <1>1, AppendProperties DEF BeginRun, TInv, TypeOK
<1>3. logged' \in [Zones -> Nat]
  BY LogRunType DEF BeginRun, TInv
<1>4. run' \in RunSet /\ run'.since = now /\ runFor' \in Int
  BY ZonesAreNat DEF BeginRun, RunSet, NoSched, Pump, TInv, TypeOK
<1>5. QED
  BY <1>2, <1>3, <1>4, NoPlanType DEF BeginRun, TInv, TypeOK, outputs, board, bounds

\* An event that fires keeps the types, if its outputs and its run state do.
LEMMA FireTInv ==
  ASSUME TInv, NEW i \in DOMAIN running, NEW kind, Fire(i, kind),
         NEW target \in SUBSET Outs, SetOutputs(target),
         logged' \in [Zones -> Nat], run' \in RunSet, run'.since = now
  PROVE  TInv'
<1>1. running' \in Seq(EventsOf(Zones))
  BY FireType DEF TInv
<1>2. outState' \subseteq Outs /\ outSteps' \in Seq(StepSet) /\ Len(outSteps') <= 1
  BY SetOutputsType DEF TInv
<1>3. QED
  BY <1>1, <1>2 DEF Fire, TInv, TypeOK, board, bounds

\* A slot that begins keeps the types.
LEMMA FireZoneOnTInv == TInv /\ FireZoneOn => TInv'
<1> SUFFICES ASSUME TInv, FireZoneOn PROVE TInv'
  OBVIOUS
<1>1. PICK i \in DOMAIN running :
        /\ Fire(i, "on")
        /\ SetOutputs(ValvesOf(running[i].zone))
        /\ ContinueSchedule(running[i].zone, running[i].endAt)
  BY DEF FireZoneOn
<1>2. running[i] \in EventsOf(Zones) /\ running[i].kind = "on"
  BY <1>1, FireType DEF TInv
<1>3. running[i].zone \in Zones /\ running[i].endAt \in Nat \cup {Never}
  BY <1>2 DEF EventsOf
<1>4. ValvesOf(running[i].zone) \in SUBSET Outs /\ running[i].zone \in Outs
  BY <1>3, ValvesType, ZonesAreNat
<1>5. logged' \in [Zones -> Nat] /\ run' \in RunSet /\ run'.since = now
  BY <1>1, <1>3, <1>4, ContinueScheduleType DEF TInv
<1>6. QED
  BY <1>1, <1>4, <1>5, FireTInv

\* A soak pause keeps the types.
LEMMA FirePauseTInv == TInv /\ FirePause => TInv'
<1> SUFFICES ASSUME TInv, FirePause PROVE TInv'
  OBVIOUS
<1>1. PICK i \in DOMAIN running : Fire(i, "pause") /\ SetOutputs({}) /\ PauseRun
  BY DEF FirePause
<1>2. logged' \in [Zones -> Nat] /\ run' \in RunSet /\ run'.since = now
  BY <1>1, ContinueScheduleType, ZonesAreNat DEF PauseRun, TInv, Pump
<1>3. QED
  BY <1>1, <1>2, FireTInv

\* The closing all-off keeps the types.
LEMMA FireAllOffTInv == TInv /\ FireAllOff => TInv'
<1> SUFFICES ASSUME TInv, FireAllOff PROVE TInv'
  OBVIOUS
<1>1. PICK i \in DOMAIN running : Fire(i, "off") /\ SetOutputs({}) /\ ClearRun
  BY DEF FireAllOff
<1>2. logged' \in [Zones -> Nat] /\ run' \in RunSet /\ run'.since = now
  BY <1>1, ClearRunType DEF TInv
<1>3. QED
  BY <1>1, <1>2, FireTInv

\* The end of a pass keeps the types, with an expired manual timer or without.
LEMMA EndPassTInv == TInv /\ (ExpireManual \/ EndPass) => TInv'
<1> SUFFICES ASSUME TInv, ExpireManual \/ EndPass PROVE TInv'
  OBVIOUS
<1>1. /\ outState' \subseteq Outs /\ outSteps' \in Seq(StepSet) /\ Len(outSteps') <= 1
      /\ logged' \in [Zones -> Nat] /\ run' \in RunSet /\ run'.since <= now
  <2>1. CASE ExpireManual
    BY <2>1, SetOutputsType, ClearRunType DEF ExpireManual, TInv, TypeOK
  <2>2. CASE EndPass
    BY <2>2 DEF EndPass, TInv, TypeOK, outputs
  <2>3. QED
    BY <2>1, <2>2
<1>2. /\ hw' \subseteq Outs /\ prevOut' \subseteq Outs
      /\ havePrev' \in BOOLEAN /\ faults' \in Nat
  BY <1>1, LatchType DEF ExpireManual, EndPass, Latch, TInv, TypeOK
<1>3. QED
  BY <1>1, <1>2 DEF ExpireManual, EndPass, TInv, TypeOK, plans

\* A call: what all of them have in common.
LEMMA CallTInv ==
  ASSUME TInv, Call, cfg' \in Configs, phase' \in {"new", "ticking", "stopped"},
         lock' \in {"free", "expand", "fire"}, pending' \subseteq StartSet,
         running' \in Seq(EventsOf(Zones)), plan' \in PlansOf(Zones), runFor' \in Int,
         outState' \subseteq Outs, outSteps' \in Seq(StepSet), Len(outSteps') <= 1,
         logged' \in [Zones -> Nat], run' \in RunSet, run'.since <= now,
         hw' \subseteq Outs, prevOut' \subseteq Outs, havePrev' \in BOOLEAN, faults' \in Nat
  PROVE  TInv'
<1>1. ops' \in Nat
  BY DEF Call, TInv, TypeOK
<1>2. QED
  BY <1>1 DEF Call, TInv, TypeOK

\* The empty list is a list of any kind.
LEMMA NothingType ==
  /\ {} \subseteq Outs /\ << >> \in Seq(StepSet) /\ Len(<< >>) = 0
  /\ << >> \in Seq(EventsOf(Zones)) /\ {} \subseteq StartSet
OBVIOUS

\* Reload keeps the types.
LEMMA ReloadTInv == TInv /\ Reload => TInv'
<1> SUFFICES ASSUME TInv, Reload PROVE TInv'
  OBVIOUS
<1>1. pending' \subseteq StartSet
  BY RebuiltType DEF Reload, TInv
<1>2. outState' \subseteq Outs /\ hw \in SUBSET Outs /\ havePrev \in BOOLEAN
  BY DEF Reload, TInv, TypeOK, outputs
<1>3. /\ hw' \subseteq Outs /\ prevOut' \subseteq Outs
      /\ havePrev' \in BOOLEAN /\ faults' \in Nat
  BY <1>2, LatchType DEF Reload, Latch, TInv
<1>4. QED
  BY <1>1, <1>3, CallTInv DEF Reload, TInv, TypeOK, plans, outputs

\* StopAll keeps the types.
LEMMA StopAllTInv == TInv /\ StopAll => TInv'
<1> SUFFICES ASSUME TInv, StopAll PROVE TInv'
  OBVIOUS
<1>1. pending' \subseteq StartSet
  BY RebuiltType DEF StopAll, TInv
<1>2. outState' \subseteq Outs /\ hw \in SUBSET Outs /\ havePrev \in BOOLEAN
  BY DEF StopAll, OutputsOff, TInv, TypeOK
<1>3. /\ hw' \subseteq Outs /\ prevOut' \subseteq Outs
      /\ havePrev' \in BOOLEAN /\ faults' \in Nat
  BY <1>2, LatchType DEF StopAll, Latch, TInv
<1>4. logged' \in [Zones -> Nat] /\ run' \in RunSet /\ run'.since = now
  BY ClearRunType DEF StopAll, TInv
<1>5. /\ running' \in Seq(EventsOf(Zones))
      /\ outState' \subseteq Outs /\ outSteps' \in Seq(StepSet) /\ Len(outSteps') <= 1
  BY NothingType DEF StopAll, OutputsOff
<1>6. run'.since <= now
  BY <1>4 DEF TInv, TypeOK
<1>7. QED
  BY <1>1, <1>3, <1>4, <1>5, <1>6, CallTInv DEF StopAll, TInv, TypeOK

\* Turning a zone on by hand keeps the types.
LEMMA SetManualOnTInv ==
  ASSUME TInv, NEW z \in Zones, NEW timer \in ManualTimers, SetManualOn(z, timer)
  PROVE  TInv'
<1>1. outState' \subseteq Outs /\ outSteps' \in Seq(StepSet) /\ Len(outSteps') <= 1
  BY SetOutputsType, ValvesType DEF SetManualOn, TInv
<1>2. hw \in SUBSET Outs /\ havePrev \in BOOLEAN
  BY DEF TInv, TypeOK
<1>3. /\ hw' \subseteq Outs /\ prevOut' \subseteq Outs
      /\ havePrev' \in BOOLEAN /\ faults' \in Nat
  BY <1>1, <1>2, LatchType DEF SetManualOn, Latch, TInv
<1>4. (IF timer > 0 THEN now + timer ELSE Never) \in Nat \cup {Never} /\ z \in Outs
  BY Parameters, ZonesAreNat DEF TInv, TypeOK
<1>5. logged' \in [Zones -> Nat] /\ run' \in RunSet /\ run'.since = now
  BY <1>4, SetManualType DEF SetManualOn, TInv
<1>6. QED
  BY <1>1, <1>3, <1>5, CallTInv DEF SetManualOn, TInv, TypeOK, plans

\* Turning the zones off by hand keeps the types.
LEMMA SetManualOffTInv == TInv /\ SetManualOff => TInv'
<1> SUFFICES ASSUME TInv, SetManualOff PROVE TInv'
  OBVIOUS
<1>1. outState' \subseteq Outs /\ outSteps' \in Seq(StepSet) /\ Len(outSteps') <= 1
  BY SetOutputsType, NothingType DEF SetManualOff, TInv
<1>2. hw \in SUBSET Outs /\ havePrev \in BOOLEAN
  BY DEF TInv, TypeOK
<1>3. /\ hw' \subseteq Outs /\ prevOut' \subseteq Outs
      /\ havePrev' \in BOOLEAN /\ faults' \in Nat
  BY <1>1, <1>2, LatchType DEF SetManualOff, Latch, TInv
<1>4. logged' \in [Zones -> Nat] /\ run' \in RunSet /\ run'.since = now
  BY ClearRunType DEF SetManualOff, TInv
<1>5. QED
  BY <1>1, <1>3, <1>4, CallTInv DEF SetManualOff, TInv, TypeOK, plans

\* The quick runs, once the expansion they begin is known to be well formed.
LEMMA QuickRunTInv ==
  ASSUME TInv, QuickRun, plan' \in PlansOf(Zones), runFor' \in Int, running' = << >>,
         lock' = "expand"
  PROVE  TInv'
<1>1. pending' \subseteq StartSet
  BY RebuiltType DEF QuickRun, TInv
<1>2. logged' \in [Zones -> Nat] /\ run' \in RunSet /\ run'.since = now
  BY ClearRunType DEF QuickRun, TInv
<1>3. havePrev' \in BOOLEAN
  BY DEF QuickRun, TInv, TypeOK, board
<1>4. /\ running' \in Seq(EventsOf(Zones))
      /\ outState' \subseteq Outs /\ outSteps' \in Seq(StepSet) /\ Len(outSteps') <= 1
  BY NothingType DEF QuickRun, OutputsOff
<1>5. /\ run'.since <= now /\ cfg' \in Configs /\ phase' \in {"new", "ticking", "stopped"}
      /\ hw' \subseteq Outs /\ prevOut' \subseteq Outs /\ faults' \in Nat
  BY <1>2 DEF QuickRun, TInv, TypeOK, board
<1>6. QED
  BY <1>1, <1>2, <1>3, <1>4, <1>5, CallTInv DEF QuickRun

\* Both quick runs keep the types.
LEMMA QuickRunsTInv ==
  ASSUME TInv,
         \/ \E s \in 1 .. Len(cfg.schedules) : QuickRunSchedule(s)
         \/ \E d \in QuickDurations : QuickRunDurations(d)
  PROVE  TInv'
<1>1. ASSUME NEW s \in DOMAIN cfg.schedules, QuickRun, StartSchedule(s)
      PROVE  TInv'
  BY <1>1, StartScheduleType, QuickRunTInv DEF TInv
<1>2. ASSUME NEW d \in QuickDurations, QuickRun, StartQuick(d)
      PROVE  TInv'
  BY <1>2, StartQuickType, QuickRunTInv DEF TInv
<1>3. QED
  BY <1>1, <1>2 DEF QuickRunSchedule, QuickRunDurations

\* A new backend keeps the types.
LEMMA SwapOutputTInv == TInv /\ SwapOutput => TInv'
<1> SUFFICES ASSUME TInv, SwapOutput PROVE TInv'
  OBVIOUS
<1>1. PICK b \in {{}, hw} : LatchOn(b, FALSE)
  BY DEF SwapOutput
<1>2. outState' \subseteq Outs /\ b \in SUBSET Outs
  BY DEF SwapOutput, TInv, TypeOK, outputs
<1>3. /\ hw' \subseteq Outs /\ prevOut' \subseteq Outs
      /\ havePrev' \in BOOLEAN /\ faults' \in Nat
  BY <1>1, <1>2, LatchType DEF TInv
<1>4. QED
  BY <1>3, CallTInv DEF SwapOutput, TInv, TypeOK, plans, outputs

\* Shutdown keeps the types.
LEMMA ShutdownTInv == TInv /\ Shutdown => TInv'
<1> SUFFICES ASSUME TInv, Shutdown PROVE TInv'
  OBVIOUS
<1>1. outState' \subseteq Outs /\ hw \in SUBSET Outs /\ havePrev \in BOOLEAN
  BY DEF Shutdown, OutputsOff, TInv, TypeOK
<1>2. /\ hw' \subseteq Outs /\ prevOut' \subseteq Outs
      /\ havePrev' \in BOOLEAN /\ faults' \in Nat
  BY <1>1, LatchType DEF Shutdown, Latch, TInv
<1>3. logged' \in [Zones -> Nat] /\ run' \in RunSet /\ run'.since = now
  BY ClearRunType DEF Shutdown, TInv
<1>4. QED
  BY <1>2, <1>3, CallTInv, NothingType DEF Shutdown, OutputsOff, TInv, TypeOK

\* A configuration saved keeps the types.
LEMMA SaveConfigTInv == TInv /\ SaveConfig => TInv'
<1> SUFFICES ASSUME TInv, SaveConfig PROVE TInv'
  OBVIOUS
<1>1. havePrev' \in BOOLEAN
  BY DEF SaveConfig, TInv, TypeOK, board
<1>2. QED
  BY <1>1, CallTInv DEF SaveConfig, TInv, TypeOK, plans, outputs, board

\* The clock keeps the types: a run has begun in the past.
LEMMA AdvanceClockTInv == TInv /\ AdvanceClock => TInv'
<1> SUFFICES ASSUME TInv, AdvanceClock PROVE TInv'
  OBVIOUS
<1>1. now' \in Nat /\ run'.since <= now'
  BY DEF AdvanceClock, RunSet, TInv, TypeOK
<1>2. driven' \in [Zones -> Nat]
  BY DEF AdvanceClock, TInv, TypeOK
<1>3. havePrev' \in BOOLEAN
  BY DEF AdvanceClock, TInv, TypeOK, board
<1>4. QED
  BY <1>1, <1>2, <1>3 DEF AdvanceClock, TInv, TypeOK, plans, outputs, board, bounds

\* A crash and restart keeps the types.
LEMMA CrashTInv == TInv /\ Crash => TInv'
<1> SUFFICES ASSUME TInv, Crash PROVE TInv'
  OBVIOUS
<1>1. run' \in RunSet /\ run'.since = now /\ plan' \in PlansOf(Zones)
  BY NoRunType, NoPlanType DEF Crash, NoRun, TInv, TypeOK
<1>2. logged' \in [Zones -> Nat] /\ driven' \in [Zones -> Nat]
  BY DEF Crash
<1>3. havePrev' \in BOOLEAN
  BY DEF Crash
<1>4. hw' \subseteq Outs /\ faults' \in Nat /\ runFor' \in Int
  BY DEF Crash, NoSched, TInv, TypeOK
<1>5. QED
  BY <1>1, <1>2, <1>3, <1>4, NothingType DEF Crash, TInv, TypeOK

\* Every step keeps the types.
LEMMA NextTInv == TInv /\ [Next]_vars => TInv'
<1> SUFFICES ASSUME TInv, [Next]_vars PROVE TInv'
  OBVIOUS
<1>1. CASE Tick
  BY <1>1, TickTInv
<1>2. CASE Pass
  BY <1>2, ExpandSlotTInv, BeginRunTInv, FireZoneOnTInv, FirePauseTInv, FireAllOffTInv,
     EndPassTInv DEF Pass
<1>3. CASE Operate
  BY <1>3, ReloadTInv, StopAllTInv, SetManualOnTInv, SetManualOffTInv, QuickRunsTInv,
     SwapOutputTInv, ShutdownTInv, SaveConfigTInv DEF Operate
<1>4. CASE AdvanceClock
  BY <1>4, AdvanceClockTInv
<1>5. CASE Crash
  BY <1>5, CrashTInv
<1>6. CASE UNCHANGED vars
  <2>1. UNCHANGED havePrev
    BY <1>6 DEF vars, board
  <2>2. QED
    BY <1>6, <2>1 DEF TInv, TypeOK, vars, plans, outputs, board, bounds
<1>7. QED
  BY <1>1, <1>2, <1>3, <1>4, <1>5, <1>6 DEF Next

\* In every state of every behaviour each variable has its type; nothing is ever
\* logged with a negative duration, and no more than one output step is deferred.
THEOREM TypeCorrect == Spec => []TypeOK
<1>1. Spec => []TInv
  BY InitTInv, NextTInv, PTL DEF Spec
<1>2. TInv => TypeOK
  BY DEF TInv
<1>3. QED
  BY <1>1, <1>2, PTL

-----------------------------------------------------------------------------
(* The outputs follow the run.  Inside a pass they need not: a run that      *)
(* takes over from a manual one begins with no zone while the old valve is   *)
(* still open.  What makes up for it is that its first event is due at once, *)
(* so that the loop cannot end before it has set the outputs again.          *)

Follows == IF run.zone = 0 THEN Closed ELSE OpenFor(run.zone)

FirstIsDue ==
  IF running = << >> THEN plan.at <= now ELSE running[1].at <= now /\ ~running[1].done

FInv ==
  /\ lock = "free" => Follows
  /\ lock = "expand" => FirstIsDue
  /\ lock = "fire" => Follows \/ DueEvents # {}

SInv == TInv /\ FInv

\* Whatever the outputs are, setOutputsLocked leads to the state it is asked for.
LEMMA SetOutputsOff ==
  ASSUME SetOutputs({}), run'.zone = 0
  PROVE  Follows'
<1>1. CASE outState' = {Pump} /\ outSteps' = <<Step(now + cfg.pumpPre, {})>>
  BY <1>1 DEF Follows, Closed, Step
<1>2. CASE outState' = {Pump} /\ outSteps' = <<Step(now + cfg.pumpPost, {})>>
  BY <1>2 DEF Follows, Closed, Step
<1>3. CASE outState' = {} /\ outSteps' = << >>
  BY <1>3 DEF Follows, Closed
<1>4. QED
  BY <1>1, <1>2, <1>3 DEF SetOutputs

\* The same for a zone: its valve is open, or will be after the pre-run.
LEMMA SetOutputsOn ==
  ASSUME NEW z \in Zones, SetOutputs(ValvesOf(z)), run'.zone = z
  PROVE  Follows'
<1>1. z # 0 /\ ValvesOf(z) # {} /\ ValvesOf(z) \in {{z}, {z, Pump}}
  BY ZonesAreNat DEF ValvesOf
<1>2. CASE NeedsPreRun(ValvesOf(z), outState)
  <2>1. ValvesOf(z) = {z, Pump}
    BY <1>1, <1>2 DEF NeedsPreRun, Pump
  <2>2. outState' = {Pump} /\ outSteps' = <<Step(now + cfg.pumpPre, {z, Pump})>>
    BY <1>1, <1>2, <2>1 DEF SetOutputs, NeedsPostRun
  <2>3. outSteps' # << >> /\ outSteps'[1].state = {z, Pump}
    BY <2>2 DEF Step
  <2>4. QED
    BY <1>1, <2>2, <2>3 DEF Follows, OpenFor
<1>3. CASE ~NeedsPreRun(ValvesOf(z), outState)
  <2>1. outState' = ValvesOf(z) /\ outSteps' = << >>
    BY <1>1, <1>3 DEF SetOutputs, NeedsPostRun
  <2>2. QED
    BY <1>1, <2>1 DEF Follows, OpenFor
<1>4. QED
  BY <1>2, <1>3

\* A deferred step does what the run it was queued for still waits for.
LEMMA ApplyStepsFollow ==
  ASSUME TypeOK, Follows, ApplySteps, UNCHANGED run
  PROVE  Follows'
<1>1. CASE UNCHANGED outputs
  BY <1>1 DEF Follows, Closed, OpenFor, outputs
<1>2. CASE outSteps # << >> /\ outState' = outSteps[1].state /\ outSteps' = Tail(outSteps)
  <2>1. outSteps \in Seq(StepSet) /\ Len(outSteps) <= 1
    BY DEF TypeOK
  <2>2. outSteps' \in Seq(StepSet) /\ Len(outSteps') = Len(outSteps) - 1
    BY <1>2, <2>1, HeadTailProperties
  <2>3. outSteps' = << >>
    BY <2>1, <2>2, EmptySeq
  <2>4. QED
    BY <1>2, <2>3 DEF Follows, Closed, OpenFor
<1>3. QED
  BY <1>1, <1>2 DEF ApplySteps

\* The process starts with its outputs off and nothing running.
LEMMA InitFInv == Init => FInv
BY DEF Init, FInv, Follows, Closed, NoRun

\* Tick leads to a fired or expanding pass with outputs that follow the run.
LEMMA TickFInv == SInv /\ Tick => FInv'
<1> SUFFICES ASSUME SInv, Tick PROVE FInv'
  OBVIOUS
<1>1. Follows'
  BY ApplyStepsFollow DEF SInv, FInv, TInv, Tick
<1>2. CASE lock' = "fire"
  BY <1>1, <1>2 DEF FInv
<1>3. ASSUME NEW s \in TodaysStarts, Fires(TodaysStarts, s), StartSchedule(s.sched)
      PROVE  lock' = "expand" /\ running' = << >> /\ plan'.at = now
  BY <1>3, StartScheduleType DEF Fires, Known, SInv, TInv
<1>4. CASE lock' = "expand" /\ running' = << >> /\ plan'.at = now
  BY <1>4 DEF FInv, FirstIsDue, Tick, SInv, TInv, TypeOK
<1>5. QED
  BY <1>2, <1>3, <1>4 DEF Tick, ProcessPending, NoStart

\* The first event of an expansion is due at once: the old outputs do not stay.
LEMMA ExpandSlotFInv == SInv /\ ExpandSlot => FInv'
<1> SUFFICES ASSUME SInv, ExpandSlot PROVE FInv'
  OBVIOUS
<1> DEFINE new == SlotEvents(plan)
<1>1. /\ plan \in PlansOf(Zones) /\ Thirsty(plan) # {} /\ plan.at \in Nat /\ now \in Nat
      /\ running \in Seq(EventsOf(Zones)) /\ FirstIsDue
  BY DEF ExpandSlot, SInv, TInv, FInv, TypeOK, PlansOf
<1>2. new \in Seq(EventsOf(Zones)) /\ new # << >> /\ new[1].at = plan.at /\ ~new[1].done
  BY <1>1, SlotEventsFacts, FirstSlotEvent, ZonesAreNat
<1>3. running' = running \o new
  BY DEF ExpandSlot
<1> HIDE DEF new
<1>4. running' # << >> /\ running'[1] = IF running = << >> THEN new[1] ELSE running[1]
  <2>1. /\ Len(running) \in Nat /\ Len(new) \in Nat \ {0}
        /\ running # << >> => Len(running) \in Nat \ {0}
    BY <1>1, <1>2, EmptySeq, LenProperties
  <2>2. CASE running = << >>
    BY <1>2, <1>3, <2>2, ConcatEmptySeq
  <2>3. CASE running # << >>
    <3>1. /\ running' \in Seq(EventsOf(Zones)) /\ Len(running') = Len(running) + Len(new)
          /\ running'[1] = running[1]
      BY <1>1, <1>2, <1>3, <2>1, <2>3, ConcatProperties
    <3>2. running' # << >>
      BY <2>1, <2>3, <3>1, EmptySeq
    <3>3. QED
      BY <2>3, <3>1, <3>2
  <2>4. QED
    BY <2>2, <2>3
<1>5. FirstIsDue'
  BY <1>1, <1>2, <1>4 DEF FirstIsDue, ExpandSlot
<1>6. QED
  BY <1>5 DEF ExpandSlot, FInv

\* So is the all-off of a run that waters nothing.
LEMMA BeginRunFInv == SInv /\ BeginRun => FInv'
<1> SUFFICES ASSUME SInv, BeginRun PROVE FInv'
  OBVIOUS
<1>1. /\ running \in Seq(EventsOf(Zones)) /\ AllOff(plan.at) \in EventsOf(Zones)
      /\ FirstIsDue
  BY ZonesAreNat DEF BeginRun, AllOff, EventsOf, PlansOf, SInv, TInv, FInv, TypeOK
<1>2. running' = Append(running, AllOff(plan.at)) /\ now' = now
  BY DEF BeginRun
<1>3. /\ running' \in Seq(EventsOf(Zones)) /\ Len(running') = Len(running) + 1
      /\ \A i \in 1 .. Len(running) : running'[i] = running[i]
      /\ running'[Len(running) + 1] = AllOff(plan.at)
  BY <1>1, <1>2, AppendProperties
<1>4. Len(running) \in Nat /\ 1 \in DOMAIN running'
  BY <1>1, <1>3, LenProperties
<1>5. running'[1].at <= now /\ ~running'[1].done
  <2>1. CASE running = << >>
    BY <1>1, <1>3, <2>1 DEF FirstIsDue, AllOff
  <2>2. CASE running # << >>
    <3>1. 1 \in 1 .. Len(running)
      BY <1>1, <1>4, <2>2, EmptySeq
    <3>2. QED
      BY <1>1, <1>3, <2>2, <3>1 DEF FirstIsDue
  <2>3. QED
    BY <2>1, <2>2
<1>6. DueEvents' # {}
  BY <1>2, <1>4, <1>5 DEF DueEvents
<1>7. QED
  BY <1>6 DEF BeginRun, FInv

\* Every event that fires sets the outputs and the run together.
LEMMA FireFInv == SInv /\ (FireZoneOn \/ FirePause \/ FireAllOff) => FInv'
<1> SUFFICES ASSUME SInv, FireZoneOn \/ FirePause \/ FireAllOff PROVE FInv'
  OBVIOUS
<1>1. CASE FireZoneOn
  <2>1. PICK i \in DOMAIN running :
          /\ Fire(i, "on")
          /\ SetOutputs(ValvesOf(running[i].zone))
          /\ ContinueSchedule(running[i].zone, running[i].endAt)
    BY <1>1 DEF FireZoneOn
  <2>2. running[i] \in EventsOf(Zones) /\ running[i].kind = "on"
    BY <2>1, FireType DEF SInv, TInv
  <2>3. PICK z \in Zones : z = running[i].zone
    BY <2>2 DEF EventsOf
  <2>4. SetOutputs(ValvesOf(z)) /\ run'.zone = z /\ lock' = "fire"
    BY <2>1, <2>3 DEF ContinueSchedule, Fire
  <2>5. QED
    BY <2>4, SetOutputsOn DEF FInv
<1>2. CASE FirePause
  <2>1. SetOutputs({}) /\ run'.zone = 0 /\ lock' = "fire"
    BY <1>2 DEF FirePause, PauseRun, ContinueSchedule, Fire
  <2>2. QED
    BY <2>1, SetOutputsOff DEF FInv
<1>3. CASE FireAllOff
  <2>1. SetOutputs({}) /\ run'.zone = 0 /\ lock' = "fire"
    BY <1>3 DEF FireAllOff, ClearRun, NoRun, Fire
  <2>2. QED
    BY <2>1, SetOutputsOff DEF FInv
<1>4. QED
  BY <1>1, <1>2, <1>3

\* The mutex is given back only with outputs that follow the run.
LEMMA EndPassFInv == SInv /\ (ExpireManual \/ EndPass) => FInv'
<1> SUFFICES ASSUME SInv, ExpireManual \/ EndPass PROVE FInv'
  OBVIOUS
<1>1. CASE ExpireManual
  <2>1. SetOutputs({}) /\ run'.zone = 0 /\ lock' = "free"
    BY <1>1 DEF ExpireManual, ClearRun, NoRun
  <2>2. QED
    BY <2>1, SetOutputsOff DEF FInv
<1>2. CASE EndPass
  BY <1>2 DEF EndPass, SInv, FInv, Follows, Closed, OpenFor, outputs
<1>3. QED
  BY <1>1, <1>2

\* Calls that leave run and outputs alone, or set both.
LEMMA OperateFInv == SInv /\ Operate => FInv'
<1> SUFFICES ASSUME SInv, Operate PROVE FInv'
  OBVIOUS
<1>1. CASE Reload \/ SwapOutput \/ SaveConfig
  BY <1>1 DEF Reload, SwapOutput, SaveConfig, Call, SInv, FInv, Follows, Closed, OpenFor,
              outputs
<1>2. CASE StopAll \/ Shutdown
  <2>1. lock' = "free" /\ OutputsOff /\ ClearRun
    <3>1. CASE StopAll
      BY <3>1 DEF StopAll, Call
    <3>2. CASE Shutdown
      BY <3>2 DEF Shutdown, Call
    <3>3. QED
      BY <1>2, <3>1, <3>2
  <2>2. run'.zone = 0
    BY <2>1 DEF ClearRun, NoRun
  <2>3. QED
    BY <2>1, <2>2 DEF OutputsOff, FInv, Follows, Closed
<1>3. CASE SetManualOff
  <2>1. SetOutputs({}) /\ run'.zone = 0 /\ lock' = "free"
    BY <1>3 DEF SetManualOff, Call, ClearRun, NoRun
  <2>2. QED
    BY <2>1, SetOutputsOff DEF FInv
<1>4. ASSUME NEW z \in Zones, NEW timer \in ManualTimers, SetManualOn(z, timer)
      PROVE  FInv'
  <2>1. SetOutputs(ValvesOf(z)) /\ run'.zone = z /\ lock' = "free"
    BY <1>4 DEF SetManualOn, SetManual, Call
  <2>2. QED
    BY <2>1, SetOutputsOn DEF FInv
<1>5. ASSUME QuickRun, lock' = "expand", running' = << >>, plan'.at = now
      PROVE  FInv'
  BY <1>5 DEF QuickRun, Call, FInv, FirstIsDue, SInv, TInv, TypeOK
<1>6. ASSUME NEW s \in DOMAIN cfg.schedules, QuickRun, StartSchedule(s)
      PROVE  FInv'
  BY <1>5, <1>6, StartScheduleType DEF SInv, TInv
<1>7. ASSUME NEW d \in QuickDurations, QuickRun, StartQuick(d)
      PROVE  FInv'
  BY <1>5, <1>7, StartQuickType DEF SInv, TInv
<1>8. QED
  BY <1>1, <1>2, <1>3, <1>4, <1>6, <1>7
  DEF Operate, QuickRunSchedule, QuickRunDurations

\* Every step keeps the outputs with the run, or has the event due that will.
LEMMA NextFInv == SInv /\ [Next]_vars => FInv'
<1> SUFFICES ASSUME SInv, [Next]_vars PROVE FInv'
  OBVIOUS
<1>1. CASE Tick
  BY <1>1, TickFInv
<1>2. CASE Pass
  BY <1>2, ExpandSlotFInv, BeginRunFInv, FireFInv, EndPassFInv DEF Pass
<1>3. CASE Operate
  BY <1>3, OperateFInv
<1>4. CASE AdvanceClock
  BY <1>4 DEF AdvanceClock, SInv, FInv, Follows, Closed, OpenFor, outputs
<1>5. CASE Crash
  BY <1>5 DEF Crash, FInv, Follows, Closed, NoRun
<1>6. CASE UNCHANGED vars
  BY <1>6 DEF vars, plans, outputs, SInv, FInv, Follows, Closed, OpenFor, FirstIsDue,
              DueEvents
<1>7. QED
  BY <1>1, <1>2, <1>3, <1>4, <1>5, <1>6 DEF Next

\* The inductive invariant holds.
LEMMA SInvHolds == Spec => []SInv
<1>1. Init => SInv
  BY InitTInv, InitFInv DEF SInv
<1>2. SInv /\ [Next]_vars => SInv'
  BY NextTInv, NextFInv DEF SInv
<1>3. QED
  BY <1>1, <1>2, PTL DEF Spec

\* Whatever is called while whatever runs, and however late the ticks come: when
\* the mutex is free no valve but that of the running zone is commanded open, and
\* no deferred step of an earlier run is left to open or close one.
THEOREM OutputsAreTheRuns == Spec => []OutputsFollowRun
<1>1. SInv => OutputsFollowRun
  BY DEF SInv, FInv, Follows, OutputsFollowRun
<1>2. QED
  BY <1>1, SInvHolds, PTL

-----------------------------------------------------------------------------
(* Nothing is watered off the books.                                        *)

\* A transition of the run state that logs the zone that ran keeps the books.
LEMMA LogRunAccounts ==
  ASSUME TInv, WaterAccounted, LogRun, UNCHANGED <<now, driven>>, run'.since = now
  PROVE  WaterAccounted'
<1>1. \A z \in Zones : logged'[z] = logged[z] + Elapsed(z)
  BY DEF LogRun
<1>2. \A z \in Zones : Elapsed(z)' = 0
  BY DEF Elapsed, TInv, TypeOK
<1>3. \A z \in Zones : logged[z] + Elapsed(z) \in Int
  BY DEF Elapsed, TInv, TypeOK, RunSet
<1>4. QED
  BY <1>1, <1>2, <1>3 DEF WaterAccounted

\* So does a step that leaves the run, the log and the clock alone.
LEMMA SameRunAccounts ==
  ASSUME WaterAccounted, UNCHANGED <<now, driven, logged, run>>
  PROVE  WaterAccounted'
BY DEF WaterAccounted, Elapsed

\* A minute on: only the zone of the run is open, and its run counts the minute.
LEMMA AdvanceClockAccounts == SInv /\ WaterAccounted /\ AdvanceClock => WaterAccounted'
<1> SUFFICES ASSUME SInv, WaterAccounted, AdvanceClock, NEW z \in Zones
             PROVE  driven'[z] <= logged'[z] + Elapsed(z)'
  BY DEF WaterAccounted
<1>1. /\ driven[z] \in Nat /\ logged[z] \in Nat /\ now \in Nat /\ run.since \in Nat
      /\ run.since <= now /\ driven[z] <= logged[z] + Elapsed(z)
  BY DEF SInv, TInv, TypeOK, RunSet, WaterAccounted
<1>2. z \in outState => run.zone = z
  BY ZonesAreNat DEF AdvanceClock, SInv, FInv, Follows, Closed, OpenFor, Pump
<1>3. /\ driven'[z] = driven[z] + IF z \in outState THEN 1 ELSE 0
      /\ logged' = logged /\ run' = run /\ now' = now + 1
  BY DEF AdvanceClock
<1>4. QED
  BY <1>1, <1>2, <1>3 DEF Elapsed

\* Every step keeps the books.
LEMMA NextAccounts == SInv /\ WaterAccounted /\ [Next]_vars => WaterAccounted'
<1> SUFFICES ASSUME SInv, WaterAccounted, [Next]_vars PROVE WaterAccounted'
  OBVIOUS
<1> USE DEF SInv
<1>1. CASE Tick \/ ExpandSlot \/ EndPass \/ Reload \/ SwapOutput \/ SaveConfig
  BY <1>1, SameRunAccounts DEF Tick, ExpandSlot, EndPass, Reload, SwapOutput, SaveConfig, Call
<1>2. CASE BeginRun \/ FireZoneOn \/ FirePause \/ FireAllOff \/ ExpireManual
  BY <1>2, LogRunAccounts
  DEF BeginRun, FireZoneOn, FirePause, FireAllOff, ExpireManual, Fire, ContinueSchedule,
      PauseRun, ClearRun, NoRun
<1>3. CASE StopAll \/ SetManualOff \/ Shutdown \/ QuickRun
  <2>1. ClearRun /\ UNCHANGED <<now, driven>>
    <3>1. CASE StopAll
      BY <3>1 DEF StopAll, Call
    <3>2. CASE SetManualOff
      BY <3>2 DEF SetManualOff, Call
    <3>3. CASE Shutdown
      BY <3>3 DEF Shutdown, Call
    <3>4. CASE QuickRun
      BY <3>4 DEF QuickRun, Call
    <3>5. QED
      BY <1>3, <3>1, <3>2, <3>3, <3>4
  <2>2. LogRun /\ run'.since = now
    BY <2>1 DEF ClearRun, NoRun
  <2>3. QED
    BY <2>1, <2>2, LogRunAccounts
<1>4. ASSUME NEW z \in Zones, NEW timer \in ManualTimers, SetManualOn(z, timer)
      PROVE  WaterAccounted'
  BY <1>4, LogRunAccounts DEF SetManualOn, SetManual, Call
<1>5. CASE AdvanceClock
  BY <1>5, AdvanceClockAccounts
<1>6. CASE Crash
  BY <1>6 DEF Crash, WaterAccounted, Elapsed, NoRun, TInv, TypeOK
<1>7. CASE UNCHANGED vars
  BY <1>7, SameRunAccounts DEF vars
<1>8. QED
  BY <1>1, <1>2, <1>3, <1>4, <1>5, <1>6, <1>7
  DEF Next, Pass, Operate, QuickRunSchedule, QuickRunDurations

\* The zone log never misses a minute a valve was commanded open, except that of
\* the run that still goes on, or of one a crash cut off.
THEOREM EveryMinuteLogged == Spec => []WaterAccounted
<1>1. Init => WaterAccounted
  BY ZonesAreNat DEF Init, WaterAccounted, Elapsed, NoRun
<1>2. SInv /\ WaterAccounted /\ [Next]_vars => WaterAccounted'
  BY NextAccounts
<1>3. QED
  BY <1>1, <1>2, SInvHolds, PTL DEF Spec

-----------------------------------------------------------------------------
(***************************************************************************)
(* That a run ends when it should and a start fires once.                    *)
(***************************************************************************)

(* What makes the list of a run work, whatever the ticks miss and whoever    *)
(* takes the outputs over in the meantime: it is in the order of time, the   *)
(* event after a slot is due when the slot ends, the closing all-off is the  *)
(* last event and only that, and the events fire in the order of the list.   *)

Ordered == \A i, j \in DOMAIN running : i <= j => running[i].at <= running[j].at

Chained ==
  \A i \in DOMAIN running :
    running[i].kind = "on" /\ i # Len(running) => running[i + 1].at = running[i].endAt

FiredInOrder ==
  \A i, j \in DOMAIN running : i <= j /\ running[j].done => running[i].done

Growing ==
  /\ \A i \in DOMAIN running : /\ running[i].kind # "off" /\ ~running[i].done
                               /\ running[i].at <= plan.at
  /\ running # << >> => running[Len(running)].endAt = plan.at

ClosedAtEnd == \A i \in DOMAIN running : running[i].kind = "off" <=> i = Len(running)

ListInv ==
  /\ Ordered /\ Chained /\ FiredInOrder
  /\ IF lock = "expand" THEN Growing ELSE ClosedAtEnd

\* What a scheduled run waits for is in the list: its slot's end, or a later event.
NextEvent ==
  \E i \in DOMAIN running : ~running[i].done /\ (run.endAt # Never => running[i].at = run.endAt)

RunInv ==
  /\ run.mode = "idle" => run.zone = 0
  /\ lock # "expand" /\ run.mode = "schedule" => NextEvent
  /\ tickAt <= now

RInv == TInv /\ ListInv /\ RunInv /\ NoOverrun

-----------------------------------------------------------------------------
\* An empty list is as it should be.
LEMMA EmptyList ==
  ASSUME running = << >>
  PROVE  ListInv
<1>1. DOMAIN running = {}
  OBVIOUS
<1>. QED BY <1>1 DEF ListInv, Ordered, Chained, FiredInOrder, Growing, ClosedAtEnd

\* A step that leaves the list alone, outside an expansion, leaves it right.
LEMMA SameList ==
  ASSUME ListInv, UNCHANGED running, lock # "expand", lock' # "expand"
  PROVE  ListInv'
  BY DEF ListInv, Ordered, Chained, FiredInOrder, ClosedAtEnd

\* A new process has no run.
LEMMA InitRInv == Init => RInv
<1>. SUFFICES ASSUME Init PROVE RInv
  OBVIOUS
<1>1. TInv /\ running = << >> /\ run = NoRun(0) /\ tickAt = now /\ now = 0
  BY InitTInv DEF Init
<1>2. run.mode = "idle" /\ run.zone = 0
  BY <1>1 DEF NoRun
<1>. QED BY <1>1, <1>2, EmptyList DEF RInv, RunInv, NoOverrun

\* An iteration appends what is due where the last slot ends, and not before it.
LEMMA ExpandSlotList == RInv /\ ExpandSlot => ListInv'
<1>. SUFFICES ASSUME RInv, ExpandSlot PROVE ListInv'
  OBVIOUS
<1>. DEFINE n == Len(running)
            new == SlotEvents(plan)
            slot == Slot(Best(plan), SlotStart(plan), SlotEnd(plan))
            pause == Pause(plan.at)
<1>1. /\ plan \in PlansOf(Zones) /\ Thirsty(plan) # {} /\ plan.at \in Nat
      /\ running \in Seq(EventsOf(Zones)) /\ lock = "expand" /\ lock' = "expand"
      /\ Ordered /\ Chained /\ Growing
  BY DEF ExpandSlot, RInv, TInv, ListInv, TypeOK, PlansOf
<1>2. /\ new \in Seq(EventsOf(Zones))
      /\ \/ SlotStart(plan) = plan.at /\ new = <<slot>>
         \/ plan.at < SlotStart(plan) /\ new = <<pause, slot>>
  BY <1>1, SlotEventsFacts, ZonesAreNat
<1>3. /\ SlotStart(plan) \in Nat /\ SlotEnd(plan) \in Nat
      /\ plan.at <= SlotStart(plan) /\ SlotStart(plan) < SlotEnd(plan)
  BY <1>1, SlotFacts, ZonesAreNat
<1>4. plan'.at = SlotEnd(plan) /\ running' = running \o new
  BY <1>1, AfterSlotFacts, ZonesAreNat DEF ExpandSlot
<1>5. /\ slot.kind = "on" /\ ~slot.done /\ slot.at = SlotStart(plan)
      /\ slot.endAt = SlotEnd(plan)
      /\ pause.kind = "pause" /\ ~pause.done /\ pause.at = plan.at
  BY DEF Slot, Pause
<1>. HIDE DEF slot, pause
<1>6. /\ Len(new) \in {1, 2} /\ new[Len(new)] = slot
      /\ \A j \in 1 .. Len(new) : /\ new[j].kind # "off" /\ ~new[j].done
                                  /\ plan.at <= new[j].at /\ new[j].at <= SlotEnd(plan)
                                  /\ new[j].at \in Nat
                                  /\ new[j].kind = "on" => j = Len(new)
      /\ new[1].at = plan.at /\ (Len(new) = 2 => new[1].at <= new[2].at)
  <2>1. CASE SlotStart(plan) = plan.at /\ new = <<slot>>
    <3>1. Len(new) = 1 /\ new[1] = slot
      BY <2>1
    <3>. HIDE DEF new
    <3>. QED BY <1>1, <1>3, <1>5, <2>1, <3>1
  <2>2. CASE plan.at < SlotStart(plan) /\ new = <<pause, slot>>
    <3>1. Len(new) = 2 /\ new[1] = pause /\ new[2] = slot
      BY <2>2
    <3>. HIDE DEF new
    <3>. QED BY <1>1, <1>3, <1>5, <2>2, <3>1
  <2>. QED BY <1>2, <2>1, <2>2
<1>. HIDE DEF new
<1>7. /\ running' \in Seq(EventsOf(Zones)) /\ Len(running') = n + Len(new) /\ n \in Nat
      /\ DOMAIN running = 1 .. n /\ DOMAIN running' = 1 .. Len(running')
      /\ \A i \in 1 .. Len(running') : running'[i] = IF i <= n THEN running[i] ELSE new[i - n]
  BY <1>1, <1>2, <1>4, ConcatProperties
<1>8. \A i \in 1 .. n : running'[i] = running[i] /\ i \in 1 .. Len(running')
  BY <1>6, <1>7
<1>9. ASSUME NEW i \in 1 .. Len(running'), ~(i <= n)
      PROVE  running'[i] = new[i - n] /\ i - n \in 1 .. Len(new)
  BY <1>6, <1>7, <1>9
<1>. HIDE DEF n
<1>10. \A i \in 1 .. n : /\ running[i].kind # "off" /\ ~running[i].done
                         /\ running[i].at \in Nat /\ running[i].at <= plan.at
  <2>1. \A i \in 1 .. n : running[i] \in EventsOf(Zones)
    BY <1>1, <1>7, ElementOfSeq DEF n
  <2>2. \A i \in 1 .. n : running[i].at \in Nat
    BY <2>1 DEF EventsOf
  <2>. QED BY <1>1, <1>7, <2>2 DEF Growing
<1>11. Growing'
  <2>1. ASSUME NEW i \in 1 .. Len(running')
        PROVE  /\ running'[i].kind # "off" /\ ~running'[i].done /\ running'[i].at <= plan'.at
    <3>1. CASE i <= n
      BY <1>1, <1>3, <1>4, <1>7, <1>8, <1>10, <3>1
    <3>2. CASE ~(i <= n)
      BY <1>4, <1>6, <1>9, <3>2
    <3>. QED BY <3>1, <3>2
  <2>2. running'[Len(running')] = slot
    <3>1. Len(running') \in 1 .. Len(running') /\ ~(Len(running') <= n)
          /\ Len(running') - n = Len(new)
      BY <1>6, <1>7
    <3>. QED BY <1>6, <1>9, <3>1
  <2>. QED BY <1>4, <1>5, <1>7, <2>1, <2>2 DEF Growing
<1>12. Ordered'
  <2>. SUFFICES ASSUME NEW i \in 1 .. Len(running'), NEW j \in 1 .. Len(running'), i <= j
                PROVE  running'[i].at <= running'[j].at
    BY <1>7 DEF Ordered
  <2>1. CASE j <= n
    <3>1. i \in 1 .. n /\ j \in 1 .. n
      BY <1>7, <2>1
    <3>. QED BY <1>1, <1>7, <1>8, <3>1 DEF Ordered
  <2>2. CASE i <= n /\ ~(j <= n)
    <3>1. running'[i] = running[i] /\ running[i].at \in Nat /\ running[i].at <= plan.at
      BY <1>7, <1>8, <1>10, <2>2
    <3>2. plan.at <= running'[j].at /\ running'[j].at \in Nat
      BY <1>6, <1>9, <2>2
    <3>. QED BY <1>1, <3>1, <3>2
  <2>3. CASE ~(i <= n)
    <3>1. ~(j <= n) /\ i - n <= j - n
      BY <1>7, <2>3
    <3>2. running'[i] = new[i - n] /\ i - n \in 1 .. Len(new)
      BY <1>9, <2>3
    <3>3. running'[j] = new[j - n] /\ j - n \in 1 .. Len(new)
      BY <1>9, <3>1
    <3>4. ASSUME NEW a \in 1 .. Len(new), NEW b \in 1 .. Len(new), a <= b
          PROVE  new[a].at <= new[b].at
      <4>1. a = b \/ (Len(new) = 2 /\ a = 1 /\ b = 2)
        BY <1>6, <3>4
      <4>2. new[a].at \in Nat
        BY <1>6
      <4>. QED BY <1>6, <4>1, <4>2
    <3>. QED BY <3>1, <3>2, <3>3, <3>4
  <2>. QED BY <2>1, <2>2, <2>3
<1>13. Chained'
  <2>. SUFFICES ASSUME NEW i \in 1 .. Len(running'), running'[i].kind = "on", i # Len(running')
                PROVE  running'[i + 1].at = running'[i].endAt
    BY <1>7 DEF Chained
  <2>1. CASE ~(i <= n)
    <3>1. i - n = Len(new)
      BY <1>6, <1>9, <2>1
    <3>. QED BY <1>6, <1>7, <3>1
  <2>2. CASE i = n
    <3>1. running'[i] = running[n] /\ running # << >>
      <4>1. n \in 1 .. n /\ n # 0
        BY <1>7, <2>2
      <4>2. running = << >> => n = 0
        BY DEF n
      <4>. QED BY <1>8, <2>2, <4>1, <4>2
    <3>2. running[n].endAt = plan.at
      BY <1>1, <3>1 DEF Growing, n
    <3>3. i + 1 \in 1 .. Len(running') /\ ~(i + 1 <= n) /\ (i + 1) - n = 1
      BY <1>6, <1>7, <2>2
    <3>4. running'[i + 1] = new[1]
      BY <1>7, <3>3
    <3>. QED BY <1>6, <3>1, <3>2, <3>4
  <2>3. CASE i < n
    <3>1. i \in 1 .. n /\ i + 1 \in 1 .. n /\ i # n
      BY <1>7, <2>3
    <3>2. running[i + 1].at = running[i].endAt
      BY <1>1, <1>7, <1>8, <3>1 DEF Chained, n
    <3>. QED BY <1>8, <3>1, <3>2
  <2>. QED BY <1>7, <2>1, <2>2, <2>3
<1>14. FiredInOrder'
  BY <1>7, <1>11 DEF FiredInOrder, Growing
<1>. QED BY <1>1, <1>11, <1>12, <1>13, <1>14 DEF ListInv

\* The closing all-off is due when the last slot has ended.
LEMMA BeginRunList == RInv /\ BeginRun => ListInv' /\ RunInv'
<1>. SUFFICES ASSUME RInv, BeginRun PROVE ListInv' /\ RunInv'
  OBVIOUS
<1>. DEFINE n == Len(running)
            off == AllOff(plan.at)
<1>1. /\ running \in Seq(EventsOf(Zones)) /\ off \in EventsOf(Zones) /\ plan.at \in Nat
      /\ lock = "expand" /\ lock' = "fire" /\ running' = Append(running, off)
      /\ Ordered /\ Chained /\ Growing
  BY ZonesAreNat DEF BeginRun, RInv, TInv, ListInv, TypeOK, PlansOf, AllOff, EventsOf
<1>2. off.at = plan.at /\ off.kind = "off" /\ ~off.done
  BY DEF AllOff
<1>. HIDE DEF off
<1>3. /\ running' \in Seq(EventsOf(Zones)) /\ Len(running') = n + 1 /\ n \in Nat
      /\ \A i \in 1 .. n : running'[i] = running[i]
      /\ running'[n + 1] = off
      /\ DOMAIN running = 1 .. n /\ DOMAIN running' = 1 .. n + 1
  BY <1>1, AppendProperties
<1>4. \A i \in 1 .. n : /\ running[i].kind # "off" /\ ~running[i].done
                        /\ running[i].at \in Nat /\ running[i].at <= plan.at
  <2>1. \A i \in 1 .. n : running[i] \in EventsOf(Zones)
    BY <1>1, <1>3, ElementOfSeq
  <2>2. \A i \in 1 .. n : running[i].at \in Nat
    BY <2>1 DEF EventsOf
  <2>. QED BY <1>1, <1>3, <2>2 DEF Growing
<1>5. n # 0 => running[n].endAt = plan.at
  <2>1. running = << >> => n = 0
    OBVIOUS
  <2>. QED BY <1>1, <2>1 DEF Growing
<1>6. \A i, j \in 1 .. n : i <= j => running[i].at <= running[j].at
  BY <1>1, <1>3 DEF Ordered
<1>7. \A i \in 1 .. n : running[i].kind = "on" /\ i # n => running[i + 1].at = running[i].endAt
  BY <1>1, <1>3 DEF Chained
<1>. HIDE DEF n
<1>8. \A i \in 1 .. n + 1 : i \in 1 .. n \/ i = n + 1
  BY <1>3
<1>9. ClosedAtEnd' /\ FiredInOrder'
  <2>1. \A i \in 1 .. n : i # n + 1
    BY <1>3
  <2>2. \A i \in 1 .. n + 1 : ~running'[i].done
    BY <1>2, <1>3, <1>4, <1>8
  <2>3. \A i \in 1 .. n + 1 : running'[i].kind = "off" <=> i = n + 1
    BY <1>2, <1>3, <1>4, <1>8, <2>1
  <2>. QED BY <1>3, <2>2, <2>3 DEF ClosedAtEnd, FiredInOrder
<1>10. Ordered'
  <2>. SUFFICES ASSUME NEW i \in 1 .. n + 1, NEW j \in 1 .. n + 1, i <= j
                PROVE  running'[i].at <= running'[j].at
    BY <1>3 DEF Ordered
  <2>1. CASE i \in 1 .. n /\ j \in 1 .. n
    BY <1>3, <1>6, <2>1
  <2>2. CASE i \in 1 .. n /\ j = n + 1
    BY <1>2, <1>3, <1>4, <2>2
  <2>3. CASE i = n + 1 /\ j = n + 1
    BY <1>1, <1>2, <1>3, <2>3
  <2>. QED BY <1>3, <1>8, <2>1, <2>2, <2>3
<1>11. Chained'
  <2>. SUFFICES ASSUME NEW i \in 1 .. n + 1, running'[i].kind = "on", i # n + 1
                PROVE  running'[i + 1].at = running'[i].endAt
    BY <1>3 DEF Chained
  <2>1. CASE i = n
    BY <1>2, <1>3, <1>5, <1>8, <2>1
  <2>2. CASE i # n
    <3>1. i \in 1 .. n /\ i + 1 \in 1 .. n
      BY <1>3, <2>2
    <3>. QED BY <1>3, <1>7, <2>2, <3>1
  <2>. QED BY <2>1, <2>2
<1>12. RunInv'
  <2>1. run'.mode = "schedule" /\ run'.endAt = Never /\ tickAt' <= now'
    BY DEF BeginRun, bounds, RInv, RunInv
  <2>2. n + 1 \in DOMAIN running' /\ ~running'[n + 1].done
    BY <1>2, <1>3
  <2>. QED BY <2>1, <2>2 DEF RunInv, NextEvent
<1>. QED BY <1>1, <1>9, <1>10, <1>11, <1>12 DEF ListInv

\* The event that fires is the next of the list; all before it have fired.
LEMMA FireList ==
  ASSUME RInv, NEW i \in DOMAIN running, NEW kind, Fire(i, kind)
  PROVE  /\ ListInv' /\ lock' = "fire" /\ tickAt' <= now' /\ Len(running') = Len(running)
         /\ i \in 1 .. Len(running) /\ running[i].kind = kind
         /\ kind # "off" => /\ i + 1 \in DOMAIN running' /\ ~running'[i + 1].done
                            /\ kind = "on" => running'[i + 1].at = running[i].endAt
<1>1. /\ lock = "fire" /\ lock' = "fire" /\ FirstDue(i) /\ running[i].kind = kind
      /\ running' = [running EXCEPT ![i].done = TRUE] /\ tickAt' = tickAt /\ now' = now
  BY DEF Fire, bounds
<1>2. /\ running \in Seq(EventsOf(Zones)) /\ DOMAIN running = 1 .. Len(running)
      /\ Len(running) \in Nat /\ now \in Nat /\ tickAt <= now
      /\ Ordered /\ Chained /\ FiredInOrder /\ ClosedAtEnd
  BY <1>1 DEF RInv, TInv, TypeOK, ListInv, RunInv
<1>3. /\ DOMAIN running' = DOMAIN running /\ Len(running') = Len(running)
      /\ \A j \in DOMAIN running :
           /\ running'[j].at = running[j].at /\ running'[j].kind = running[j].kind
           /\ running'[j].endAt = running[j].endAt
           /\ running'[j].done = (running[j].done \/ j = i)
  <2>1. \A j \in DOMAIN running : running[j] \in EventsOf(Zones)
    BY <1>2, ElementOfSeq
  <2>2. running' \in Seq(EventsOf(Zones)) /\ DOMAIN running' = DOMAIN running
    BY <1>1, FireType DEF RInv, TInv
  <2>3. Len(running') = Len(running)
    BY <1>2, <2>2
  <2>4. \A j \in DOMAIN running :
          running'[j] = IF j = i THEN [running[i] EXCEPT !.done = TRUE] ELSE running[j]
    BY <1>1
  <2>5. /\ [running[i] EXCEPT !.done = TRUE].at = running[i].at
        /\ [running[i] EXCEPT !.done = TRUE].kind = running[i].kind
        /\ [running[i] EXCEPT !.done = TRUE].endAt = running[i].endAt
        /\ [running[i] EXCEPT !.done = TRUE].done = TRUE
    BY <2>1 DEF EventsOf
  <2>6. \A j \in DOMAIN running : running[j].done \in BOOLEAN
    BY <2>1 DEF EventsOf
  <2>. QED BY <2>2, <2>3, <2>4, <2>5, <2>6
<1>4. i \in DueEvents /\ \A j \in DueEvents : i <= j
  BY <1>1 DEF FirstDue
<1>5. running[i].at <= now /\ ~running[i].done
  BY <1>4 DEF DueEvents
<1>6. ASSUME NEW j \in DOMAIN running, j <= i
      PROVE  running'[j].done
  <2>1. CASE j = i
    BY <1>3, <2>1
  <2>2. CASE j # i /\ ~running[j].done
    <3>1. running[j].at <= running[i].at
      BY <1>2, <1>6 DEF Ordered
    <3>2. running[j].at \in Nat /\ running[i].at \in Nat
      <4>1. running[j] \in EventsOf(Zones) /\ running[i] \in EventsOf(Zones)
        BY <1>2, ElementOfSeq
      <4>. QED BY <4>1 DEF EventsOf
    <3>3. running[j].at <= now
      BY <1>2, <1>5, <3>1, <3>2
    <3>4. i <= j
      BY <1>4, <2>2, <3>3 DEF DueEvents
    <3>. QED BY <1>2, <1>6, <2>2, <3>4
  <2>3. CASE running[j].done
    BY <1>3, <2>3
  <2>. QED BY <2>1, <2>2, <2>3
<1>7. FiredInOrder'
  <2>. SUFFICES ASSUME NEW a \in DOMAIN running, NEW b \in DOMAIN running, a <= b,
                       running'[b].done
                PROVE  running'[a].done
    BY <1>3 DEF FiredInOrder
  <2>1. CASE b = i
    BY <1>6, <2>1
  <2>2. CASE b # i
    BY <1>2, <1>3, <2>2 DEF FiredInOrder
  <2>. QED BY <2>1, <2>2
<1>8. Ordered' /\ Chained' /\ ClosedAtEnd'
  <2>1. Ordered'
    BY <1>2, <1>3 DEF Ordered
  <2>2. ClosedAtEnd'
    BY <1>2, <1>3 DEF ClosedAtEnd
  <2>3. ASSUME NEW j \in DOMAIN running, running'[j].kind = "on", j # Len(running)
        PROVE  running'[j + 1].at = running'[j].endAt
    <3>1. j + 1 \in DOMAIN running
      BY <1>2, <2>3
    <3>2. running[j + 1].at = running[j].endAt
      BY <1>2, <1>3, <2>3 DEF Chained
    <3>. QED BY <1>3, <3>1, <3>2
  <2>. QED BY <1>3, <2>1, <2>2, <2>3 DEF Chained
<1>9. ASSUME kind # "off"
      PROVE  /\ i + 1 \in DOMAIN running /\ ~running'[i + 1].done
             /\ kind = "on" => running'[i + 1].at = running[i].endAt
  <2>1. i # Len(running) /\ i \in 1 .. Len(running)
    BY <1>1, <1>2, <1>9 DEF ClosedAtEnd
  <2>2. i + 1 \in DOMAIN running /\ i <= i + 1 /\ i + 1 # i
    BY <1>2, <2>1
  <2>3. ~running[i + 1].done
    BY <1>2, <1>5, <2>2 DEF FiredInOrder
  <2>4. kind = "on" => running[i + 1].at = running[i].endAt
    BY <1>1, <1>2, <2>1 DEF Chained
  <2>. QED BY <1>3, <2>2, <2>3, <2>4
<1>. QED BY <1>1, <1>2, <1>3, <1>7, <1>8, <1>9 DEF ListInv

\* A slot waits for the event after it, a pause for one that is to come; after
\* the closing all-off there is no run.
LEMMA FireRun ==
  RInv /\ (FireZoneOn \/ FirePause \/ FireAllOff) => ListInv' /\ RunInv' /\ NoOverrun'
<1>. SUFFICES ASSUME RInv, FireZoneOn \/ FirePause \/ FireAllOff
              PROVE  ListInv' /\ RunInv' /\ NoOverrun'
  OBVIOUS
<1>1. CASE FireZoneOn
  <2>1. PICK i \in DOMAIN running : Fire(i, "on") /\ ContinueSchedule(running[i].zone, running[i].endAt)
    BY <1>1 DEF FireZoneOn
  <2>2. /\ ListInv' /\ lock' = "fire" /\ tickAt' <= now'
        /\ i + 1 \in DOMAIN running' /\ ~running'[i + 1].done
        /\ running'[i + 1].at = running[i].endAt
    BY <2>1, FireList
  <2>3. run'.mode = "schedule" /\ run'.endAt = running[i].endAt
    BY <2>1 DEF ContinueSchedule
  <2>. QED BY <2>2, <2>3 DEF RunInv, NextEvent, NoOverrun
<1>2. CASE FirePause
  <2>1. PICK i \in DOMAIN running : Fire(i, "pause") /\ PauseRun
    BY <1>2 DEF FirePause
  <2>2. /\ ListInv' /\ lock' = "fire" /\ tickAt' <= now'
        /\ i + 1 \in DOMAIN running' /\ ~running'[i + 1].done
    BY <2>1, FireList
  <2>3. run'.mode = "schedule" /\ run'.endAt = Never
    BY <2>1 DEF PauseRun, ContinueSchedule
  <2>. QED BY <2>2, <2>3 DEF RunInv, NextEvent, NoOverrun
<1>3. CASE FireAllOff
  <2>1. PICK i \in DOMAIN running : Fire(i, "off") /\ ClearRun
    BY <1>3 DEF FireAllOff
  <2>2. ListInv' /\ lock' = "fire" /\ tickAt' <= now'
    BY <2>1, FireList
  <2>3. run'.mode = "idle" /\ run'.zone = 0
    BY <2>1 DEF ClearRun, NoRun
  <2>. QED BY <2>2, <2>3 DEF RunInv, NoOverrun
<1>. QED BY <1>1, <1>2, <1>3

\* A tick leaves list and run alone or begins a list.
LEMMA TickRun == RInv /\ Tick => ListInv' /\ RunInv' /\ NoOverrun'
<1>. SUFFICES ASSUME RInv, Tick PROVE ListInv' /\ RunInv' /\ NoOverrun'
  OBVIOUS
<1>1. /\ lock = "free" /\ UNCHANGED <<now, run>> /\ tickAt' = now /\ now \in Nat
      /\ ProcessPending(TodaysStarts)
  BY DEF Tick, RInv, TInv, TypeOK
<1>2. CASE NoStart
  <2>1. lock' = "fire" /\ UNCHANGED running
    BY <1>2 DEF NoStart, plans
  <2>. QED BY <1>1, <2>1, SameList DEF RInv, RunInv, NextEvent, NoOverrun
<1>3. CASE \E s \in TodaysStarts : StartSchedule(s.sched)
  <2>1. lock' = "expand" /\ running' = << >>
    BY <1>3 DEF StartSchedule
  <2>2. ListInv'
    BY <2>1, EmptyList DEF ListInv, Ordered, Chained, FiredInOrder, Growing
  <2>. QED BY <1>1, <2>1, <2>2 DEF RInv, RunInv, NoOverrun
<1>. QED BY <1>1, <1>2, <1>3 DEF ProcessPending

\* The pass ends when no event is due and no timer has run out.
LEMMA EndPassRun == RInv /\ (ExpireManual \/ EndPass) => ListInv' /\ RunInv' /\ NoOverrun'
<1>. SUFFICES ASSUME RInv, ExpireManual \/ EndPass PROVE ListInv' /\ RunInv' /\ NoOverrun'
  OBVIOUS
<1>1. CASE ExpireManual
  <2>1. /\ lock = "fire" /\ lock' = "free" /\ UNCHANGED <<now, running, tickAt>> /\ ClearRun
    BY <1>1 DEF ExpireManual, plans
  <2>2. run'.mode = "idle" /\ run'.zone = 0
    BY <2>1 DEF ClearRun, NoRun
  <2>. QED BY <2>1, <2>2, SameList DEF RInv, RunInv, NoOverrun
<1>2. CASE EndPass
  <2>1. /\ lock = "fire" /\ lock' = "free" /\ UNCHANGED <<now, running, run, tickAt>>
        /\ DueEvents = {} /\ ~ManualExpired
    BY <1>2 DEF EndPass, plans
  <2>2. now \in Nat /\ run \in RunSet /\ running \in Seq(EventsOf(Zones))
    BY DEF RInv, TInv, TypeOK
  <2>3. run.mode \in {"idle", "schedule", "manual"} /\ run.endAt \in Nat \cup {Never}
    BY <2>2 DEF RunSet
  <2>4. ASSUME run.zone # 0, run.endAt # Never PROVE now < run.endAt
    <3>1. CASE run.mode = "schedule"
      <4>1. PICK i \in DOMAIN running : ~running[i].done /\ running[i].at = run.endAt
        BY <2>1, <2>4, <3>1 DEF RInv, RunInv, NextEvent
      <4>2. ~(running[i].at <= now)
        BY <2>1, <4>1 DEF DueEvents
      <4>. QED BY <2>2, <2>3, <2>4, <4>1, <4>2
    <3>2. CASE run.mode = "manual"
      BY <2>1, <2>2, <2>3, <2>4, <3>2 DEF ManualExpired
    <3>3. CASE run.mode = "idle"
      BY <2>4, <3>3 DEF RInv, RunInv
    <3>. QED BY <2>3, <3>1, <3>2, <3>3
  <2>. QED BY <2>1, <2>4, SameList DEF RInv, RunInv, NextEvent, NoOverrun
<1>. QED BY <1>1, <1>2

\* A call leaves both alone, drops the list with the run, or takes the run over.
LEMMA OperateRun == RInv /\ Operate => ListInv' /\ RunInv' /\ NoOverrun'
<1>. SUFFICES ASSUME RInv, Operate PROVE ListInv' /\ RunInv' /\ NoOverrun'
  OBVIOUS
<1>1. now \in Nat
  BY DEF RInv, TInv, TypeOK
<1>2. ASSUME Call PROVE lock = "free" /\ UNCHANGED <<now, tickAt>>
  BY <1>2 DEF Call
<1>3. CASE Reload \/ SwapOutput \/ SaveConfig
  <2>1. lock = "free" /\ UNCHANGED <<now, tickAt, phase, lock, running, run>>
    BY <1>2, <1>3 DEF Reload, SwapOutput, SaveConfig, plans, Call
  <2>. QED BY <2>1, SameList DEF RInv, RunInv, NextEvent, NoOverrun
<1>4. ASSUME ClearRun, running' = << >>, UNCHANGED <<now, tickAt>>
      PROVE  ListInv' /\ RunInv' /\ NoOverrun'
  <2>1. run'.mode = "idle" /\ run'.zone = 0
    BY <1>4 DEF ClearRun, NoRun
  <2>2. ListInv'
    BY <1>4 DEF ListInv, Ordered, Chained, FiredInOrder, Growing, ClosedAtEnd
  <2>. QED BY <1>4, <2>1, <2>2 DEF RInv, RunInv, NoOverrun
<1>5. CASE StopAll \/ Shutdown
  <2>1. ClearRun /\ running' = << >> /\ Call
    BY <1>5 DEF StopAll, Shutdown
  <2>. QED BY <1>2, <1>4, <2>1
<1>6. ASSUME QuickRun, running' = << >> PROVE ListInv' /\ RunInv' /\ NoOverrun'
  BY <1>2, <1>4, <1>6 DEF QuickRun
<1>7. CASE SetManualOff
  <2>1. lock = "free" /\ UNCHANGED <<now, tickAt, lock, running>> /\ ClearRun
    BY <1>2, <1>7 DEF SetManualOff, plans
  <2>2. run'.mode = "idle" /\ run'.zone = 0
    BY <2>1 DEF ClearRun, NoRun
  <2>. QED BY <2>1, <2>2, SameList DEF RInv, RunInv, NoOverrun
<1>8. ASSUME NEW z \in Zones, NEW timer \in ManualTimers, SetManualOn(z, timer)
      PROVE  ListInv' /\ RunInv' /\ NoOverrun'
  <2>1. /\ lock = "free" /\ UNCHANGED <<now, tickAt, lock, running>>
        /\ SetManual(z, IF timer > 0 THEN now + timer ELSE Never)
    BY <1>2, <1>8 DEF SetManualOn, plans
  <2>2. run'.mode = "manual" /\ run'.endAt = IF timer > 0 THEN now + timer ELSE Never
    BY <2>1 DEF SetManual
  <2>3. run'.endAt # Never => now < run'.endAt
    BY <1>1, <2>2, Parameters
  <2>. QED BY <2>1, <2>2, <2>3, SameList DEF RInv, RunInv, NoOverrun
<1>9. ASSUME NEW s \in DOMAIN cfg.schedules, QuickRun, StartSchedule(s)
      PROVE  ListInv' /\ RunInv' /\ NoOverrun'
  BY <1>6, <1>9 DEF StartSchedule
<1>10. ASSUME NEW d \in QuickDurations, QuickRun, StartQuick(d)
       PROVE  ListInv' /\ RunInv' /\ NoOverrun'
  BY <1>6, <1>10 DEF StartQuick
<1>. QED BY <1>3, <1>5, <1>7, <1>8, <1>9, <1>10
         DEF Operate, QuickRunSchedule, QuickRunDurations

\* Every step keeps the list of the run and what the run waits for.
LEMMA NextRInv == RInv /\ [Next]_vars => RInv'
<1>. SUFFICES ASSUME RInv, [Next]_vars PROVE RInv'
  OBVIOUS
<1>1. TInv'
  BY NextTInv DEF RInv
<1>. SUFFICES ListInv' /\ RunInv' /\ NoOverrun'
  BY <1>1 DEF RInv
<1>2. CASE Tick
  BY <1>2, TickRun
<1>3. CASE ExpandSlot
  <2>1. /\ lock = "expand" /\ lock' = "expand" /\ UNCHANGED <<now, run, tickAt>>
    BY <1>3 DEF ExpandSlot, bounds
  <2>. QED BY <1>3, <2>1, ExpandSlotList DEF RInv, RunInv, NoOverrun
<1>4. CASE BeginRun
  BY <1>4, BeginRunList DEF BeginRun, NoOverrun
<1>5. CASE FireZoneOn \/ FirePause \/ FireAllOff
  BY <1>5, FireRun
<1>6. CASE ExpireManual \/ EndPass
  BY <1>6, EndPassRun
<1>7. CASE Operate
  BY <1>7, OperateRun
<1>8. CASE AdvanceClock
  <2>1. /\ lock = "free" /\ UNCHANGED <<lock, running, run, tickAt>> /\ now' = now + 1
        /\ now \in Nat /\ tickAt \in Nat /\ tickAt <= now
    BY <1>8 DEF AdvanceClock, plans, bounds, RInv, RunInv, TInv, TypeOK
  <2>2. tickAt' <= now' /\ tickAt' # now'
    BY <2>1
  <2>. QED BY <2>1, <2>2, SameList DEF RInv, RunInv, NextEvent, NoOverrun
<1>9. CASE Crash
  <2>1. running' = << >> /\ run' = NoRun(now) /\ UNCHANGED <<now, tickAt>>
    BY <1>9 DEF Crash
  <2>2. ListInv'
    BY <2>1 DEF ListInv, Ordered, Chained, FiredInOrder, Growing, ClosedAtEnd
  <2>. QED BY <2>1, <2>2 DEF NoRun, RInv, RunInv, NoOverrun
<1>10. CASE UNCHANGED vars
  BY <1>10 DEF vars, plans, bounds, RInv, ListInv, Ordered, Chained, FiredInOrder, Growing,
               ClosedAtEnd, RunInv, NextEvent, NoOverrun
<1>. QED BY <1>2, <1>3, <1>4, <1>5, <1>6, <1>7, <1>8, <1>9, <1>10 DEF Next, Pass

\* The invariant holds of the engine.
LEMMA RInvHolds == Spec => []RInv
  BY InitRInv, NextRInv, PTL DEF Spec

\* After a tick no zone is open past its end, for slots of any length and ticks
\* as late as they may be (processLocked fires all that is due before it gives
\* the mutex back).
THEOREM NeverOverrun == Spec => []NoOverrun
<1>1. RInv => NoOverrun
  BY DEF RInv
<1>. QED BY <1>1, RInvHolds, PTL

\* A run that keeps the schedules waiting has its closing all-off still to come,
\* whoever took the outputs over meanwhile, so the next one is not blocked for ever.
THEOREM RunsEnd == Spec => []RunWillEnd
<1>1. ASSUME RInv, lock = "free", run.mode = "schedule"
      PROVE  \E i \in DOMAIN running : /\ running[i].kind = "off" /\ ~running[i].done
                                       /\ run.endAt # Never => run.endAt <= running[i].at
  <2>1. PICK i \in DOMAIN running :
          ~running[i].done /\ (run.endAt # Never => running[i].at = run.endAt)
    BY <1>1 DEF RInv, RunInv, NextEvent
  <2>2. /\ DOMAIN running = 1 .. Len(running) /\ Len(running) \in Nat
        /\ Ordered /\ FiredInOrder /\ ClosedAtEnd
    BY <1>1 DEF RInv, TInv, TypeOK, ListInv
  <2>3. Len(running) \in DOMAIN running /\ i <= Len(running)
    BY <2>1, <2>2
  <2>4. running[Len(running)].kind = "off" /\ ~running[Len(running)].done
    BY <2>1, <2>2, <2>3 DEF ClosedAtEnd, FiredInOrder
  <2>5. running[i].at <= running[Len(running)].at
    BY <2>1, <2>2, <2>3 DEF Ordered
  <2>. QED BY <2>1, <2>3, <2>4, <2>5
<1>2. RInv => RunWillEnd
  BY <1>1 DEF RunWillEnd
<1>. QED BY <1>2, RInvHolds, PTL

-----------------------------------------------------------------------------
(* A start fires once.  What a tick takes off the list was due by then; what  *)
(* is listed later is still to come, or is of a day that had no tick.         *)

NInv ==
  /\ NeverTwice
  /\ \A s \in consumed : s.at <= tickAt
  /\ phase = "ticking" => lastDay = Day(tickAt)

\* Days are in the order of their minutes.
LEMMA LaterDay ==
  ASSUME NEW a \in Nat, NEW b \in Nat, a <= b, Day(a) # Day(b)
  PROVE  a < Midnight(b)
<1>. DEFINE p == a \div DayLen
            q == b \div DayLen
<1>1. DayLen \in Nat \ {0}
  BY Parameters
<1>2. /\ p \in Nat /\ q \in Nat /\ DayLen * p <= a /\ a < DayLen * p + DayLen
      /\ DayLen * q <= b /\ b < DayLen * q + DayLen
  BY <1>1
<1>3. p # q /\ Midnight(b) = DayLen * q
  BY DEF Day, Midnight
<1>. HIDE DEF p, q
<1>4. \A m, n \in Nat : m < n => DayLen * m + DayLen <= DayLen * n
  <2>. TAKE m, n \in Nat
  <2>. SUFFICES ASSUME m < n PROVE DayLen * m + DayLen <= DayLen * n
    OBVIOUS
  <2>1. PICK k \in Nat : n = (m + 1) + k
    <3>1. n - (m + 1) \in Nat /\ n = (m + 1) + (n - (m + 1))
      OBVIOUS
    <3>. QED BY <3>1
  <2>2. DayLen * n = DayLen * m + DayLen + DayLen * k
    BY <1>1, <2>1
  <2>3. DayLen * k \in Nat /\ DayLen * m \in Nat
    BY <1>1, TimesNat
  <2>. QED BY <1>1, <2>2, <2>3
<1>5. DayLen * p \in Nat /\ DayLen * q \in Nat
  BY <1>1, <1>2, TimesNat
<1>6. CASE p < q
  BY <1>1, <1>2, <1>3, <1>4, <1>5, <1>6
<1>7. CASE q < p
  <2>1. DayLen * q + DayLen <= DayLen * p
    BY <1>2, <1>4, <1>7
  <2>. QED BY <1>1, <1>2, <1>5, <2>1
<1>. QED BY <1>2, <1>3, <1>6, <1>7

\* The starts of a day are not before its midnight.
LEMMA StartsAfterMidnight ==
  ASSUME TypeOK, NEW s \in StartsOf(cfg, now)
  PROVE  Midnight(now) <= s.at
<1>1. Midnight(now) \in Nat
  BY Parameters, DivNat, TimesNat DEF Midnight, Day, TypeOK
<1>2. PICK i \in DOMAIN cfg.schedules : \E k \in DOMAIN cfg.schedules[i].starts :
        s = Start(i, k, Midnight(now) + cfg.schedules[i].starts[k])
  BY DEF StartsOf
<1>. PICK k \in DOMAIN cfg.schedules[i].starts :
        s = Start(i, k, Midnight(now) + cfg.schedules[i].starts[k])
  BY <1>2
<1>3. cfg.schedules[i].starts[k] \in Nat
  <2>1. cfg.schedules[i] \in ScheduleSet
    BY ConfigType DEF TypeOK
  <2>. QED BY <2>1 DEF ScheduleSet
<1>. QED BY <1>1, <1>3 DEF Start

\* What is rebuilt after now was not taken off the list before.
LEMMA RebuiltNew ==
  ASSUME RInv, NInv
  PROVE  Rebuilt(FALSE) \cap consumed = {}
<1>1. now \in Nat /\ tickAt \in Nat /\ tickAt <= now /\ consumed \subseteq StartSet
  BY DEF RInv, TInv, TypeOK, RunInv
<1>2. ASSUME NEW s \in Rebuilt(FALSE), s \in consumed PROVE FALSE
  <2>1. s.at > now
    BY DEF Rebuilt
  <2>2. s.at <= tickAt /\ s.at \in Nat
    BY <1>1, <1>2 DEF NInv, StartSet
  <2>. QED BY <1>1, <2>1, <2>2
<1>. QED BY <1>2

\* Nor are the starts of a day that has its first tick.
LEMMA TodaysStartsNew ==
  ASSUME RInv, NInv, Tick
  PROVE  TodaysStarts \cap consumed = {}
<1>1. CASE phase = "new"
  BY <1>1, RebuiltNew DEF TodaysStarts
<1>2. CASE phase # "new" /\ Day(now) = lastDay
  BY <1>2 DEF TodaysStarts, NInv, NeverTwice
<1>3. CASE phase # "new" /\ Day(now) # lastDay
  <2>1. now \in Nat /\ tickAt \in Nat /\ tickAt <= now /\ consumed \subseteq StartSet /\ TypeOK
    BY DEF RInv, TInv, TypeOK, RunInv
  <2>2. Day(tickAt) # Day(now)
    BY <1>3 DEF Tick, NInv
  <2>3. tickAt < Midnight(now) /\ Midnight(now) \in Nat
    BY <2>1, <2>2, LaterDay, Parameters, DivNat, TimesNat DEF Midnight, Day
  <2>4. ASSUME NEW s \in Rebuilt(TRUE), s \in consumed PROVE FALSE
    <3>1. Midnight(now) <= s.at
      BY <2>1, StartsAfterMidnight DEF Rebuilt
    <3>2. s.at <= tickAt /\ s.at \in Nat
      BY <2>1, <2>4 DEF NInv, StartSet
    <3>. QED BY <2>1, <2>3, <3>1, <3>2
  <2>. QED BY <1>3, <2>4 DEF TodaysStarts
<1>. QED BY <1>1, <1>2, <1>3

\* A tick takes off its list only what is due, and counts it.
LEMMA TickNInv == RInv /\ NInv /\ Tick => NInv'
<1>. SUFFICES ASSUME RInv, NInv, Tick PROVE NInv'
  OBVIOUS
<1>1. /\ TodaysStarts \cap consumed = {} /\ consumed \subseteq StartSet
      /\ now \in Nat /\ tickAt \in Nat /\ tickAt <= now
  BY TodaysStartsNew DEF RInv, TInv, TypeOK, RunInv
<1>2. tickAt' = now /\ lastDay' = Day(now) /\ ProcessPending(TodaysStarts)
  BY DEF Tick
<1>3. PICK taken \in SUBSET Due(TodaysStarts) :
        pending' = TodaysStarts \ taken /\ consumed' = consumed \cup taken
  <2>1. \A s : Passed(TodaysStarts, s) \subseteq Due(TodaysStarts)
    BY DEF Passed
  <2>2. CASE pending' = TodaysStarts /\ consumed' = consumed
    <3>1. {} \in SUBSET Due(TodaysStarts) /\ TodaysStarts = TodaysStarts \ {}
          /\ consumed = consumed \cup {}
      OBVIOUS
    <3>. QED BY <2>2, <3>1
  <2>3. CASE /\ pending' = TodaysStarts \ Due(TodaysStarts)
             /\ consumed' = consumed \cup Due(TodaysStarts)
    BY <2>3
  <2>4. ASSUME NEW s, pending' = TodaysStarts \ Passed(TodaysStarts, s),
                      consumed' = consumed \cup Passed(TodaysStarts, s)
        PROVE  \E taken \in SUBSET Due(TodaysStarts) :
                 pending' = TodaysStarts \ taken /\ consumed' = consumed \cup taken
    BY <2>1, <2>4
  <2>. QED BY <1>2, <2>2, <2>3, <2>4 DEF ProcessPending
<1>4. NeverTwice'
  BY <1>1, <1>3 DEF NeverTwice
<1>5. \A s \in consumed' : s.at <= now
  <2>1. \A s \in consumed : s.at \in Nat /\ s.at <= tickAt
    BY <1>1 DEF NInv, StartSet
  <2>2. \A s \in Due(TodaysStarts) : s.at <= now
    BY DEF Due
  <2>3. \A s \in consumed : s.at <= now
    BY <1>1, <2>1
  <2>. QED BY <1>3, <2>2, <2>3
<1>. QED BY <1>2, <1>4, <1>5 DEF NInv, Day

\* Every step keeps the lists apart.
LEMMA NextNInv == RInv /\ NInv /\ [Next]_vars => NInv'
<1>. SUFFICES ASSUME RInv, NInv, [Next]_vars PROVE NInv'
  OBVIOUS
<1>1. CASE Tick
  BY <1>1, TickNInv
<1>2. ASSUME UNCHANGED <<consumed, tickAt, lastDay>>, phase' = "ticking" => phase = "ticking",
             pending' \cap consumed = {}
      PROVE  NInv'
  BY <1>2 DEF NInv, NeverTwice, Day
<1>3. ASSUME UNCHANGED <<consumed, tickAt, lastDay, phase, pending>> PROVE NInv'
  BY <1>2, <1>3 DEF NInv, NeverTwice
<1>4. CASE Pass
  <2>1. UNCHANGED <<consumed, tickAt, lastDay, phase, pending>>
    BY <1>4 DEF Pass, ExpandSlot, BeginRun, FireZoneOn, FirePause, FireAllOff, Fire,
                ExpireManual, EndPass, bounds
  <2>. QED BY <1>3, <2>1
<1>5. CASE Operate
  <2>1. Call => UNCHANGED <<consumed, tickAt, lastDay>>
    BY DEF Call
  <2>2. CASE SetManualOff \/ SwapOutput \/ SaveConfig
    <3>1. UNCHANGED <<consumed, tickAt, lastDay, phase, pending>>
      BY <2>1, <2>2 DEF SetManualOff, SwapOutput, SaveConfig
    <3>. QED BY <1>3, <3>1
  <2>3. ASSUME NEW z \in Zones, NEW timer \in ManualTimers, SetManualOn(z, timer)
        PROVE  NInv'
    <3>1. UNCHANGED <<consumed, tickAt, lastDay, phase, pending>>
      BY <2>1, <2>3 DEF SetManualOn
    <3>. QED BY <1>3, <3>1
  <2>4. CASE Reload \/ StopAll \/ QuickRun
    <3>1. UNCHANGED <<consumed, tickAt, lastDay, phase>> /\ pending' = Rebuilt(FALSE)
      BY <2>1, <2>4 DEF Reload, StopAll, QuickRun
    <3>. QED BY <1>2, <3>1, RebuiltNew
  <2>5. CASE Shutdown
    <3>1. UNCHANGED <<consumed, tickAt, lastDay>> /\ phase' = "stopped" /\ pending' = {}
      BY <2>1, <2>5 DEF Shutdown
    <3>. QED BY <1>2, <3>1
  <2>. QED BY <1>5, <2>2, <2>3, <2>4, <2>5 DEF Operate, QuickRunSchedule, QuickRunDurations
<1>6. CASE AdvanceClock
  BY <1>3, <1>6 DEF AdvanceClock, bounds
<1>7. CASE Crash
  <2>1. UNCHANGED <<consumed, tickAt>> /\ phase' = "new" /\ pending' = {}
    BY <1>7 DEF Crash
  <2>. QED BY <2>1 DEF NInv, NeverTwice
<1>8. CASE UNCHANGED vars
  BY <1>3, <1>8 DEF vars, bounds
<1>. QED BY <1>1, <1>4, <1>5, <1>6, <1>7, <1>8 DEF Next

\* No start fires twice, or after a rain delay took it: reloads, midnights and
\* restarts at any time list only what no tick has seen (rebuildPendingLocked).
THEOREM StartsFireOnce == Spec => []NeverTwice
<1>1. Init => NInv
  BY DEF Init, NInv, NeverTwice
<1>2. RInv /\ NInv /\ [Next]_vars => NInv'
  BY NextNInv
<1>3. NInv => NeverTwice
  BY DEF NInv
<1>. QED BY <1>1, <1>2, <1>3, RInvHolds, PTL DEF Spec
=============================================================================

---------------------------- MODULE HandlersProofs ----------------------------
(***************************************************************************)
(* That requests which overlap leave engine, board, listener and the end of  *)
(* the daemon in order, for any number of requests under way, whatever they  *)
(* ask for, and every bound of module Handlers.                              *)
(***************************************************************************)
EXTENDS Handlers, SequenceTheorems, TLAPS

(* What a request is while it is under way.                                  *)

Gone == [at |-> "gone"]

Task == [at : Places \ {"idle", "gone"}, want : Wanted, prev : Settings, new : Nat,
         stops : BOOLEAN, wet : BOOLEAN]

\* Which requests get where.
Placed(r) ==
  /\ r.at = "update" => r.want.kind \notin {"postManual", "postStop", "postQuickRun"}
  /\ r.at = "look" => r.want.kind = "putZone"
  /\ r.at \in {"open", "swap", "close"} => r.want.kind \in SettingsRequests
  /\ r.at \in {"listen", "revert"} => r.want.kind = "putSettings"

ReqOK ==
  /\ req \in [Clients -> Task \cup {Idle, Gone}]
  /\ \A c \in Clients : Placed(req[c])

TInv == TypeOK /\ ReqOK /\ asked \in Nat

\* A client that is neither idle nor gone has a task.
LEMMA TaskOf ==
  ASSUME ReqOK, NEW c \in Clients, req[c].at \notin {"idle", "gone"}
  PROVE  req[c] \in Task /\ Placed(req[c])
BY DEF ReqOK, Idle, Gone

\* What a request to save or restore settings carries.
LEMMA BodyOf ==
  ASSUME NEW w \in Wanted
  PROVE  /\ w.kind = "putSettings" => w.body \in Settings
         /\ w.kind = "postRestore" => w.body \in ConfigSet /\ w.body.settings \in Settings
         /\ w.kind \in {"putZone", "postManual"} => w.zone \in Zones
         /\ w.kind \in {"putZone", "postManual", "putSystemRun"} => w.on \in BOOLEAN
         /\ w.kind \in {"putSchedule", "deleteSchedule"} => w.id \in Nat
         /\ w.kind \in {"postSchedule", "postStop", "postQuickRun", "putSchedule",
                        "deleteSchedule", "putSystemRun", "putSettings", "postRestore",
                        "putZone", "postManual"}
<1>1. w \in RequestSet
  BY Parameters
<1>2. QED
  BY <1>1 DEF RequestSet, ConfigSet

\* The board it asks for is one of the boards.
LEMMA BoardOf ==
  ASSUME NEW r \in Task, r.want.kind \in SettingsRequests
  PROVE  WantedBoard(r) \in Boards
<1>1. r.want \in Wanted
  BY DEF Task
<1>2. QED
  BY <1>1, BodyOf DEF WantedBoard, Settings, SettingsRequests

\* A request goes on to another place, or is over.
LEMMA GotoFacts ==
  ASSUME ReqOK, NEW c \in Clients, req[c].at \notin {"idle", "gone"},
         NEW place \in Places \ {"gone"}, Goto(c, place)
  PROVE  /\ req' \in [Clients -> Task \cup {Idle, Gone}]
         /\ req'[c].at = place
         /\ place # "idle" => /\ req'[c].want = req[c].want /\ req'[c].prev = req[c].prev
                              /\ req'[c].stops = req[c].stops /\ req'[c].wet = req[c].wet
         /\ \A d \in Clients \ {c} : req'[d] = req[d]
<1> DEFINE r == req[c]
           next == IF place = "idle" THEN Idle ELSE [r EXCEPT !.at = place]
<1>1. r \in Task
  BY TaskOf
<1>2. req' = [req EXCEPT ![c] = next]
  BY DEF Goto
<1>3. /\ next \in Task \cup {Idle} /\ next.at = place
      /\ place # "idle" => /\ next.want = r.want /\ next.prev = r.prev
                           /\ next.stops = r.stops /\ next.wet = r.wet
  BY <1>1 DEF Task, Idle
<1> HIDE DEF next
<1>4. req \in [Clients -> Task \cup {Idle, Gone}]
  BY DEF ReqOK
<1>5. QED
  BY <1>2, <1>3, <1>4

\* A step that moves one request, to where it may be, leaves all of them right.
LEMMA ReqStays ==
  ASSUME ReqOK, NEW c \in Clients, req' \in [Clients -> Task \cup {Idle, Gone}],
         \A d \in Clients \ {c} : req'[d] = req[d], Placed(req'[c])
  PROVE  ReqOK'
BY DEF ReqOK

\* An idle request may be idle.
LEMMA IdlePlaced == ASSUME NEW r, r.at \in {"idle", "gone"} PROVE Placed(r)
BY DEF Placed

-----------------------------------------------------------------------------
(* Types.                                                                    *)

\* The starts of a configuration name places and programs.
LEMMA StartsTyped ==
  ASSUME NEW c \in ConfigSet, NEW s \in StartsOf(c)
  PROVE  s.idx \in Nat \ {0} /\ s.id \in Nat
BY DEF StartsOf, ConfigSet

RunOK ==
  /\ \A s \in pending : s.idx \in Nat \ {0} /\ s.id \in Nat
  /\ zone \in Zones \cup {0} /\ queue \subseteq Zones
  /\ cycle \in {"none", "scheduled", "quick"} /\ blocks \in BOOLEAN

\* A new run waters zones.
LEMMA CycleTyped ==
  ASSUME NEW zs, zs \subseteq Zones, NEW kind \in {"scheduled", "quick"}, StartCycle(zs, kind)
  PROVE  /\ zone' \in Zones \cup {0} /\ queue' \subseteq Zones
         /\ cycle' \in {"none", kind} /\ blocks' \in BOOLEAN
BY DEF StartCycle, Dry

\* A rebuilt list names places and programs.
LEMMA RebuildTyped ==
  ASSUME cfg \in ConfigSet, Rebuild
  PROVE  \A s \in pending' : s.idx \in Nat \ {0} /\ s.id \in Nat
BY StartsTyped DEF Rebuild

\* Whatever the engine is told, it lists starts and waters zones.
LEMMA CallTyped ==
  ASSUME TInv, NEW r \in Task, EngineCall(r)
  PROVE  /\ RunOK' /\ (UNCHANGED <<zone, relay>> \/ Latch)
         /\ r.want.kind # "postManual" => Rebuild
         /\ r.want.kind = "postManual" => pending' = pending
         /\ r.want.kind = "putSystemRun" /\ ~r.want.on => StopAll
         /\ cycle' \in {cycle, "none", "quick"}
<1>1. cfg \in ConfigSet /\ RunOK /\ r.want \in Wanted /\ cfg.enabled \subseteq Zones
  BY DEF TInv, TypeOK, RunOK, Task, ConfigSet
<1> DEFINE w == r.want
<1>2. /\ w.kind \in {"postSchedule", "postStop", "postQuickRun", "putSchedule",
                     "deleteSchedule", "putSystemRun", "putSettings", "postRestore",
                     "putZone", "postManual"}
      /\ w.kind \in {"putZone", "postManual"} => w.zone \in Zones
  BY <1>1, BodyOf
<1>3. CASE Reload /\ w.kind # "postManual" /\ ~(w.kind = "putSystemRun" /\ ~w.on)
  BY <1>1, <1>3, RebuildTyped DEF Reload, RunOK, run
<1>4. CASE StopAll /\ w.kind # "postManual"
  BY <1>1, <1>4, RebuildTyped DEF StopAll, Dry, RunOK
<1>5. CASE SetManualZone(w.zone, w.on) /\ w.kind = "postManual"
  BY <1>1, <1>2, <1>5 DEF SetManualZone, RunOK
<1>6. CASE QuickRun /\ w.kind = "postQuickRun"
  <2>1. PICK zs \in SUBSET cfg.enabled : StartCycle(zs, "quick")
    BY <1>6 DEF QuickRun
  <2>2. zs \subseteq Zones
    BY <1>1
  <2>3. QED
    BY <1>1, <1>6, <2>1, <2>2, CycleTyped, RebuildTyped DEF QuickRun, RunOK
<1>7. QED
  BY <1>2, <1>3, <1>4, <1>5, <1>6 DEF EngineCall

\* Driving a board opens or closes a valve on it and nowhere else.
LEMMA LatchFacts ==
  ASSUME relay' = relay \/ Latch
  PROVE  relay' \subseteq relay \cup {driven} /\ relay \subseteq relay' \cup {driven}
BY DEF Latch, Driving

\* The first configuration is in force and nobody asks for anything.
LEMMA InitTInv == Init => TInv
<1> SUFFICES ASSUME Init PROVE TInv
  OBVIOUS
<1>1. cfg \in ConfigSet /\ cfg.settings \in Settings
  BY Parameters DEF Init, ConfigSet
<1>2. \A s \in pending : s.idx \in Nat \ {0} /\ s.id \in Nat
  BY <1>1, StartsTyped DEF Init
<1>3. /\ cfg.settings.board \in Boards /\ cfg.settings.port \in Ports
      /\ held \subseteq Exclusive
  BY <1>1 DEF Init, Settings, Exclusive
<1>4. \A c \in Clients : At(c) = "idle" /\ Placed(req[c])
  BY DEF Init, At, Idle, Placed
<1>5. TypeOK
  BY <1>1, <1>2, <1>3, <1>4 DEF Init, TypeOK, Places
<1>6. ReqOK
  BY <1>4 DEF Init, ReqOK
<1>7. QED
  BY <1>5, <1>6 DEF TInv, Init

\* A step of the engine's goroutine or of main: requests and configuration are
\* left alone.
LEMMA EngineTyped ==
  ASSUME TInv, RunOK', relay' = relay \/ Latch, due' \subseteq Nat,
         UNCHANGED <<cfg, driven, current, held, outMu, port, req, asked>>
  PROVE  TInv'
<1>1. relay' \subseteq relay \cup {driven}
  BY LatchFacts
<1>2. TypeOK'
  BY <1>1 DEF TInv, TypeOK, RunOK, At
<1>3. QED
  BY <1>2 DEF TInv, ReqOK

\* A step of one request.
LEMMA RequestTyped ==
  ASSUME TInv, NEW c \in Clients, req' \in [Clients -> Task \cup {Idle, Gone}],
         \A d \in Clients \ {c} : req'[d] = req[d], Placed(req'[c]),
         cfg' \in ConfigSet, RunOK', {driven', current'} \cup relay' \subseteq Boards,
         held' \subseteq Exclusive, outMu' \in Clients \cup {Nobody}, port' \in Ports,
         asked' \in Nat, UNCHANGED due
  PROVE  TInv'
<1>1. ReqOK'
  BY ReqStays DEF TInv
<1>2. \A d \in Clients : /\ req'[d].at \in Places
                         /\ req'[d].at \notin {"idle", "gone"} => req'[d].want \in Wanted
  BY DEF Task, Idle, Gone, Places
<1>3. TypeOK'
  BY <1>2 DEF TInv, TypeOK, RunOK, At
<1>4. QED
  BY <1>1, <1>3 DEF TInv

\* Removing one of a list of programs leaves a list of programs.
LEMMA Removed ==
  ASSUME NEW s \in Seq(Nat), NEW i \in DOMAIN s
  PROVE  RemoveAt(s, i) \in Seq(Nat)
<1>1. /\ SubSeq(s, 1, i - 1) \in Seq(Nat) /\ SubSeq(s, i + 1, Len(s)) \in Seq(Nat)
      /\ DOMAIN s = 1 .. Len(s) /\ Len(s) \in Nat
  BY SubSeqProperties
<1>2. QED
  BY <1>1, ConcatProperties DEF RemoveAt

\* What an update writes is a configuration.
LEMMA EditedTyped ==
  ASSUME cfg \in ConfigSet, NEW r \in Task, Placed(r), r.at = "update", Edits(r.want)
  PROVE  /\ Edited(r) \in ConfigSet
         /\ r.want.kind \notin SettingsRequests =>
              /\ Edited(r).settings.board = cfg.settings.board
              /\ Edited(r).settings.port = cfg.settings.port
         /\ r.want.kind \notin SettingsRequests \cup {"putSystemRun"} =>
              Edited(r).settings = cfg.settings
         /\ r.want.kind = "putSystemRun" => Edited(r).settings.run = r.want.on
         /\ r.want.kind = "putSettings" => Edited(r).settings = r.want.body
         /\ r.want.kind = "postRestore" => Edited(r).settings = r.want.body.settings
<1> DEFINE w == r.want
<1>1. /\ w \in Wanted /\ r.new \in Nat
      /\ cfg.settings \in Settings /\ cfg.enabled \subseteq Zones /\ cfg.schedules \in Seq(Nat)
  BY DEF Task, ConfigSet
<1>2. /\ w.kind \in {"postSchedule", "putSchedule", "deleteSchedule", "putSystemRun",
                     "putSettings", "postRestore", "putZone"}
      /\ w.kind = "putSettings" => w.body \in Settings
      /\ w.kind = "postRestore" => w.body \in ConfigSet
      /\ w.kind = "putZone" => w.zone \in Zones
      /\ w.kind = "putSystemRun" => w.on \in BOOLEAN
  BY <1>1, BodyOf DEF Placed
<1>3. CASE w.kind = "postSchedule"
  <2>1. Edited(r) = [cfg EXCEPT !.schedules = Append(@, r.new)]
    BY <1>3 DEF Edited
  <2>2. Append(cfg.schedules, r.new) \in Seq(Nat)
    BY <1>1, AppendProperties
  <2>3. QED
    BY <1>1, <1>3, <2>1, <2>2 DEF ConfigSet, SettingsRequests
<1>4. CASE w.kind = "putSchedule"
  <2>1. Edited(r) = [cfg EXCEPT !.schedules[w.id] = r.new]
    BY <1>4 DEF Edited
  <2>2. [cfg.schedules EXCEPT ![w.id] = r.new] \in Seq(Nat)
    BY <1>1, ExceptSeq, <1>4 DEF Edits
  <2>3. QED
    BY <1>1, <1>4, <2>1, <2>2 DEF ConfigSet, SettingsRequests
<1>5. CASE w.kind = "deleteSchedule"
  <2>1. Edited(r) = [cfg EXCEPT !.schedules = RemoveAt(@, w.id)]
    BY <1>5 DEF Edited
  <2>2. RemoveAt(cfg.schedules, w.id) \in Seq(Nat)
    BY <1>1, Removed, <1>5 DEF Edits
  <2>3. QED
    BY <1>1, <1>5, <2>1, <2>2 DEF ConfigSet, SettingsRequests
<1>6. CASE w.kind = "putSystemRun"
  <2>1. Edited(r) = [cfg EXCEPT !.settings.run = w.on]
    BY <1>6 DEF Edited
  <2>2. [cfg.settings EXCEPT !.run = w.on] \in Settings
    BY <1>1, <1>2, <1>6 DEF Settings
  <2>3. /\ [cfg.settings EXCEPT !.run = w.on].board = cfg.settings.board
        /\ [cfg.settings EXCEPT !.run = w.on].port = cfg.settings.port
        /\ [cfg.settings EXCEPT !.run = w.on].run = w.on
    BY <1>1 DEF Settings
  <2>4. Edited(r) \in ConfigSet /\ Edited(r).settings = [cfg.settings EXCEPT !.run = w.on]
    BY <1>1, <2>1, <2>2 DEF ConfigSet
  <2>5. QED
    BY <1>6, <2>3, <2>4 DEF SettingsRequests
<1>7. CASE w.kind = "putSettings"
  <2>1. Edited(r) = [cfg EXCEPT !.settings = w.body]
    BY <1>7 DEF Edited
  <2>2. QED
    BY <1>1, <1>2, <1>7, <2>1 DEF ConfigSet, SettingsRequests
<1>8. CASE w.kind = "postRestore"
  <2>1. Edited(r) = w.body
    BY <1>8 DEF Edited
  <2>2. QED
    BY <1>1, <1>2, <1>8, <2>1 DEF SettingsRequests
<1>9. CASE w.kind = "putZone"
  <2>1. Edited(r) = [cfg EXCEPT !.enabled = IF w.on THEN @ \cup {w.zone} ELSE @ \ {w.zone}]
    BY <1>9 DEF Edited
  <2>2. QED
    BY <1>1, <1>2, <1>9, <2>1 DEF ConfigSet, SettingsRequests
<1>10. QED
  BY <1>2, <1>3, <1>4, <1>5, <1>6, <1>7, <1>8, <1>9

\* The steps of the engine's goroutine: no request and nothing stored changes.
EngineStep == FireStart \/ NextSlot \/ Pause \/ EndCycle \/ ManualEnd

\* What they may do to the list and to the run.
LEMMA EngineStepFacts ==
  ASSUME TInv, EngineStep
  PROVE  /\ RunOK' /\ Latch /\ looping
         /\ UNCHANGED <<cfg, due, driven, current, held, outMu, daemon, req, history, bounds>>
         /\ \/ pending' = pending
            \/ \E s \in pending : s.id \in due /\ pending' = pending \ {s}
         /\ pending = {} => cycle' \in {cycle, "none"}
         /\ pending = {} /\ queue = {} /\ zone = 0 /\ cycle = "none" => FALSE
<1> USE DEF TickEnd, starts, daemon, history, bounds
<1>1. cfg \in ConfigSet /\ RunOK /\ cfg.enabled \subseteq Zones
  BY DEF TInv, TypeOK, RunOK, ConfigSet
<1>2. CASE FireStart
  <2>1. PICK s \in pending :
          /\ s.id \in due /\ pending' = pending \ {s}
          /\ \/ \E zs \in SUBSET cfg.enabled : StartCycle(zs, "scheduled")
             \/ UNCHANGED run
    BY <1>2 DEF FireStart
  <2>2. /\ zone' \in Zones \cup {0} /\ queue' \subseteq Zones
        /\ cycle' \in {"none", "scheduled", "quick"} /\ blocks' \in BOOLEAN
    <3>1. ASSUME NEW zs \in SUBSET cfg.enabled, StartCycle(zs, "scheduled")
          PROVE  /\ zone' \in Zones \cup {0} /\ queue' \subseteq Zones
                 /\ cycle' \in {"none", "scheduled", "quick"} /\ blocks' \in BOOLEAN
      <4>1. zs \subseteq Zones
        BY <1>1
      <4>2. QED
        BY <3>1, <4>1, CycleTyped
    <3>2. QED
      BY <1>1, <2>1, <3>1 DEF RunOK, run
  <2>3. RunOK'
    BY <1>1, <2>1, <2>2 DEF RunOK
  <2>4. QED
    BY <1>2, <2>1, <2>3 DEF FireStart
<1>3. CASE NextSlot
  BY <1>1, <1>3 DEF NextSlot, RunOK
<1>4. CASE Pause
  BY <1>1, <1>4 DEF Pause, RunOK
<1>5. CASE EndCycle
  BY <1>1, <1>5 DEF EndCycle, Dry, RunOK
<1>6. CASE ManualEnd
  BY <1>1, <1>6 DEF ManualEnd, RunOK
<1>7. QED
  BY <1>2, <1>3, <1>4, <1>5, <1>6 DEF EngineStep

\* The steps of main before the board is closed, and of the engine's end.
EndStep == Signal \/ StopHTTP \/ StopEngine \/ EndLoop

\* They stop the water or leave it alone.
LEMMA EndStepFacts ==
  ASSUME TInv, EndStep
  PROVE  /\ RunOK' /\ (relay' = relay \/ Latch)
         /\ UNCHANGED <<cfg, due, driven, current, held, outMu, port, req, history, bounds>>
         /\ \/ phase = "up" /\ phase' = "stopping" /\ UNCHANGED <<pending, run, relay>>
            \/ phase = "stopping" /\ phase' = "served" /\ UNCHANGED <<pending, run, relay>>
            \/ phase = "served" /\ phase' = "off" /\ pending' = {} /\ Dry
            \/ phase \notin {"up", "exited"} /\ phase' = phase /\ pending' = {} /\ Dry
<1> USE DEF Main, history, bounds
<1>1. RunOK
  BY DEF TInv, TypeOK, RunOK
<1>2. CASE Signal
  BY <1>1, <1>2 DEF Signal, RunOK, run
<1>3. CASE StopHTTP
  BY <1>1, <1>3 DEF StopHTTP, RunOK, run
<1>4. CASE StopEngine
  BY <1>1, <1>4 DEF StopEngine, Shutdown, Dry, RunOK
<1>5. CASE EndLoop
  BY <1>1, <1>5 DEF EndLoop, Shutdown, Dry, RunOK
<1>6. QED
  BY <1>2, <1>3, <1>4, <1>5 DEF EndStep

\* A request is read.
LEMMA BeginFacts ==
  ASSUME TInv, NEW c \in Clients, Begin(c)
  PROVE  \E w \in Wanted :
           /\ req[c].at = "idle" /\ req' \in [Clients -> Task \cup {Idle, Gone}]
           /\ \A d \in Clients \ {c} : req'[d] = req[d]
           /\ req'[c].want = w /\ req'[c].prev = cfg.settings
           /\ req'[c].at = IF w.kind \in {"postManual", "postStop", "postQuickRun"}
                           THEN "engine" ELSE "update"
           /\ Placed(req'[c])
           /\ unsure' = unsure \cup Doubts(w)
           /\ asked' \in Nat
           /\ UNCHANGED <<cfg, starts, run, boards, daemon, offBy, late, faults>>
<1>1. PICK w \in Wanted :
        /\ req' = [req EXCEPT ![c] =
             [at    |-> IF w.kind \in {"postManual", "postStop", "postQuickRun"}
                        THEN "engine" ELSE "update",
              want  |-> w, prev |-> cfg.settings, new |-> MaxSchedules + asked,
              stops |-> FALSE, wet |-> FALSE]]
        /\ unsure' = unsure \cup Doubts(w)
  BY DEF Begin
<1> DEFINE task == [at    |-> IF w.kind \in {"postManual", "postStop", "postQuickRun"}
                              THEN "engine" ELSE "update",
                    want  |-> w, prev |-> cfg.settings, new |-> MaxSchedules + asked,
                    stops |-> FALSE, wet |-> FALSE]
<1>2. cfg.settings \in Settings /\ MaxSchedules + asked \in Nat /\ asked + 1 \in Nat
  BY Parameters DEF TInv, TypeOK, ConfigSet
<1>3. task \in Task /\ Placed(task)
  BY <1>2 DEF Task, Placed, Places
<1>4. /\ task.want = w /\ task.prev = cfg.settings
      /\ task.at = IF w.kind \in {"postManual", "postStop", "postQuickRun"}
                   THEN "engine" ELSE "update"
  OBVIOUS
<1> HIDE DEF task
<1>5. req \in [Clients -> Task \cup {Idle, Gone}] /\ req' = [req EXCEPT ![c] = task]
  BY <1>1 DEF TInv, ReqOK, task
<1>6. /\ req' \in [Clients -> Task \cup {Idle, Gone}] /\ req'[c] = task
      /\ \A d \in Clients \ {c} : req'[d] = req[d]
  BY <1>3, <1>5
<1>7. /\ req[c].at = "idle" /\ asked' \in Nat
      /\ UNCHANGED <<cfg, starts, run, boards, daemon, offBy, late, faults>>
  BY <1>2 DEF Begin, At
<1>8. QED
  BY <1>1, <1>3, <1>4, <1>6, <1>7

\* The configuration is changed, or the request is over.
LEMMA UpdateFacts ==
  ASSUME TInv, NEW c \in Clients, Update(c)
  PROVE  /\ req[c].at = "update" /\ req[c] \in Task /\ Placed(req[c])
         /\ req' \in [Clients -> Task \cup {Idle, Gone}]
         /\ \A d \in Clients \ {c} : req'[d] = req[d]
         /\ Placed(req'[c])
         /\ UNCHANGED <<starts, run, boards, daemon, late, unsure, asked>>
         /\ \/ /\ Edits(req[c].want) /\ cfg' = Edited(req[c])
               /\ req'[c].at = IF req[c].want.kind = "putZone" THEN "look" ELSE "engine"
               /\ req'[c].want = req[c].want /\ req'[c].prev = req[c].prev
               /\ offBy' = IF req[c].want.kind \in {"putSystemRun", "putSettings", "postRestore"}
                           THEN req[c].want.kind ELSE offBy
            \/ req'[c].at = "idle" /\ cfg' = cfg /\ offBy' = offBy
<1>1. req[c].at = "update" /\ ReqOK
  BY DEF Update, At, TInv
<1>2. req[c] \in Task /\ Placed(req[c])
  BY <1>1, TaskOf
<1>3. UNCHANGED <<starts, run, boards, daemon, late, unsure, asked>>
  BY DEF Update
<1>4. CASE Goto(c, "idle") /\ UNCHANGED <<cfg, offBy>>
  BY <1>1, <1>2, <1>3, <1>4, GotoFacts, IdlePlaced DEF Places
<1>5. CASE Edits(req[c].want) /\ cfg' = Edited(req[c])
           /\ Goto(c, IF req[c].want.kind = "putZone" THEN "look" ELSE "engine")
           /\ offBy' = IF req[c].want.kind \in {"putSystemRun", "putSettings", "postRestore"}
                       THEN req[c].want.kind ELSE offBy
  <2> DEFINE place == IF req[c].want.kind = "putZone" THEN "look" ELSE "engine"
  <2>1. place \in Places \ {"gone", "idle"}
    BY DEF Places
  <2>2. /\ req' \in [Clients -> Task \cup {Idle, Gone}]
        /\ req'[c].at = place
        /\ req'[c].want = req[c].want /\ req'[c].prev = req[c].prev
        /\ \A d \in Clients \ {c} : req'[d] = req[d]
    BY <1>1, <1>5, <2>1, GotoFacts
  <2>3. Placed(req'[c])
    BY <2>2 DEF Placed
  <2>4. QED
    BY <1>1, <1>2, <1>3, <1>5, <2>2, <2>3
<1>6. QED
  BY <1>4, <1>5 DEF Update

\* putZone has looked at the run.
LEMMA LookFacts ==
  ASSUME TInv, NEW c \in Clients, Look(c)
  PROVE  /\ req[c].at = "look" /\ req[c].want.kind = "putZone"
         /\ req' \in [Clients -> Task \cup {Idle, Gone}]
         /\ \A d \in Clients \ {c} : req'[d] = req[d]
         /\ req'[c].at = "engine" /\ req'[c].want = req[c].want /\ Placed(req'[c])
         /\ UNCHANGED <<cfg, starts, run, boards, daemon, history, bounds>>
<1> DEFINE w == req[c].want
           next == [req[c] EXCEPT !.at = "engine", !.stops = (zone = w.zone /\ ~w.on)]
<1>1. req[c].at = "look" /\ ReqOK
  BY DEF Look, At, TInv
<1>2. req[c] \in Task /\ Placed(req[c])
  BY <1>1, TaskOf
<1>3. req' = [req EXCEPT ![c] = next]
  BY DEF Look
<1>4. (zone = w.zone /\ ~w.on) \in BOOLEAN
  OBVIOUS
<1>5. next \in Task /\ next.at = "engine" /\ next.want = w
  BY <1>2, <1>4 DEF Task, Places
<1> HIDE DEF next
<1>6. /\ req' \in [Clients -> Task \cup {Idle, Gone}] /\ req'[c] = next
      /\ \A d \in Clients \ {c} : req'[d] = req[d]
  BY <1>1, <1>3, <1>5 DEF ReqOK
<1>7. Placed(next)
  BY <1>5 DEF Placed
<1>8. UNCHANGED <<cfg, starts, run, boards, daemon, history, bounds>>
  BY DEF Look
<1>9. QED
  BY <1>1, <1>2, <1>5, <1>6, <1>7, <1>8 DEF Placed

\* The engine was told.
LEMMA CallFacts ==
  ASSUME TInv, NEW c \in Clients, CallEngine(c)
  PROVE  /\ req[c].at = "engine" /\ req[c] \in Task /\ EngineCall(req[c])
         /\ req' \in [Clients -> Task \cup {Idle, Gone}]
         /\ \A d \in Clients \ {c} : req'[d] = req[d]
         /\ req'[c].at = AfterEngine(req[c]) /\ AfterEngine(req[c]) \in {"open", "listen", "idle"}
         /\ req'[c].at # "idle" => req'[c].want = req[c].want /\ req'[c].prev = req[c].prev
         /\ Placed(req'[c])
         /\ late' = (late \/ phase \in {"off", "closed"})
         /\ UNCHANGED <<cfg, due, driven, current, held, outMu, daemon, bounds, offBy, unsure>>
<1>1. req[c].at = "engine" /\ ReqOK
  BY DEF CallEngine, At, TInv
<1>2. req[c] \in Task
  BY <1>1, TaskOf
<1>3. /\ AfterEngine(req[c]) \in {"open", "listen", "idle"}
      /\ AfterEngine(req[c]) = "open" => req[c].want.kind \in SettingsRequests
      /\ AfterEngine(req[c]) = "listen" => req[c].want.kind = "putSettings"
  BY DEF AfterEngine, NewPort, SettingsRequests
<1>4. Goto(c, AfterEngine(req[c])) /\ AfterEngine(req[c]) \in Places \ {"gone"}
  BY <1>3 DEF CallEngine, Places
<1>5. /\ req' \in [Clients -> Task \cup {Idle, Gone}]
      /\ \A d \in Clients \ {c} : req'[d] = req[d]
      /\ req'[c].at = AfterEngine(req[c])
      /\ req'[c].at # "idle" => req'[c].want = req[c].want /\ req'[c].prev = req[c].prev
  BY <1>1, <1>4, GotoFacts
<1>6. Placed(req'[c])
  BY <1>3, <1>5 DEF Placed
<1>7. /\ late' = (late \/ phase \in {"off", "closed"}) /\ EngineCall(req[c])
      /\ UNCHANGED <<cfg, due, driven, current, held, outMu, daemon, bounds, offBy, unsure>>
  BY DEF CallEngine, Reached
<1>8. QED
  BY <1>1, <1>2, <1>3, <1>5, <1>6, <1>7

\* The board was opened, or could not be.
LEMMA OpenFacts ==
  ASSUME TInv, NEW c \in Clients, OpenBoard(c)
  PROVE  /\ req[c].at = "open" /\ req[c] \in Task /\ req[c].want.kind \in SettingsRequests
         /\ req' \in [Clients -> Task \cup {Idle, Gone}]
         /\ \A d \in Clients \ {c} : req'[d] = req[d]
         /\ Placed(req'[c])
         /\ UNCHANGED <<cfg, starts, run, driven, current, relay, outMu, daemon, offBy, late,
                        bounds>>
         /\ \/ /\ Free(WantedBoard(req[c])) /\ unsure' = unsure
               /\ held' = held \cup ({WantedBoard(req[c])} \cap Exclusive)
               /\ req'[c].at = "swap" /\ req'[c].want = req[c].want /\ req'[c].prev = req[c].prev
            \/ req'[c].at = "idle" /\ unsure' = {"board", "port"} /\ held' = held
<1>1. req[c].at = "open" /\ ReqOK
  BY DEF OpenBoard, At, TInv
<1>2. req[c] \in Task /\ req[c].want.kind \in SettingsRequests
  BY <1>1, TaskOf DEF Placed
<1>3. UNCHANGED <<cfg, starts, run, driven, current, relay, outMu, daemon, offBy, late, bounds>>
  BY DEF OpenBoard
<1>4. CASE Goto(c, "idle") /\ unsure' = {"board", "port"} /\ UNCHANGED held
  BY <1>1, <1>2, <1>3, <1>4, GotoFacts, IdlePlaced DEF Places
<1>5. CASE /\ Goto(c, "swap") /\ UNCHANGED unsure /\ Free(WantedBoard(req[c]))
           /\ held' = held \cup ({WantedBoard(req[c])} \cap Exclusive)
  <2>1. /\ req' \in [Clients -> Task \cup {Idle, Gone}]
        /\ req'[c].at = "swap" /\ req'[c].want = req[c].want /\ req'[c].prev = req[c].prev
        /\ \A d \in Clients \ {c} : req'[d] = req[d]
    BY <1>1, <1>5, GotoFacts DEF Places
  <2>2. Placed(req'[c])
    BY <1>2, <2>1 DEF Placed
  <2>3. QED
    BY <1>1, <1>2, <1>3, <1>5, <2>1, <2>2
<1>6. QED
  BY <1>4, <1>5 DEF OpenBoard

\* The engine drives the new board.
LEMMA SwapFacts ==
  ASSUME TInv, NEW c \in Clients, SwapBoard(c)
  PROVE  /\ req[c].at = "swap" /\ req[c] \in Task /\ req[c].want.kind \in SettingsRequests
         /\ req' \in [Clients -> Task \cup {Idle, Gone}]
         /\ \A d \in Clients \ {c} : req'[d] = req[d]
         /\ req'[c].at = "close" /\ req'[c].want = req[c].want /\ req'[c].prev = req[c].prev
         /\ req'[c].wet = (current \in relay)
         /\ Placed(req'[c])
         /\ outMu = Nobody /\ outMu' = c /\ driven' = WantedBoard(req[c])
         /\ relay' = IF zone # 0 THEN relay \cup {driven'} ELSE relay \ {driven'}
         /\ late' = (late \/ phase \in {"off", "closed"})
         /\ UNCHANGED <<cfg, starts, run, current, held, daemon, bounds, offBy, unsure>>
<1> DEFINE next == [req[c] EXCEPT !.at = "close", !.wet = current \in relay]
<1>1. req[c].at = "swap" /\ ReqOK
  BY DEF SwapBoard, At, TInv
<1>2. req[c] \in Task /\ req[c].want.kind \in SettingsRequests
  BY <1>1, TaskOf DEF Placed
<1>3. req' = [req EXCEPT ![c] = next]
  BY DEF SwapBoard
<1>4. (current \in relay) \in BOOLEAN
  OBVIOUS
<1>5. /\ next \in Task /\ next.at = "close" /\ next.want = req[c].want
      /\ next.prev = req[c].prev /\ next.wet = (current \in relay)
  BY <1>2, <1>4 DEF Task, Places
<1> HIDE DEF next
<1>6. /\ req' \in [Clients -> Task \cup {Idle, Gone}] /\ req'[c] = next
      /\ \A d \in Clients \ {c} : req'[d] = req[d]
  BY <1>1, <1>3, <1>5 DEF ReqOK
<1>7. Placed(next)
  BY <1>2, <1>5 DEF Placed
<1>8. /\ outMu = Nobody /\ outMu' = c /\ driven' = WantedBoard(req[c])
      /\ relay' = IF zone # 0 THEN relay \cup {driven'} ELSE relay \ {driven'}
      /\ late' = (late \/ phase \in {"off", "closed"})
      /\ UNCHANGED <<cfg, starts, run, current, held, daemon, bounds, offBy, unsure>>
  BY DEF SwapBoard, Reached
<1>9. QED
  BY <1>1, <1>2, <1>5, <1>6, <1>7, <1>8

\* The old board is off and closed.
LEMMA CloseFacts ==
  ASSUME TInv, NEW c \in Clients, CloseOld(c)
  PROVE  /\ req[c].at = "close" /\ req[c] \in Task /\ req[c].want.kind \in SettingsRequests
         /\ req' \in [Clients -> Task \cup {Idle, Gone}]
         /\ \A d \in Clients \ {c} : req'[d] = req[d]
         /\ req'[c].at = IF NewPort(req[c]) THEN "listen" ELSE "idle"
         /\ req'[c].at # "idle" => req'[c].want = req[c].want /\ req'[c].prev = req[c].prev
         /\ Placed(req'[c])
         /\ relay' = IF current \in Exclusive \/ req[c].wet THEN relay \ {current} ELSE relay
         /\ held' = held \ {current} /\ current' = WantedBoard(req[c]) /\ outMu' = Nobody
         /\ UNCHANGED <<cfg, starts, run, driven, daemon, history, bounds>>
<1>1. req[c].at = "close" /\ ReqOK
  BY DEF CloseOld, At, TInv
<1>2. req[c] \in Task /\ req[c].want.kind \in SettingsRequests
  BY <1>1, TaskOf DEF Placed
<1> DEFINE place == IF NewPort(req[c]) THEN "listen" ELSE "idle"
<1>3. Goto(c, place) /\ place \in Places \ {"gone"}
  BY DEF CloseOld, Places
<1>4. /\ req' \in [Clients -> Task \cup {Idle, Gone}]
      /\ \A d \in Clients \ {c} : req'[d] = req[d]
      /\ req'[c].at = place
      /\ place # "idle" => req'[c].want = req[c].want /\ req'[c].prev = req[c].prev
  BY <1>1, <1>3, GotoFacts
<1>5. place = "listen" => req[c].want.kind = "putSettings"
  BY DEF NewPort
<1>6. Placed(req'[c])
  BY <1>4, <1>5 DEF Placed
<1>7. /\ relay' = IF current \in Exclusive \/ req[c].wet THEN relay \ {current} ELSE relay
      /\ held' = held \ {current} /\ current' = WantedBoard(req[c]) /\ outMu' = Nobody
      /\ UNCHANGED <<cfg, starts, run, driven, daemon, history, bounds>>
  BY DEF CloseOld
<1>8. QED
  BY <1>1, <1>2, <1>4, <1>6, <1>7

\* The listener took the port, or could not.
LEMMA ListenFacts ==
  ASSUME TInv, NEW c \in Clients, Listen(c)
  PROVE  /\ req[c].at = "listen" /\ req[c] \in Task /\ req[c].want.kind = "putSettings"
         /\ req' \in [Clients -> Task \cup {Idle, Gone}]
         /\ \A d \in Clients \ {c} : req'[d] = req[d]
         /\ Placed(req'[c])
         /\ UNCHANGED <<cfg, starts, run, boards, phase, looping, history, bounds>>
         /\ \/ port' = req[c].want.body.port /\ req'[c].at = "idle"
            \/ /\ port' = port /\ req'[c].at = "revert"
               /\ req'[c].want = req[c].want /\ req'[c].prev = req[c].prev
<1>1. req[c].at = "listen" /\ ReqOK
  BY DEF Listen, At, TInv
<1>2. req[c] \in Task /\ req[c].want.kind = "putSettings"
  BY <1>1, TaskOf DEF Placed
<1>3. UNCHANGED <<cfg, starts, run, boards, phase, looping, history, bounds>>
  BY DEF Listen
<1>4. CASE port' = req[c].want.body.port /\ Goto(c, "idle")
  BY <1>1, <1>2, <1>3, <1>4, GotoFacts, IdlePlaced DEF Places
<1>5. CASE Goto(c, "revert") /\ UNCHANGED port
  <2>1. /\ req' \in [Clients -> Task \cup {Idle, Gone}]
        /\ req'[c].at = "revert" /\ req'[c].want = req[c].want /\ req'[c].prev = req[c].prev
        /\ \A d \in Clients \ {c} : req'[d] = req[d]
    BY <1>1, <1>5, GotoFacts DEF Places
  <2>2. Placed(req'[c])
    BY <1>2, <2>1 DEF Placed
  <2>3. QED
    BY <1>1, <1>2, <1>3, <1>5, <2>1, <2>2
<1>6. QED
  BY <1>4, <1>5 DEF Listen

\* The port went back, or could not be saved.
LEMMA RevertFacts ==
  ASSUME TInv, NEW c \in Clients, Revert(c)
  PROVE  /\ req[c].at = "revert" /\ req[c] \in Task /\ req[c].want.kind = "putSettings"
         /\ req' \in [Clients -> Task \cup {Idle, Gone}]
         /\ \A d \in Clients \ {c} : req'[d] = req[d]
         /\ req'[c].at = "idle" /\ Placed(req'[c])
         /\ UNCHANGED <<starts, run, boards, daemon, offBy, late, asked>>
         /\ cfg' \in ConfigSet
         /\ cfg'.settings.run = cfg.settings.run /\ cfg'.schedules = cfg.schedules
         /\ cfg'.settings.board = cfg.settings.board
         /\ \/ cfg'.settings.port = req[c].prev.port /\ unsure' = unsure
            \/ cfg' = cfg /\ unsure' = unsure \cup {"port"}
<1>1. req[c].at = "revert" /\ ReqOK /\ cfg \in ConfigSet
  BY DEF Revert, At, TInv, TypeOK
<1>2. req[c] \in Task /\ req[c].want.kind = "putSettings" /\ req[c].prev \in Settings
  BY <1>1, TaskOf DEF Placed, Task
<1>3. /\ req' \in [Clients -> Task \cup {Idle, Gone}]
      /\ \A d \in Clients \ {c} : req'[d] = req[d]
      /\ req'[c].at = "idle" /\ Placed(req'[c])
      /\ UNCHANGED <<starts, run, boards, daemon, offBy, late, asked>>
  BY <1>1, GotoFacts, IdlePlaced DEF Revert, Places
<1>4. CASE cfg' = [cfg EXCEPT !.settings.port = req[c].prev.port] /\ unsure' = unsure
  <2>1. cfg.settings \in Settings /\ req[c].prev.port \in Ports
    BY <1>1, <1>2 DEF ConfigSet, Settings
  <2> DEFINE back == [cfg.settings EXCEPT !.port = req[c].prev.port]
  <2>2. /\ back \in Settings /\ back.run = cfg.settings.run
        /\ back.board = cfg.settings.board /\ back.port = req[c].prev.port
    BY <2>1 DEF Settings
  <2>3. cfg' = [cfg EXCEPT !.settings = back]
    BY <1>4
  <2> HIDE DEF back
  <2>4. cfg' \in ConfigSet /\ cfg'.settings = back /\ cfg'.schedules = cfg.schedules
    BY <1>1, <2>2, <2>3 DEF ConfigSet
  <2>5. QED
    BY <1>1, <1>2, <1>3, <1>4, <2>2, <2>4
<1>5. CASE cfg' = cfg /\ unsure' = unsure \cup {"port"}
  BY <1>1, <1>2, <1>3, <1>5
<1>6. QED
  BY <1>4, <1>5 DEF Revert

\* Time passes.
LEMMA ComeDueFacts ==
  ASSUME TInv, ComeDue
  PROVE  /\ due \subseteq due' /\ due' \subseteq Nat
         /\ UNCHANGED <<cfg, pending, run, boards, daemon, req, history, bounds>>
<1>1. PICK id \in Range(cfg.schedules) \cup {s.id : s \in pending} : due' = due \cup {id}
  BY DEF ComeDue
<1>2. cfg.schedules \in Seq(Nat) /\ \A s \in pending : s.id \in Nat
  BY DEF TInv, TypeOK, ConfigSet
<1>3. id \in Nat
  BY <1>1, <1>2 DEF Range
<1>4. QED
  BY <1>1, <1>3 DEF ComeDue, TInv, TypeOK

\* Every step of the daemon keeps the types.
LEMMA NextTInv == TInv /\ [Next]_vars => TInv'
<1> SUFFICES ASSUME TInv, [Next]_vars PROVE TInv'
  OBVIOUS
<1> USE DEF starts, run, boards, daemon, history, bounds
<1>1. /\ RunOK /\ cfg \in ConfigSet /\ {driven, current} \cup relay \subseteq Boards
      /\ held \subseteq Exclusive /\ outMu \in Clients \cup {Nobody} /\ port \in Ports
      /\ asked \in Nat /\ due \subseteq Nat
  BY DEF TInv, TypeOK, RunOK
<1>2. CASE ComeDue
  BY <1>1, <1>2, ComeDueFacts, EngineTyped DEF RunOK
<1>3. CASE EngineStep
  BY <1>1, <1>3, EngineStepFacts, EngineTyped
<1>4. CASE EndStep
  BY <1>1, <1>4, EndStepFacts, EngineTyped
<1>5. ASSUME NEW c \in Clients, Begin(c) PROVE TInv'
  <2>1. /\ req' \in [Clients -> Task \cup {Idle, Gone}] /\ Placed(req'[c])
        /\ \A d \in Clients \ {c} : req'[d] = req[d]
        /\ asked' \in Nat /\ UNCHANGED <<cfg, starts, run, boards, daemon>>
    BY <1>5, BeginFacts
  <2>2. QED
    BY <1>1, <2>1, RequestTyped DEF RunOK
<1>6. ASSUME NEW c \in Clients, Update(c) PROVE TInv'
  <2>1. cfg' \in ConfigSet
    BY <1>1, <1>6, UpdateFacts, EditedTyped
  <2>2. QED
    BY <1>1, <1>6, <2>1, UpdateFacts, RequestTyped DEF RunOK
<1>7. ASSUME NEW c \in Clients, Look(c) PROVE TInv'
  BY <1>1, <1>7, LookFacts, RequestTyped DEF RunOK
<1>8. ASSUME NEW c \in Clients, CallEngine(c) PROVE TInv'
  <2>1. RunOK' /\ relay' \subseteq relay \cup {driven}
    BY <1>8, CallFacts, CallTyped, LatchFacts
  <2>2. QED
    BY <1>1, <1>8, <2>1, CallFacts, RequestTyped
<1>9. ASSUME NEW c \in Clients, OpenBoard(c) PROVE TInv'
  BY <1>1, <1>9, OpenFacts, RequestTyped DEF RunOK
<1>10. ASSUME NEW c \in Clients, SwapBoard(c) PROVE TInv'
  <2>1. driven' \in Boards
    BY <1>10, SwapFacts, BoardOf
  <2>2. QED
    BY <1>1, <1>10, <2>1, SwapFacts, RequestTyped DEF RunOK
<1>11. ASSUME NEW c \in Clients, CloseOld(c) PROVE TInv'
  <2>1. current' \in Boards
    BY <1>11, CloseFacts, BoardOf
  <2>2. QED
    BY <1>1, <1>11, <2>1, CloseFacts, RequestTyped DEF RunOK
<1>12. ASSUME NEW c \in Clients, Listen(c) PROVE TInv'
  <2>1. req[c].want.body.port \in Ports
    BY <1>12, ListenFacts, BodyOf DEF Task, Settings
  <2>2. QED
    BY <1>1, <1>12, <2>1, ListenFacts, RequestTyped DEF RunOK
<1>13. ASSUME NEW c \in Clients, Revert(c) PROVE TInv'
  BY <1>1, <1>13, RevertFacts, RequestTyped DEF RunOK
<1>14. CASE CloseBoard
  <2>1. /\ relay' \subseteq relay /\ held' \subseteq held
        /\ UNCHANGED <<cfg, port, driven, current, outMu, due, asked, pending, run, req>>
    BY <1>14 DEF CloseBoard, Main
  <2>2. QED
    BY <1>1, <2>1 DEF TInv, TypeOK, ReqOK, At
<1>15. CASE Exit
  <2>1. /\ req' = [c \in Clients |-> Gone]
        /\ UNCHANGED <<cfg, port, driven, current, outMu, due, asked, pending, run, held, relay>>
    BY <1>15 DEF Exit, Main, Gone
  <2>2. ReqOK'
    BY <2>1, IdlePlaced DEF ReqOK, Gone
  <2>3. \A c \in Clients : req'[c].at = "gone"
    BY <2>1 DEF Gone
  <2>4. TypeOK'
    BY <1>1, <2>1, <2>3 DEF TInv, TypeOK, At, Places
  <2>5. QED
    BY <1>1, <2>1, <2>2, <2>4 DEF TInv
<1>16. CASE UNCHANGED vars
  BY <1>16 DEF vars, TInv, TypeOK, ReqOK, At
<1>17. QED
  BY <1>2, <1>3, <1>4, <1>5, <1>6, <1>7, <1>8, <1>9, <1>10, <1>11, <1>12, <1>13, <1>14,
     <1>15, <1>16 DEF Next, EngineStep, EndStep

\* The types hold of the handlers.
LEMMA TInvHolds == Spec => []TInv
BY InitTInv, NextTInv, PTL DEF Spec

\* Whatever is asked for and however it overlaps, every request is at one of its
\* calls, what is stored is a configuration and what is driven is a board.
THEOREM TypeCorrect == Spec => []TypeOK
<1>1. TInv => TypeOK
  BY DEF TInv
<1>2. QED
  BY <1>1, TInvHolds, PTL

-----------------------------------------------------------------------------
(* The engine's list follows the configuration.                              *)

Listed == {s \in pending : s.id \notin due} = {s \in StartsOf(cfg) : s.id \notin due}

\* A request whose call of the engine is to come lists the starts anew.
Rebuilds(r) == r.at = "look" \/ (r.at = "engine" /\ r.want.kind # "postManual")

EInv == phase = "up" => Listed \/ \E c \in Clients : Rebuilds(req[c])

\* The starts of a configuration depend on two of its parts.
LEMMA SameStarts ==
  ASSUME cfg'.settings.run = cfg.settings.run, cfg'.schedules = cfg.schedules
  PROVE  StartsOf(cfg)' = StartsOf(cfg)
BY DEF StartsOf

\* A step that changes neither the configuration nor the list of what is to come.
LEMMA EInvKept ==
  ASSUME EInv, StartsOf(cfg)' = StartsOf(cfg), due \subseteq due', phase' = "up" => phase = "up",
         pending' \subseteq pending, \A s \in pending \ pending' : s.id \in due,
         \A d \in Clients : Rebuilds(req[d]) => Rebuilds(req'[d])
  PROVE  EInv'
<1>1. Listed => Listed'
  BY DEF Listed
<1>2. QED
  BY <1>1 DEF EInv

\* Every step keeps the list true or leaves a request that makes it so.
LEMMA NextEInv == TInv /\ EInv /\ [Next]_vars => EInv'
<1> SUFFICES ASSUME TInv, EInv, [Next]_vars PROVE EInv'
  OBVIOUS
<1> USE DEF starts, daemon, bounds
<1>1. CASE ComeDue
  <2>1. due \subseteq due' /\ UNCHANGED <<cfg, pending, phase, req>>
    BY <1>1, ComeDueFacts
  <2>2. QED
    BY <2>1, SameStarts, EInvKept
<1>2. CASE EngineStep
  <2>1. /\ UNCHANGED <<cfg, due, phase, req>> /\ pending' \subseteq pending
        /\ \A s \in pending \ pending' : s.id \in due
    BY <1>2, EngineStepFacts
  <2>2. QED
    BY <2>1, SameStarts, EInvKept
<1>3. CASE EndStep
  <2>1. phase' # "up"
    BY <1>3, EndStepFacts
  <2>2. QED
    BY <2>1 DEF EInv
<1>4. ASSUME NEW c \in Clients, Begin(c) PROVE EInv'
  <2>1. /\ req[c].at = "idle" /\ \A d \in Clients \ {c} : req'[d] = req[d]
        /\ UNCHANGED <<cfg, pending, due, phase>>
    BY <1>4, BeginFacts
  <2>2. \A d \in Clients : Rebuilds(req[d]) => Rebuilds(req'[d])
    BY <2>1 DEF Rebuilds
  <2>3. QED
    BY <2>1, <2>2, SameStarts, EInvKept
<1>5. ASSUME NEW c \in Clients, Update(c) PROVE EInv'
  <2>1. /\ req[c].at = "update" /\ Placed(req[c]) /\ UNCHANGED <<pending, due, phase>>
        /\ \A d \in Clients \ {c} : req'[d] = req[d]
    BY <1>5, UpdateFacts
  <2>2. CASE cfg' = cfg
    <3>1. \A d \in Clients : Rebuilds(req[d]) => Rebuilds(req'[d])
      BY <2>1 DEF Rebuilds
    <3>2. QED
      BY <2>1, <2>2, <3>1, SameStarts, EInvKept
  <2>3. CASE /\ req'[c].at = IF req[c].want.kind = "putZone" THEN "look" ELSE "engine"
             /\ req'[c].want = req[c].want
    <3>1. Rebuilds(req'[c])
      BY <2>1, <2>3 DEF Rebuilds, Placed
    <3>2. QED
      BY <3>1 DEF EInv
  <2>4. QED
    BY <1>5, <2>2, <2>3, UpdateFacts
<1>6. ASSUME NEW c \in Clients, Look(c) PROVE EInv'
  <2>1. /\ req'[c].at = "engine" /\ req'[c].want.kind = "putZone"
        /\ \A d \in Clients \ {c} : req'[d] = req[d] /\ UNCHANGED <<cfg, pending, due, phase>>
    BY <1>6, LookFacts
  <2>2. Rebuilds(req'[c])
    BY <2>1 DEF Rebuilds
  <2>3. QED
    BY <2>2 DEF EInv
<1>7. ASSUME NEW c \in Clients, CallEngine(c) PROVE EInv'
  <2>1. /\ req[c].at = "engine" /\ req[c] \in Task /\ EngineCall(req[c])
        /\ \A d \in Clients \ {c} : req'[d] = req[d]
        /\ UNCHANGED <<cfg, due, phase>>
    BY <1>7, CallFacts
  <2>2. CASE req[c].want.kind # "postManual"
    <3>1. Rebuild
      BY <2>1, <2>2, CallTyped
    <3>2. StartsOf(cfg)' = StartsOf(cfg)
      BY <2>1, SameStarts
    <3>3. Listed'
      BY <2>1, <3>1, <3>2 DEF Rebuild, Listed
    <3>4. QED
      BY <3>3 DEF EInv
  <2>3. CASE req[c].want.kind = "postManual"
    <3>1. pending' = pending
      BY <2>1, <2>3, CallTyped
    <3>2. \A d \in Clients : Rebuilds(req[d]) => Rebuilds(req'[d])
      BY <2>1, <2>3 DEF Rebuilds
    <3>3. QED
      BY <2>1, <3>1, <3>2, SameStarts, EInvKept
  <2>4. QED
    BY <2>2, <2>3
<1>8. ASSUME NEW c \in Clients,
             req[c].at \in {"open", "swap", "close", "listen", "revert"},
             \A d \in Clients \ {c} : req'[d] = req[d], UNCHANGED <<pending, due, phase>>,
             cfg'.settings.run = cfg.settings.run, cfg'.schedules = cfg.schedules
      PROVE  EInv'
  <2>1. \A d \in Clients : Rebuilds(req[d]) => Rebuilds(req'[d])
    BY <1>8 DEF Rebuilds
  <2>2. QED
    BY <1>8, <2>1, SameStarts, EInvKept
<1>9. ASSUME NEW c \in Clients, OpenBoard(c) PROVE EInv'
  BY <1>8, <1>9, OpenFacts
<1>10. ASSUME NEW c \in Clients, SwapBoard(c) PROVE EInv'
  BY <1>8, <1>10, SwapFacts
<1>11. ASSUME NEW c \in Clients, CloseOld(c) PROVE EInv'
  BY <1>8, <1>11, CloseFacts
<1>12. ASSUME NEW c \in Clients, Listen(c) PROVE EInv'
  BY <1>8, <1>12, ListenFacts
<1>13. ASSUME NEW c \in Clients, Revert(c) PROVE EInv'
  BY <1>8, <1>13, RevertFacts
<1>14. CASE CloseBoard \/ Exit
  BY <1>14 DEF CloseBoard, Exit, Main, EInv
<1>15. CASE UNCHANGED vars
  <2>1. UNCHANGED <<cfg, pending, due, phase, req>>
    BY <1>15 DEF vars
  <2>2. QED
    BY <2>1, SameStarts, EInvKept
<1>16. QED
  BY <1>1, <1>2, <1>3, <1>4, <1>5, <1>6, <1>7, <1>9, <1>10, <1>11, <1>12, <1>13, <1>14,
     <1>15 DEF Next, EngineStep, EndStep

\* Once every request has made its engine call, the engine waits for the starts of
\* the stored configuration and no other, however many requests overlapped.
THEOREM ListFollowsConfig == Spec => []EngineFollowsConfig
<1>1. Init => EInv
  BY DEF Init, EInv, Listed
<1>2. EInv => EngineFollowsConfig
  <2> SUFFICES ASSUME EInv, phase = "up", Settled PROVE Listed
    BY DEF EngineFollowsConfig, Listed
  <2>1. \A c \in Clients : ~Rebuilds(req[c])
    BY DEF Settled, At, Rebuilds
  <2>2. QED
    BY <2>1 DEF EInv
<1>3. QED
  BY <1>1, <1>2, NextEInv, TInvHolds, PTL DEF Spec

-----------------------------------------------------------------------------
(* Switched off.                                                             *)

\* The switch was put off and its call of the engine is to come.
WillStop(r) == r.at = "engine" /\ r.want.kind = "putSystemRun" /\ ~r.want.on

OInv ==
  phase = "up" /\ ~cfg.settings.run /\ offBy = "putSystemRun" =>
    \/ cycle # "scheduled" /\ pending = {}
    \/ \E c \in Clients : WillStop(req[c])

\* A step that leaves the switch where it is and starts nothing.
LEMMA OInvKept ==
  ASSUME OInv, cfg'.settings.run = cfg.settings.run, offBy' = offBy,
         phase' = "up" => phase = "up",
         ~cfg.settings.run => (pending = {} => pending' = {}),
         pending = {} => cycle' \in {cycle, "none", "quick"},
         \A d \in Clients : WillStop(req[d]) => WillStop(req'[d])
  PROVE  OInv'
BY DEF OInv

\* With the scheduler off there is nothing to list.
LEMMA OffListsNothing == ASSUME ~cfg.settings.run, Rebuild PROVE pending' = {}
BY DEF Rebuild, StartsOf

\* Every step keeps what was switched off switched off.
LEMMA NextOInv == TInv /\ OInv /\ [Next]_vars => OInv'
<1> SUFFICES ASSUME TInv, OInv, [Next]_vars PROVE OInv'
  OBVIOUS
<1> USE DEF starts, run, daemon, bounds, history
<1>1. CASE ComeDue
  BY <1>1, ComeDueFacts, OInvKept
<1>2. CASE EngineStep
  <2>1. /\ UNCHANGED <<cfg, offBy, phase, req>> /\ pending' \subseteq pending
        /\ pending = {} => cycle' \in {cycle, "none"}
    BY <1>2, EngineStepFacts
  <2>2. QED
    BY <2>1, OInvKept
<1>3. CASE EndStep
  <2>1. phase' # "up"
    BY <1>3, EndStepFacts
  <2>2. QED
    BY <2>1 DEF OInv
<1>4. ASSUME NEW c \in Clients, Begin(c) PROVE OInv'
  <2>1. /\ req[c].at = "idle" /\ \A d \in Clients \ {c} : req'[d] = req[d]
        /\ UNCHANGED <<cfg, pending, cycle, phase, offBy>>
    BY <1>4, BeginFacts
  <2>2. \A d \in Clients : WillStop(req[d]) => WillStop(req'[d])
    BY <2>1 DEF WillStop
  <2>3. QED
    BY <2>1, <2>2, OInvKept
<1>5. ASSUME NEW c \in Clients, Update(c) PROVE OInv'
  <2>1. /\ req[c].at = "update" /\ req[c] \in Task /\ Placed(req[c])
        /\ UNCHANGED <<pending, cycle, phase>> /\ cfg \in ConfigSet
        /\ \A d \in Clients \ {c} : req'[d] = req[d]
    BY <1>5, UpdateFacts DEF TInv, TypeOK
  <2>2. \A d \in Clients : WillStop(req[d]) => WillStop(req'[d])
    BY <2>1 DEF WillStop
  <2>3. CASE cfg' = cfg /\ offBy' = offBy
    BY <2>1, <2>2, <2>3, OInvKept
  <2>4. CASE /\ Edits(req[c].want) /\ cfg' = Edited(req[c])
             /\ req'[c].at = IF req[c].want.kind = "putZone" THEN "look" ELSE "engine"
             /\ req'[c].want = req[c].want
             /\ offBy' = IF req[c].want.kind \in {"putSystemRun", "putSettings", "postRestore"}
                         THEN req[c].want.kind ELSE offBy
    <3>1. CASE req[c].want.kind \in SettingsRequests
      BY <2>4, <3>1 DEF OInv, SettingsRequests
    <3>2. CASE req[c].want.kind = "putSystemRun"
      <4>1. cfg'.settings.run = req[c].want.on
        BY <2>1, <2>4, <3>2, EditedTyped
      <4>2. ~req[c].want.on => WillStop(req'[c])
        BY <2>4, <3>2 DEF WillStop
      <4>3. QED
        BY <4>1, <4>2 DEF OInv
    <3>3. CASE req[c].want.kind \notin SettingsRequests \cup {"putSystemRun"}
      <4>1. cfg'.settings = cfg.settings /\ offBy' = offBy
        BY <2>1, <2>4, <3>3, EditedTyped DEF SettingsRequests
      <4>2. QED
        BY <2>1, <2>2, <4>1, OInvKept
    <3>4. QED
      BY <3>1, <3>2, <3>3
  <2>5. QED
    BY <1>5, <2>3, <2>4, UpdateFacts
<1>6. ASSUME NEW c \in Clients, Look(c) PROVE OInv'
  <2>1. /\ req[c].at = "look" /\ UNCHANGED <<cfg, pending, cycle, phase, offBy>>
        /\ \A d \in Clients \ {c} : req'[d] = req[d]
    BY <1>6, LookFacts
  <2>2. \A d \in Clients : WillStop(req[d]) => WillStop(req'[d])
    BY <2>1 DEF WillStop
  <2>3. QED
    BY <2>1, <2>2, OInvKept
<1>7. ASSUME NEW c \in Clients, CallEngine(c) PROVE OInv'
  <2>1. /\ req[c] \in Task /\ EngineCall(req[c]) /\ UNCHANGED <<cfg, phase, offBy>>
        /\ \A d \in Clients \ {c} : req'[d] = req[d]
    BY <1>7, CallFacts
  <2>2. /\ req[c].want.kind # "postManual" => Rebuild
        /\ req[c].want.kind = "postManual" => pending' = pending
        /\ cycle' \in {cycle, "none", "quick"}
    BY <2>1, CallTyped
  <2>3. CASE WillStop(req[c])
    <3>1. StopAll
      BY <2>1, <2>3, CallTyped DEF WillStop
    <3>2. cycle' = "none" /\ (~cfg.settings.run => pending' = {})
      BY <3>1, OffListsNothing DEF StopAll, Dry
    <3>3. QED
      BY <2>1, <3>2 DEF OInv
  <2>4. CASE ~WillStop(req[c])
    <3>1. \A d \in Clients : WillStop(req[d]) => WillStop(req'[d])
      BY <2>1, <2>4
    <3>2. ~cfg.settings.run => (pending = {} => pending' = {})
      BY <2>2, OffListsNothing
    <3>3. QED
      BY <2>1, <2>2, <3>1, <3>2, OInvKept
  <2>5. QED
    BY <2>3, <2>4
<1>8. ASSUME NEW c \in Clients,
             req[c].at \in {"open", "swap", "close", "listen", "revert"},
             \A d \in Clients \ {c} : req'[d] = req[d],
             UNCHANGED <<pending, cycle, phase, offBy>>,
             cfg'.settings.run = cfg.settings.run
      PROVE  OInv'
  <2>1. \A d \in Clients : WillStop(req[d]) => WillStop(req'[d])
    BY <1>8 DEF WillStop
  <2>2. QED
    BY <1>8, <2>1, OInvKept
<1>9. ASSUME NEW c \in Clients, OpenBoard(c) PROVE OInv'
  BY <1>8, <1>9, OpenFacts
<1>10. ASSUME NEW c \in Clients, SwapBoard(c) PROVE OInv'
  BY <1>8, <1>10, SwapFacts
<1>11. ASSUME NEW c \in Clients, CloseOld(c) PROVE OInv'
  BY <1>8, <1>11, CloseFacts
<1>12. ASSUME NEW c \in Clients, Listen(c) PROVE OInv'
  BY <1>8, <1>12, ListenFacts
<1>13. ASSUME NEW c \in Clients, Revert(c) PROVE OInv'
  BY <1>8, <1>13, RevertFacts
<1>14. CASE CloseBoard \/ Exit
  BY <1>14 DEF CloseBoard, Exit, Main, OInv
<1>15. CASE UNCHANGED vars
  BY <1>15, OInvKept DEF vars
<1>16. QED
  BY <1>1, <1>2, <1>3, <1>4, <1>5, <1>6, <1>7, <1>9, <1>10, <1>11, <1>12, <1>13, <1>14,
     <1>15 DEF Next, EngineStep, EndStep

\* Once its switch was put off and the call is made, nothing the scheduler started
\* waters on, also what a tick started between the setting and the call.
THEOREM OffStops == Spec => []OffRequestStops
<1>1. Init => OInv
  BY DEF Init, OInv
<1>2. OInv => OffRequestStops
  BY DEF OInv, OffRequestStops, Settled, At, WillStop
<1>3. QED
  BY <1>1, <1>2, NextOInv, TInvHolds, PTL DEF Spec

-----------------------------------------------------------------------------
(* The exchange of boards.                                                   *)

\* Before main closes the board.
Served == phase \notin {"closed", "exited"}

Exchanging(r) == r.at \in {"swap", "close"}

\* A board that is opened for an exchange is open, is not the one in use and is
\* opened for nobody else, if it holds lines.
BoardsApart ==
  \A c \in Clients : Exchanging(req[c]) /\ WantedBoard(req[c]) \in Exclusive =>
    /\ WantedBoard(req[c]) \in held /\ WantedBoard(req[c]) # current
    /\ \A d \in Clients \ {c} :
         Exchanging(req[d]) => WantedBoard(req[d]) # WantedBoard(req[c])

\* Between the two halves of an exchange, a valve may be open on the new board
\* and on the old one, which will be switched off.
HalfWay(c) ==
  /\ driven = WantedBoard(req[c]) /\ relay \subseteq {driven, current}
  /\ current \in relay /\ current # driven /\ current \notin Exclusive => req[c].wet

BInv ==
  Served =>
    /\ current \in Exclusive => current \in held
    /\ \A c \in Clients : req[c].at = "close" <=> outMu = c
    /\ BoardsApart
    /\ outMu = Nobody => driven = current /\ relay \subseteq {current}
    /\ \A c \in Clients : outMu = c => HalfWay(c)

\* A step that exchanges nothing.
LEMMA BInvKept ==
  ASSUME BInv, Served' => Served, UNCHANGED <<driven, current, held, outMu>>,
         relay' \subseteq relay \cup {driven},
         \A d \in Clients : \/ req'[d] = req[d]
                            \/ ~Exchanging(req[d]) /\ ~Exchanging(req'[d])
  PROVE  BInv'
<1> SUFFICES ASSUME Served' PROVE BInv'
  BY DEF BInv
<1>1. Served /\ \A d \in Clients : Exchanging(req'[d]) => req'[d] = req[d] /\ Exchanging(req[d])
  OBVIOUS
<1>2. current' \in Exclusive => current' \in held'
  BY <1>1 DEF BInv
<1>3. \A c \in Clients : req'[c].at = "close" <=> outMu' = c
  BY <1>1 DEF BInv, Exchanging
<1>4. BoardsApart'
  <2>1. BoardsApart
    BY <1>1 DEF BInv
  <2>2. QED
    BY <1>1, <2>1 DEF BoardsApart
<1>5. outMu' = Nobody => driven' = current' /\ relay' \subseteq {current'}
  BY <1>1 DEF BInv
<1>6. ASSUME NEW c \in Clients, outMu' = c PROVE HalfWay(c)'
  <2>1. HalfWay(c) /\ req[c].at = "close"
    BY <1>1, <1>6 DEF BInv
  <2>2. req'[c] = req[c]
    BY <2>1 DEF Exchanging
  <2>3. QED
    BY <2>1, <2>2 DEF HalfWay
<1>7. QED
  BY <1>2, <1>3, <1>4, <1>5, <1>6 DEF BInv

\* A board that is opened was open nowhere.
LEMMA OpenBInv ==
  ASSUME TInv, BInv, NEW c \in Clients, OpenBoard(c)
  PROVE  BInv'
<1> SUFFICES ASSUME Served' PROVE BInv'
  BY DEF BInv
<1> DEFINE b == WantedBoard(req[c])
<1>1. /\ req[c].at = "open" /\ \A d \in Clients \ {c} : req'[d] = req[d]
      /\ UNCHANGED <<driven, current, relay, outMu, phase>> /\ b \in Boards
  BY OpenFacts, BoardOf DEF daemon
<1>2. Served
  BY <1>1 DEF Served
<1>3. CASE req'[c].at = "idle" /\ held' = held
  <2>1. \A d \in Clients : \/ req'[d] = req[d]
                           \/ ~Exchanging(req[d]) /\ ~Exchanging(req'[d])
    BY <1>1, <1>3 DEF Exchanging
  <2>2. QED
    BY <1>1, <1>2, <1>3, <2>1, BInvKept
<1>4. CASE /\ Free(b) /\ held' = held \cup ({b} \cap Exclusive)
           /\ req'[c].at = "swap" /\ req'[c].want = req[c].want
  <2>1. b \in Exclusive => b \notin held
    BY <1>4 DEF Free, Exclusive
  <2>2. WantedBoard(req'[c]) = b
    BY <1>4 DEF WantedBoard
  <2> HIDE DEF b
  <2>3. current' \in Exclusive => current' \in held'
    BY <1>1, <1>2, <1>4 DEF BInv
  <2>4. \A d \in Clients : req'[d].at = "close" <=> outMu' = d
    BY <1>1, <1>2, <1>4 DEF BInv
  <2>5. BoardsApart /\ (current \in Exclusive => current \in held)
    BY <1>2 DEF BInv
  <2>6. BoardsApart'
    <3>1. ASSUME NEW d \in Clients, Exchanging(req'[d]), WantedBoard(req'[d]) \in Exclusive
          PROVE  /\ WantedBoard(req'[d]) \in held' /\ WantedBoard(req'[d]) # current'
                 /\ \A e \in Clients \ {d} :
                      Exchanging(req'[e]) => WantedBoard(req'[e]) # WantedBoard(req'[d])
      <4>1. CASE d = c
        <5>1. b \in Exclusive /\ b \in held' /\ b # current'
          BY <1>1, <1>4, <2>1, <2>2, <2>5, <3>1, <4>1
        <5>2. ASSUME NEW e \in Clients \ {c}, Exchanging(req'[e])
              PROVE  WantedBoard(req'[e]) # b
          BY <1>1, <2>1, <2>5, <5>1, <5>2 DEF BoardsApart
        <5>3. QED
          BY <2>2, <4>1, <5>1, <5>2
      <4>2. CASE d # c
        <5>1. req'[d] = req[d]
          BY <1>1, <4>2
        <5>2. /\ WantedBoard(req[d]) \in held /\ WantedBoard(req[d]) # current
              /\ \A e \in Clients \ {d} :
                   Exchanging(req[e]) => WantedBoard(req[e]) # WantedBoard(req[d])
          BY <2>5, <3>1, <5>1 DEF BoardsApart
        <5>3. b # WantedBoard(req[d])
          BY <2>1, <3>1, <5>1, <5>2
        <5>4. QED
          BY <1>1, <1>4, <2>2, <5>1, <5>2, <5>3
      <4>3. QED
        BY <4>1, <4>2
    <3>2. QED
      BY <3>1 DEF BoardsApart
  <2>7. outMu' = Nobody => driven' = current' /\ relay' \subseteq {current'}
    BY <1>1, <1>2 DEF BInv
  <2>8. ASSUME NEW d \in Clients, outMu' = d PROVE HalfWay(d)'
    <3>1. HalfWay(d) /\ req[d].at = "close" /\ d # c
      BY <1>1, <1>2, <2>8 DEF BInv
    <3>2. QED
      BY <1>1, <3>1 DEF HalfWay
  <2>9. QED
    BY <2>3, <2>4, <2>6, <2>7, <2>8 DEF BInv
<1>5. QED
  BY <1>3, <1>4, OpenFacts

\* The first half: the new board shows what the engine has open.
LEMMA SwapBInv ==
  ASSUME TInv, BInv, NEW c \in Clients, SwapBoard(c)
  PROVE  BInv'
<1> SUFFICES ASSUME Served' PROVE BInv'
  BY DEF BInv
<1> DEFINE b == WantedBoard(req[c])
<1>1. /\ req[c].at = "swap" /\ \A d \in Clients \ {c} : req'[d] = req[d]
      /\ req'[c].at = "close" /\ req'[c].want = req[c].want
      /\ req'[c].wet = (current \in relay)
      /\ outMu = Nobody /\ outMu' = c /\ driven' = b
      /\ relay' = IF zone # 0 THEN relay \cup {b} ELSE relay \ {b}
      /\ UNCHANGED <<current, held, phase>>
  BY SwapFacts DEF daemon
<1>2. WantedBoard(req'[c]) = b
  BY <1>1 DEF WantedBoard
<1> HIDE DEF b
<1>3. /\ BoardsApart /\ (current \in Exclusive => current \in held)
      /\ driven = current /\ relay \subseteq {current}
      /\ \A d \in Clients : req[d].at = "close" <=> outMu = d
  BY <1>1 DEF BInv, Served
<1>4. \A d \in Clients : req'[d].at = "close" <=> outMu' = d
  BY <1>1, <1>3, Parameters
<1>5. /\ \A d \in Clients : Exchanging(req'[d]) <=> Exchanging(req[d])
      /\ \A d \in Clients : WantedBoard(req'[d]) = WantedBoard(req[d])
  BY <1>1, <1>2 DEF Exchanging, b
<1>6. BoardsApart'
  BY <1>1, <1>3, <1>5 DEF BoardsApart
<1>7. HalfWay(c)'
  BY <1>1, <1>2, <1>3 DEF HalfWay
<1>8. outMu' # Nobody
  BY <1>1, Parameters
<1>9. QED
  BY <1>1, <1>3, <1>4, <1>6, <1>7, <1>8 DEF BInv

\* The second half: what the new board replaced is off and closed, and the new
\* one stays open.
LEMMA CloseBInv ==
  ASSUME TInv, BInv, NEW c \in Clients, CloseOld(c)
  PROVE  BInv'
<1> SUFFICES ASSUME Served' PROVE BInv'
  BY DEF BInv
<1> DEFINE b == WantedBoard(req[c])
<1>1. /\ req[c].at = "close" /\ \A d \in Clients \ {c} : req'[d] = req[d]
      /\ req'[c].at \in {"listen", "idle"}
      /\ relay' = IF current \in Exclusive \/ req[c].wet THEN relay \ {current} ELSE relay
      /\ held' = held \ {current} /\ current' = b /\ outMu' = Nobody
      /\ UNCHANGED <<driven, phase>>
  BY CloseFacts DEF daemon
<1> HIDE DEF b
<1>2. /\ BoardsApart /\ HalfWay(c) /\ outMu = c
      /\ \A d \in Clients : req[d].at = "close" <=> outMu = d
  BY <1>1 DEF BInv, Served
<1>3. driven = b /\ (b \in Exclusive => b \in held /\ b # current)
  BY <1>1, <1>2 DEF HalfWay, BoardsApart, Exchanging, b
<1>4. relay' \subseteq {b}
  BY <1>1, <1>2, <1>3 DEF HalfWay
<1>5. current' \in Exclusive => current' \in held'
  BY <1>1, <1>3
<1>6. \A d \in Clients : req'[d].at = "close" <=> outMu' = d
  BY <1>1, <1>2, Parameters
<1>7. BoardsApart'
  <2>1. ASSUME NEW d \in Clients, Exchanging(req'[d]), WantedBoard(req'[d]) \in Exclusive
        PROVE  /\ WantedBoard(req'[d]) \in held' /\ WantedBoard(req'[d]) # current'
               /\ \A e \in Clients \ {d} :
                    Exchanging(req'[e]) => WantedBoard(req'[e]) # WantedBoard(req'[d])
    <3>1. d # c /\ req'[d] = req[d]
      BY <1>1, <2>1 DEF Exchanging
    <3>2. /\ WantedBoard(req[d]) \in held /\ WantedBoard(req[d]) # current
          /\ \A e \in Clients \ {d} :
               Exchanging(req[e]) => WantedBoard(req[e]) # WantedBoard(req[d])
      BY <1>2, <2>1, <3>1 DEF BoardsApart
    <3>3. WantedBoard(req[d]) # b
      BY <1>1, <3>1, <3>2 DEF Exchanging, b
    <3>4. \A e \in Clients \ {d} : Exchanging(req'[e]) => e # c /\ req'[e] = req[e]
      BY <1>1 DEF Exchanging
    <3>5. QED
      BY <1>1, <3>1, <3>2, <3>3, <3>4
  <2>2. QED
    BY <2>1 DEF BoardsApart
<1>8. \A d \in Clients : outMu' # d
  BY <1>1, Parameters
<1>9. QED
  BY <1>1, <1>3, <1>4, <1>5, <1>6, <1>7, <1>8 DEF BInv

\* Every step keeps the boards apart.
LEMMA NextBInv == TInv /\ BInv /\ [Next]_vars => BInv'
<1> SUFFICES ASSUME TInv, BInv, [Next]_vars PROVE BInv'
  OBVIOUS
<1> USE DEF starts, run, boards, daemon, bounds, history
<1>1. ASSUME NEW c \in Clients, \A d \in Clients \ {c} : req'[d] = req[d],
             ~Exchanging(req[c]), ~Exchanging(req'[c]),
             relay' \subseteq relay \cup {driven},
             UNCHANGED <<driven, current, held, outMu, phase>>
      PROVE  BInv'
  BY <1>1, BInvKept DEF Served
<1>2. CASE ComeDue
  BY <1>2, ComeDueFacts, BInvKept DEF Served
<1>3. CASE EngineStep
  <2>1. UNCHANGED <<driven, current, held, outMu, phase, req>> /\ relay' \subseteq relay \cup {driven}
    BY <1>3, EngineStepFacts, LatchFacts
  <2>2. QED
    BY <2>1, BInvKept DEF Served
<1>4. CASE EndStep
  <2>1. UNCHANGED <<driven, current, held, outMu, req>> /\ relay' \subseteq relay \cup {driven}
    BY <1>4, EndStepFacts, LatchFacts
  <2>2. Served' => Served
    BY <1>4, EndStepFacts DEF Served
  <2>3. QED
    BY <2>1, <2>2, BInvKept
<1>5. ASSUME NEW c \in Clients, Begin(c) PROVE BInv'
  <2>1. /\ req[c].at = "idle" /\ req'[c].at \in {"engine", "update"}
        /\ \A d \in Clients \ {c} : req'[d] = req[d]
        /\ UNCHANGED <<driven, current, held, outMu, relay, phase>>
    BY <1>5, BeginFacts
  <2>2. QED
    BY <1>1, <2>1 DEF Exchanging
<1>6. ASSUME NEW c \in Clients, Update(c) PROVE BInv'
  <2>1. req'[c].at \in {"look", "engine", "idle"}
    BY <1>6, UpdateFacts
  <2>2. QED
    BY <1>1, <1>6, <2>1, UpdateFacts DEF Exchanging
<1>7. ASSUME NEW c \in Clients, Look(c) PROVE BInv'
  BY <1>1, <1>7, LookFacts DEF Exchanging
<1>8. ASSUME NEW c \in Clients, CallEngine(c) PROVE BInv'
  <2>1. /\ req[c].at = "engine" /\ req'[c].at \in {"open", "listen", "idle"}
        /\ \A d \in Clients \ {c} : req'[d] = req[d]
        /\ UNCHANGED <<driven, current, held, outMu, phase>>
        /\ relay' \subseteq relay \cup {driven}
    BY <1>8, CallFacts, CallTyped, LatchFacts
  <2>2. QED
    BY <1>1, <2>1 DEF Exchanging
<1>9. ASSUME NEW c \in Clients, Listen(c) PROVE BInv'
  BY <1>1, <1>9, ListenFacts DEF Exchanging
<1>10. ASSUME NEW c \in Clients, Revert(c) PROVE BInv'
  BY <1>1, <1>10, RevertFacts DEF Exchanging
<1>11. CASE CloseBoard \/ Exit
  BY <1>11 DEF CloseBoard, Exit, Main, BInv, Served
<1>12. CASE UNCHANGED vars
  BY <1>12, BInvKept DEF vars, Served
<1>13. QED
  BY <1>2, <1>3, <1>4, <1>5, <1>6, <1>7, <1>8, <1>9, <1>10, <1>11, <1>12, OpenBInv, SwapBInv,
     CloseBInv DEF Next, EngineStep, EndStep

\* The first board is open, dry and the only one.
LEMMA InitBInv == Init => BInv
<1> SUFFICES ASSUME Init PROVE BInv
  OBVIOUS
<1>1. \A c \in Clients : req[c].at = "idle"
  BY DEF Init, Idle
<1>2. QED
  BY <1>1, Parameters DEF Init, BInv, BoardsApart, Exchanging

\* The exchange holds of the handlers.
LEMMA BInvHolds == Spec => []BInv
BY InitBInv, NextBInv, TInvHolds, PTL DEF Spec

\* Between two exchanges the engine drives the board the next one will switch off
\* and close; it is open, and no other board was left with a valve open, whichever
\* exchanges overlap and however often one board is asked for.
THEOREM OneBoardDriven == Spec => []BoardInForce
<1>1. BInv => BoardInForce
  BY DEF BInv, BoardInForce, Served, Open
<1>2. QED
  BY <1>1, BInvHolds, PTL

-----------------------------------------------------------------------------
(* The end of the daemon.                                                    *)

\* Nothing waters and nothing is left that could.
Quiet == zone = 0 /\ queue = {} /\ pending = {} /\ cycle = "none"

\* After the engine's shutdown only a request that comes late can open a valve,
\* and until the board is closed no valve of it is open without a zone that runs.
DInv ==
  /\ Served /\ zone = 0 => driven \notin relay
  /\ phase \in {"off", "closed", "exited"} /\ ~late => Quiet
  /\ phase \in {"closed", "exited"} /\ ~late => relay = {}

\* The board that is driven is open.
LEMMA DrivenOpen == ASSUME TInv, BInv, Served PROVE Open(driven)
<1>1. CASE outMu = Nobody
  BY <1>1 DEF BInv, Open
<1>2. CASE outMu # Nobody
  <2>1. outMu \in Clients
    BY <1>2 DEF TInv, TypeOK
  <2>2. req[outMu].at = "close" /\ driven = WantedBoard(req[outMu]) /\ BoardsApart
    BY <2>1 DEF BInv, HalfWay
  <2>3. QED
    BY <2>1, <2>2 DEF BoardsApart, Exchanging, Open
<1>3. QED
  BY <1>1, <1>2

\* Where a latch leaves no zone, it closes the valve.
LEMMA LatchDries ==
  ASSUME TInv, BInv, DInv, Served, Latch \/ UNCHANGED <<zone, relay>>, zone' = 0
  PROVE  driven \notin relay'
<1>1. Open(driven)
  BY DrivenOpen
<1>2. CASE zone' = zone
  BY <1>2 DEF Latch, DInv
<1>3. CASE zone' # zone
  <2>1. relay' = relay \ {driven}
    BY <1>1, <1>3 DEF Latch, Driving
  <2>2. QED
    BY <2>1
<1>4. QED
  BY <1>2, <1>3

\* A step that opens no valve.
LEMMA DInvKept ==
  ASSUME DInv, UNCHANGED <<zone, queue, pending, cycle, driven, phase>>, relay' \subseteq relay,
         ~late' => ~late
  PROVE  DInv'
BY DEF DInv, Served, Quiet

\* A step of requests that reach the engine or a board is late after the shutdown.
LEMMA LateDInv ==
  ASSUME phase' = phase, late' = (late \/ phase \in {"off", "closed"}), phase # "exited",
         Served /\ zone' = 0 => driven' \notin relay'
  PROVE  DInv'
BY DEF DInv, Served, Quiet

\* A client that has a place is not gone with the process.
ExitInv == phase = "exited" => \A c \in Clients : req[c].at = "gone"

\* The clients go with the process.
LEMMA NextExitInv == TInv /\ ExitInv /\ [Next]_vars => ExitInv'
<1> SUFFICES ASSUME TInv, ExitInv, [Next]_vars PROVE ExitInv'
  OBVIOUS
<1> USE DEF daemon, ExitInv
<1>1. CASE ComeDue \/ EngineStep
  BY <1>1, ComeDueFacts, EngineStepFacts
<1>2. CASE EndStep
  BY <1>2, EndStepFacts
<1>3. ASSUME NEW c \in Clients, req[c].at # "gone", phase' = phase PROVE ExitInv'
  BY <1>3
<1>4. ASSUME NEW c \in Clients, Begin(c) PROVE ExitInv'
  BY <1>3, <1>4, BeginFacts
<1>5. ASSUME NEW c \in Clients, Update(c) PROVE ExitInv'
  BY <1>3, <1>5, UpdateFacts
<1>6. ASSUME NEW c \in Clients, Look(c) PROVE ExitInv'
  BY <1>3, <1>6, LookFacts
<1>7. ASSUME NEW c \in Clients, CallEngine(c) PROVE ExitInv'
  BY <1>3, <1>7, CallFacts
<1>8. ASSUME NEW c \in Clients, OpenBoard(c) PROVE ExitInv'
  BY <1>3, <1>8, OpenFacts
<1>9. ASSUME NEW c \in Clients, SwapBoard(c) PROVE ExitInv'
  BY <1>3, <1>9, SwapFacts
<1>10. ASSUME NEW c \in Clients, CloseOld(c) PROVE ExitInv'
  BY <1>3, <1>10, CloseFacts
<1>11. ASSUME NEW c \in Clients, Listen(c) PROVE ExitInv'
  BY <1>3, <1>11, ListenFacts
<1>12. ASSUME NEW c \in Clients, Revert(c) PROVE ExitInv'
  BY <1>3, <1>12, RevertFacts
<1>13. CASE CloseBoard
  BY <1>13 DEF CloseBoard, Main
<1>14. CASE Exit
  <2>1. req' = [c \in Clients |-> Gone]
    BY <1>14 DEF Exit, Gone
  <2>2. QED
    BY <2>1 DEF Gone
<1>15. CASE UNCHANGED vars
  BY <1>15 DEF vars
<1>16. QED
  BY <1>1, <1>2, <1>4, <1>5, <1>6, <1>7, <1>8, <1>9, <1>10, <1>11, <1>12, <1>13, <1>14, <1>15
  DEF Next, EngineStep, EndStep

\* Every step leaves the end dry, unless it is late.
LEMMA NextDInv == TInv /\ BInv /\ ExitInv /\ DInv /\ [Next]_vars => DInv'
<1> SUFFICES ASSUME TInv, BInv, ExitInv, DInv, [Next]_vars PROVE DInv'
  OBVIOUS
<1> USE DEF starts, run, boards, daemon, bounds, history
<1>1. CASE ComeDue
  BY <1>1, ComeDueFacts, DInvKept
<1>2. CASE EngineStep
  <2>1. /\ Latch /\ UNCHANGED <<driven, phase, late>>
        /\ pending = {} /\ queue = {} /\ zone = 0 /\ cycle = "none" => FALSE
    BY <1>2, EngineStepFacts
  <2>2. ~Quiet
    BY <2>1 DEF Quiet
  <2>3. Served /\ zone' = 0 => driven' \notin relay'
    BY <2>1, LatchDries
  <2>4. QED
    BY <2>1, <2>2, <2>3 DEF DInv, Served
<1>3. CASE EndStep
  <2>1. /\ UNCHANGED <<driven, late>>
        /\ \/ phase = "up" /\ phase' = "stopping" /\ UNCHANGED <<pending, run, relay>>
           \/ phase = "stopping" /\ phase' = "served" /\ UNCHANGED <<pending, run, relay>>
           \/ phase = "served" /\ phase' = "off" /\ pending' = {} /\ Dry
           \/ phase \notin {"up", "exited"} /\ phase' = phase /\ pending' = {} /\ Dry
    BY <1>3, EndStepFacts
  <2>2. CASE phase' \in {"stopping", "served"} /\ phase # phase' /\ UNCHANGED <<pending, run, relay>>
    BY <2>1, <2>2 DEF DInv, Served
  <2>3. CASE pending' = {} /\ Dry
    <3>1. Quiet'
      BY <2>3 DEF Dry, Quiet
    <3>2. Served' => Served
      BY <2>1 DEF Served
    <3>3. Latch
      BY <1>3, <2>1, <2>3 DEF EndStep, Signal, StopHTTP, StopEngine, EndLoop, Shutdown, Main,
                              Latch, Dry
    <3>4. Served => driven \notin relay'
      BY <2>3, <3>3, LatchDries DEF Dry
    <3>5. ASSUME phase' \in {"closed", "exited"}, ~late' PROVE relay' = {}
      <4>1. phase = phase' /\ ~late
        BY <2>1, <3>5
      <4>2. relay = {} /\ zone = 0 /\ zone' = 0
        BY <2>3, <3>5, <4>1 DEF DInv, Quiet, Dry
      <4>3. QED
        BY <3>3, <4>2 DEF Latch
    <3>6. QED
      BY <2>1, <3>1, <3>2, <3>4, <3>5 DEF DInv
  <2>4. QED
    BY <2>1, <2>2, <2>3
<1>4. ASSUME NEW c \in Clients, Begin(c) PROVE DInv'
  <2>1. UNCHANGED <<pending, run, boards, phase, late>>
    BY <1>4, BeginFacts
  <2>2. QED
    BY <2>1, DInvKept
<1>5. ASSUME NEW c \in Clients, Update(c) PROVE DInv'
  BY <1>5, UpdateFacts, DInvKept
<1>6. ASSUME NEW c \in Clients, Look(c) PROVE DInv'
  BY <1>6, LookFacts, DInvKept
<1>7. ASSUME NEW c \in Clients, CallEngine(c) PROVE DInv'
  <2>1. /\ req[c].at = "engine" /\ req[c] \in Task /\ EngineCall(req[c])
        /\ late' = (late \/ phase \in {"off", "closed"}) /\ UNCHANGED <<driven, phase>>
    BY <1>7, CallFacts
  <2>2. Latch \/ UNCHANGED <<zone, relay>>
    BY <2>1, CallTyped
  <2>3. Served /\ zone' = 0 => driven' \notin relay'
    BY <2>1, <2>2, LatchDries
  <2>4. phase # "exited"
    BY <2>1 DEF ExitInv
  <2>5. QED
    BY <2>1, <2>3, <2>4, LateDInv
<1>8. ASSUME NEW c \in Clients, OpenBoard(c) PROVE DInv'
  BY <1>8, OpenFacts, DInvKept
<1>9. ASSUME NEW c \in Clients, SwapBoard(c) PROVE DInv'
  <2>1. /\ req[c].at = "swap" /\ late' = (late \/ phase \in {"off", "closed"})
        /\ relay' = IF zone # 0 THEN relay \cup {driven'} ELSE relay \ {driven'}
        /\ UNCHANGED <<zone, phase>>
    BY <1>9, SwapFacts
  <2>2. phase # "exited" /\ (zone' = 0 => driven' \notin relay')
    BY <2>1 DEF ExitInv
  <2>3. QED
    BY <2>1, <2>2, LateDInv
<1>10. ASSUME NEW c \in Clients, CloseOld(c) PROVE DInv'
  <2>1. relay' \subseteq relay
    BY <1>10, CloseFacts
  <2>2. QED
    BY <1>10, <2>1, CloseFacts, DInvKept
<1>11. ASSUME NEW c \in Clients, Listen(c) PROVE DInv'
  BY <1>11, ListenFacts, DInvKept
<1>12. ASSUME NEW c \in Clients, Revert(c) PROVE DInv'
  BY <1>12, RevertFacts, DInvKept
<1>13. CASE CloseBoard
  <2>1. /\ phase = "off" /\ phase' = "closed" /\ outMu = Nobody /\ relay' \subseteq relay
        /\ UNCHANGED <<pending, run, late>>
    BY <1>13 DEF CloseBoard, Main
  <2>2. ASSUME ~late PROVE relay' = {} /\ Quiet
    <3>1. Quiet /\ Served
      BY <2>1, <2>2 DEF DInv, Served
    <3>2. relay \subseteq {driven} /\ driven \notin relay
      BY <2>1, <3>1 DEF BInv, DInv, Quiet
    <3>3. QED
      BY <2>1, <3>1, <3>2
  <2>3. QED
    BY <2>1, <2>2 DEF DInv, Served, Quiet
<1>14. CASE Exit
  BY <1>14 DEF Exit, Main, DInv, Served, Quiet
<1>15. CASE UNCHANGED vars
  BY <1>15, DInvKept DEF vars
<1>16. QED
  BY <1>1, <1>2, <1>3, <1>4, <1>5, <1>6, <1>7, <1>8, <1>9, <1>10, <1>11, <1>12, <1>13, <1>14,
     <1>15 DEF Next, EngineStep, EndStep

\* The daemon leaves no valve open, whichever of main, the engine's goroutine and
\* the exchanges under way ends first, unless a request reaches the engine or a
\* board after the shutdown.
THEOREM QuietEndIsDry == Spec => []QuietExitIsDry
<1>1. Init => DInv /\ ExitInv
  BY DEF Init, DInv, ExitInv, Served, Quiet
<1>2. DInv => QuietExitIsDry
  BY DEF DInv, QuietExitIsDry
<1>3. QED
  BY <1>1, <1>2, NextDInv, NextExitInv, TInvHolds, BInvHolds, PTL DEF Spec

-----------------------------------------------------------------------------
(* Settings in force.                                                        *)

\* A request for settings is under way.
Busy(r) == r.at \notin {"idle", "gone"} /\ r.want.kind \in SettingsRequests

\* How far the board of the settings, b, is from the one that is driven, d.
BoardStage(r, b, d) ==
  /\ r.at = "update" => b = d
  /\ r.at \in {"update", "engine"} /\ r.want.kind = "putSettings" => r.prev.board = d
  /\ r.at # "update" => b = WantedBoard(r)
  /\ r.at \in {"close", "listen", "revert"} => b = d

\* How far the port of the settings, s, is from the one the server listens on, p.
PortStage(r, s, p) ==
  /\ r.at = "update" => s = p
  /\ r.want.kind = "putSettings" => r.prev.port = p
  /\ r.want.kind = "postRestore" => r.want.body.settings.port = p /\ s = p
  /\ r.want.kind = "putSettings" /\ r.at # "update" => s = r.want.body.port

\* Unless they are in doubt: one such request at a time, as far as it has got, and
\* with none under way what the settings say.
SInv ==
  phase # "exited" =>
    /\ "board" \in unsure => "port" \in unsure
    /\ "board" \notin unsure =>
         /\ \A c, d \in Clients : Busy(req[c]) /\ Busy(req[d]) => c = d
         /\ \A c \in Clients : Busy(req[c]) => BoardStage(req[c], cfg.settings.board, driven)
         /\ (\A c \in Clients : ~Busy(req[c])) => cfg.settings.board = driven
    /\ "port" \notin unsure =>
         /\ \A c \in Clients : Busy(req[c]) => PortStage(req[c], cfg.settings.port, port)
         /\ (\A c \in Clients : ~Busy(req[c])) => cfg.settings.port = port

\* A step of no such request.
LEMMA SInvKept ==
  ASSUME SInv, phase = "exited" => phase' = "exited", UNCHANGED <<driven, port, unsure>>,
         cfg'.settings.board = cfg.settings.board, cfg'.settings.port = cfg.settings.port,
         \A d \in Clients : req'[d] = req[d] \/ (~Busy(req[d]) /\ ~Busy(req'[d]))
  PROVE  SInv'
BY DEF SInv

\* A step of the only such request.
LEMMA SInvOwn ==
  ASSUME SInv, NEW c \in Clients, Busy(req[c]), \A d \in Clients \ {c} : req'[d] = req[d],
         phase' = phase, unsure \subseteq unsure', "board" \in unsure' => "port" \in unsure',
         "board" \notin unsure' /\ BoardStage(req[c], cfg.settings.board, driven) =>
           IF Busy(req'[c]) THEN BoardStage(req'[c], cfg'.settings.board, driven')
                            ELSE cfg'.settings.board = driven',
         "port" \notin unsure' /\ BoardStage(req[c], cfg.settings.board, driven)
             /\ PortStage(req[c], cfg.settings.port, port) =>
           IF Busy(req'[c]) THEN PortStage(req'[c], cfg'.settings.port, port')
                            ELSE cfg'.settings.port = port'
  PROVE  SInv'
<1> SUFFICES ASSUME phase # "exited" PROVE SInv'
  BY DEF SInv
<1>1. "board" \notin unsure' =>
        /\ BoardStage(req[c], cfg.settings.board, driven)
        /\ \A d \in Clients \ {c} : ~Busy(req[d]) /\ ~Busy(req'[d])
  BY DEF SInv
<1>2. "port" \notin unsure' => PortStage(req[c], cfg.settings.port, port)
  BY DEF SInv
<1>3. "port" \notin unsure' => "board" \notin unsure'
  OBVIOUS
<1>4. QED
  BY <1>1, <1>2, <1>3 DEF SInv

\* A request for settings begins.
LEMMA BeginSInv ==
  ASSUME TInv, SInv, NEW c \in Clients, Begin(c)
  PROVE  SInv'
<1>1. PICK w \in Wanted :
        /\ req[c].at = "idle" /\ \A d \in Clients \ {c} : req'[d] = req[d]
        /\ req'[c].want = w /\ req'[c].prev = cfg.settings
        /\ req'[c].at = IF w.kind \in {"postManual", "postStop", "postQuickRun"}
                        THEN "engine" ELSE "update"
        /\ unsure' = unsure \cup Doubts(w)
        /\ UNCHANGED <<cfg, driven, port, phase>>
  BY BeginFacts DEF boards, daemon
<1>2. CASE w.kind \notin SettingsRequests
  <2>1. unsure' = unsure /\ ~Busy(req[c]) /\ ~Busy(req'[c])
    BY <1>1, <1>2 DEF Doubts, Busy
  <2>2. QED
    BY <1>1, <2>1, SInvKept
<1>3. CASE w.kind \in SettingsRequests /\ SettingsUnderWay
  <2>1. "board" \in unsure' /\ "port" \in unsure'
    BY <1>1, <1>3 DEF Doubts
  <2>2. QED
    BY <2>1 DEF SInv
<1>4. CASE w.kind \in SettingsRequests /\ ~SettingsUnderWay
  <2> SUFFICES ASSUME phase # "exited" PROVE SInv'
    BY <1>1 DEF SInv
  <2>1. \A d \in Clients : ~Busy(req[d])
    BY <1>4 DEF SettingsUnderWay, Busy, At
  <2>2. /\ req'[c].at = "update" /\ Busy(req'[c])
        /\ \A d \in Clients \ {c} : ~Busy(req'[d])
    BY <1>1, <1>4, <2>1 DEF Busy, SettingsRequests
  <2>3. /\ "board" \in unsure' <=> "board" \in unsure
        /\ "port" \in unsure => "port" \in unsure'
        /\ w.kind = "postRestore" /\ "port" \notin unsure' => w.body.settings.port = port
    BY <1>1, <1>4 DEF Doubts
  <2>4. "board" \notin unsure' => BoardStage(req'[c], cfg'.settings.board, driven')
    BY <1>1, <2>1, <2>2, <2>3 DEF SInv, BoardStage
  <2>5. "port" \notin unsure' => PortStage(req'[c], cfg'.settings.port, port')
    BY <1>1, <2>1, <2>2, <2>3 DEF SInv, PortStage
  <2>6. "board" \in unsure' => "port" \in unsure'
    BY <2>3 DEF SInv
  <2>7. QED
    BY <2>2, <2>4, <2>5, <2>6 DEF SInv
<1>5. QED
  BY <1>2, <1>3, <1>4

\* What is saved is on its way to be in force.
LEMMA UpdateSInv ==
  ASSUME TInv, SInv, NEW c \in Clients, Update(c)
  PROVE  SInv'
<1>1. /\ req[c].at = "update" /\ req[c] \in Task /\ Placed(req[c]) /\ cfg \in ConfigSet
      /\ \A d \in Clients \ {c} : req'[d] = req[d]
      /\ UNCHANGED <<driven, port, phase, unsure>>
  BY UpdateFacts DEF boards, daemon, TInv, TypeOK
<1>2. CASE req'[c].at = "idle" /\ cfg' = cfg
  <2>1. ~Busy(req'[c])
    BY <1>2 DEF Busy
  <2>2. CASE Busy(req[c])
    BY <1>1, <1>2, <2>1, <2>2, SInvOwn DEF BoardStage, PortStage, SInv
  <2>3. CASE ~Busy(req[c])
    BY <1>1, <1>2, <2>1, <2>3, SInvKept
  <2>4. QED
    BY <2>2, <2>3
<1>3. CASE /\ Edits(req[c].want) /\ cfg' = Edited(req[c])
           /\ req'[c].at = IF req[c].want.kind = "putZone" THEN "look" ELSE "engine"
           /\ req'[c].want = req[c].want /\ req'[c].prev = req[c].prev
  <2>1. CASE req[c].want.kind \notin SettingsRequests
    <3>1. /\ cfg'.settings.board = cfg.settings.board /\ cfg'.settings.port = cfg.settings.port
          /\ ~Busy(req[c]) /\ ~Busy(req'[c])
      BY <1>1, <1>3, <2>1, EditedTyped DEF Busy
    <3>2. QED
      BY <1>1, <3>1, SInvKept
  <2>2. CASE req[c].want.kind \in SettingsRequests
    <3>1. /\ req'[c].at = "engine" /\ Busy(req'[c]) /\ Busy(req[c])
          /\ WantedBoard(req'[c]) = WantedBoard(req[c])
      BY <1>1, <1>3, <2>2 DEF Busy, SettingsRequests, WantedBoard
    <3>2. /\ req[c].want.kind = "putSettings" => cfg'.settings = req[c].want.body
          /\ req[c].want.kind = "postRestore" => cfg'.settings = req[c].want.body.settings
      BY <1>1, <1>3, EditedTyped
    <3>3. cfg'.settings.board = WantedBoard(req[c])
      BY <2>2, <3>2 DEF WantedBoard, SettingsRequests
    <3>4. ASSUME BoardStage(req[c], cfg.settings.board, driven)
          PROVE  BoardStage(req'[c], cfg'.settings.board, driven')
      BY <1>1, <1>3, <3>1, <3>3, <3>4 DEF BoardStage
    <3>5. ASSUME PortStage(req[c], cfg.settings.port, port)
          PROVE  PortStage(req'[c], cfg'.settings.port, port')
      BY <1>1, <1>3, <3>1, <3>2, <3>5 DEF PortStage
    <3>6. CASE phase # "exited"
      BY <1>1, <3>1, <3>4, <3>5, <3>6, SInvOwn DEF SInv
    <3>7. QED
      BY <1>1, <3>6 DEF SInv
  <2>3. QED
    BY <2>1, <2>2
<1>4. QED
  BY <1>2, <1>3, UpdateFacts

\* The engine was told; board and port are next, if they change.
LEMMA CallSInv ==
  ASSUME TInv, SInv, NEW c \in Clients, CallEngine(c)
  PROVE  SInv'
<1>1. /\ req[c].at = "engine" /\ \A d \in Clients \ {c} : req'[d] = req[d]
      /\ req'[c].at = AfterEngine(req[c])
      /\ req'[c].at # "idle" => req'[c].want = req[c].want /\ req'[c].prev = req[c].prev
      /\ UNCHANGED <<cfg, driven, port, phase, unsure>>
      /\ Placed(req'[c])
  BY CallFacts DEF daemon
<1>2. CASE ~Busy(req[c])
  <2>1. req'[c].at = "idle"
    BY <1>1, <1>2 DEF Busy, AfterEngine, NewPort, SettingsRequests
  <2>2. ~Busy(req'[c])
    BY <2>1 DEF Busy
  <2>3. QED
    BY <1>1, <1>2, <2>2, SInvKept
<1>3. CASE Busy(req[c])
  <2>1. req[c].want.kind \in SettingsRequests
    BY <1>3 DEF Busy
  <2>2. Busy(req'[c]) <=> req'[c].at # "idle"
    BY <1>1, <2>1 DEF Busy, AfterEngine
  <2>3. req'[c].at # "idle" => WantedBoard(req'[c]) = WantedBoard(req[c])
    BY <1>1 DEF WantedBoard
  <2>4. ASSUME BoardStage(req[c], cfg.settings.board, driven)
        PROVE  IF Busy(req'[c]) THEN BoardStage(req'[c], cfg'.settings.board, driven')
                                ELSE cfg'.settings.board = driven'
    BY <1>1, <2>1, <2>2, <2>3, <2>4
    DEF BoardStage, AfterEngine, WantedBoard, SettingsRequests
  <2>5. ASSUME PortStage(req[c], cfg.settings.port, port)
        PROVE  IF Busy(req'[c]) THEN PortStage(req'[c], cfg'.settings.port, port')
                                ELSE cfg'.settings.port = port'
    BY <1>1, <2>1, <2>2, <2>5 DEF PortStage, AfterEngine, NewPort, SettingsRequests
  <2>6. CASE phase # "exited"
    BY <1>1, <1>3, <2>4, <2>5, <2>6, SInvOwn DEF SInv
  <2>7. QED
    BY <1>1, <2>6 DEF SInv
<1>4. QED
  BY <1>2, <1>3

\* The exchange brings the board the settings name.
LEMMA ExchangeSInv ==
  ASSUME TInv, SInv, NEW c \in Clients, OpenBoard(c) \/ SwapBoard(c) \/ CloseOld(c)
  PROVE  SInv'
<1> SUFFICES ASSUME phase # "exited" PROVE SInv'
  BY OpenFacts, SwapFacts, CloseFacts DEF SInv, daemon
<1>1. CASE OpenBoard(c)
  <2>1. /\ req[c].at = "open" /\ Busy(req[c]) /\ \A d \in Clients \ {c} : req'[d] = req[d]
        /\ UNCHANGED <<cfg, driven, port, phase>>
    BY <1>1, OpenFacts DEF Busy, daemon
  <2>2. CASE /\ unsure' = unsure /\ req'[c].at = "swap"
             /\ req'[c].want = req[c].want /\ req'[c].prev = req[c].prev
    <3>1. Busy(req'[c]) /\ WantedBoard(req'[c]) = WantedBoard(req[c])
      BY <2>1, <2>2 DEF Busy, WantedBoard
    <3>2. BoardStage(req[c], cfg.settings.board, driven) =>
            BoardStage(req'[c], cfg'.settings.board, driven')
      BY <2>1, <2>2, <3>1 DEF BoardStage
    <3>3. PortStage(req[c], cfg.settings.port, port) =>
            PortStage(req'[c], cfg'.settings.port, port')
      BY <2>1, <2>2 DEF PortStage
    <3>4. QED
      BY <2>1, <2>2, <3>1, <3>2, <3>3, SInvOwn DEF SInv
  <2>3. CASE unsure' = {"board", "port"}
    BY <2>3 DEF SInv
  <2>4. QED
    BY <1>1, <2>2, <2>3, OpenFacts
<1>2. CASE SwapBoard(c)
  <2>1. /\ req[c].at = "swap" /\ Busy(req[c]) /\ \A d \in Clients \ {c} : req'[d] = req[d]
        /\ req'[c].at = "close" /\ req'[c].want = req[c].want /\ req'[c].prev = req[c].prev
        /\ driven' = WantedBoard(req[c])
        /\ UNCHANGED <<cfg, port, phase, unsure>>
    BY <1>2, SwapFacts DEF Busy, daemon
  <2>2. Busy(req'[c]) /\ WantedBoard(req'[c]) = WantedBoard(req[c])
    BY <2>1 DEF Busy, WantedBoard
  <2>3. BoardStage(req[c], cfg.settings.board, driven) =>
          BoardStage(req'[c], cfg'.settings.board, driven')
    BY <2>1, <2>2 DEF BoardStage
  <2>4. PortStage(req[c], cfg.settings.port, port) =>
          PortStage(req'[c], cfg'.settings.port, port')
    BY <2>1 DEF PortStage
  <2>5. QED
    BY <2>1, <2>2, <2>3, <2>4, SInvOwn DEF SInv
<1>3. CASE CloseOld(c)
  <2>1. /\ req[c].at = "close" /\ Busy(req[c]) /\ \A d \in Clients \ {c} : req'[d] = req[d]
        /\ req'[c].at = IF NewPort(req[c]) THEN "listen" ELSE "idle"
        /\ req'[c].at # "idle" => req'[c].want = req[c].want /\ req'[c].prev = req[c].prev
        /\ req[c].want.kind \in SettingsRequests
        /\ UNCHANGED <<cfg, driven, port, phase, unsure>>
    BY <1>3, CloseFacts DEF Busy, daemon, history
  <2>2. /\ Busy(req'[c]) <=> req'[c].at # "idle"
        /\ req'[c].at # "idle" => WantedBoard(req'[c]) = WantedBoard(req[c])
    BY <2>1 DEF Busy, WantedBoard
  <2>3. BoardStage(req[c], cfg.settings.board, driven) =>
          IF Busy(req'[c]) THEN BoardStage(req'[c], cfg'.settings.board, driven')
                           ELSE cfg'.settings.board = driven'
    BY <2>1, <2>2 DEF BoardStage
  <2>4. PortStage(req[c], cfg.settings.port, port) =>
          IF Busy(req'[c]) THEN PortStage(req'[c], cfg'.settings.port, port')
                           ELSE cfg'.settings.port = port'
    BY <2>1, <2>2 DEF PortStage, NewPort, SettingsRequests
  <2>5. QED
    BY <2>1, <2>3, <2>4, SInvOwn DEF SInv
<1>4. QED
  BY <1>1, <1>2, <1>3

\* The listener takes the port, or the setting goes back to the port it has.
LEMMA PortSInv ==
  ASSUME TInv, SInv, NEW c \in Clients, Listen(c) \/ Revert(c)
  PROVE  SInv'
<1> SUFFICES ASSUME phase # "exited" PROVE SInv'
  BY ListenFacts, RevertFacts DEF SInv, daemon
<1>1. CASE Listen(c)
  <2>1. /\ req[c].at = "listen" /\ Busy(req[c]) /\ \A d \in Clients \ {c} : req'[d] = req[d]
        /\ req[c].want.kind = "putSettings"
        /\ UNCHANGED <<cfg, driven, phase, unsure>>
    BY <1>1, ListenFacts DEF Busy, boards, history, SettingsRequests
  <2>2. CASE port' = req[c].want.body.port /\ req'[c].at = "idle"
    <3>1. ~Busy(req'[c])
      BY <2>2 DEF Busy
    <3>2. BoardStage(req[c], cfg.settings.board, driven) => cfg'.settings.board = driven'
      BY <2>1 DEF BoardStage
    <3>3. PortStage(req[c], cfg.settings.port, port) => cfg'.settings.port = port'
      BY <2>1, <2>2 DEF PortStage
    <3>4. QED
      BY <2>1, <3>1, <3>2, <3>3, SInvOwn DEF SInv
  <2>3. CASE /\ port' = port /\ req'[c].at = "revert"
             /\ req'[c].want = req[c].want /\ req'[c].prev = req[c].prev
    <3>1. Busy(req'[c]) /\ WantedBoard(req'[c]) = WantedBoard(req[c])
      BY <2>1, <2>3 DEF Busy, WantedBoard, SettingsRequests
    <3>2. BoardStage(req[c], cfg.settings.board, driven) =>
            BoardStage(req'[c], cfg'.settings.board, driven')
      BY <2>1, <2>3, <3>1 DEF BoardStage
    <3>3. PortStage(req[c], cfg.settings.port, port) =>
            PortStage(req'[c], cfg'.settings.port, port')
      BY <2>1, <2>3 DEF PortStage
    <3>4. QED
      BY <2>1, <3>1, <3>2, <3>3, SInvOwn DEF SInv
  <2>4. QED
    BY <1>1, <2>2, <2>3, ListenFacts
<1>2. CASE Revert(c)
  <2>1. /\ req[c].at = "revert" /\ Busy(req[c]) /\ \A d \in Clients \ {c} : req'[d] = req[d]
        /\ req[c].want.kind = "putSettings"
        /\ req'[c].at = "idle" /\ cfg'.settings.board = cfg.settings.board
        /\ UNCHANGED <<driven, port, phase>>
        /\ \/ cfg'.settings.port = req[c].prev.port /\ unsure' = unsure
           \/ cfg' = cfg /\ unsure' = unsure \cup {"port"}
    BY <1>2, RevertFacts DEF Busy, boards, daemon, SettingsRequests
  <2>2. ~Busy(req'[c])
    BY <2>1 DEF Busy
  <2>3. BoardStage(req[c], cfg.settings.board, driven) => cfg'.settings.board = driven'
    BY <2>1 DEF BoardStage
  <2>4. PortStage(req[c], cfg.settings.port, port) /\ "port" \notin unsure' =>
          cfg'.settings.port = port'
    BY <2>1 DEF PortStage
  <2>5. "board" \in unsure' => "port" \in unsure'
    BY <2>1 DEF SInv
  <2>6. QED
    BY <2>1, <2>2, <2>3, <2>4, <2>5, SInvOwn
<1>3. QED
  BY <1>1, <1>2

\* Every step keeps the settings on their way.
LEMMA NextSInv == TInv /\ SInv /\ [Next]_vars => SInv'
<1> SUFFICES ASSUME TInv, SInv, [Next]_vars PROVE SInv'
  OBVIOUS
<1> USE DEF starts, run, boards, daemon, bounds, history
<1>1. CASE ComeDue
  BY <1>1, ComeDueFacts, SInvKept
<1>2. CASE EngineStep
  BY <1>2, EngineStepFacts, SInvKept
<1>3. CASE EndStep
  <2>1. UNCHANGED <<cfg, driven, port, unsure, req>> /\ (phase = "exited" => phase' = "exited")
    BY <1>3, EndStepFacts
  <2>2. QED
    BY <2>1, SInvKept
<1>4. ASSUME NEW c \in Clients, Look(c) PROVE SInv'
  <2>1. ~Busy(req[c]) /\ ~Busy(req'[c])
    BY <1>4, LookFacts DEF Busy, SettingsRequests
  <2>2. QED
    BY <1>4, <2>1, LookFacts, SInvKept
<1>5. CASE CloseBoard
  <2>1. UNCHANGED <<cfg, driven, port, unsure, req>> /\ phase # "exited"
    BY <1>5 DEF CloseBoard, Main
  <2>2. QED
    BY <2>1, SInvKept
<1>6. CASE Exit
  BY <1>6 DEF Exit, Main, SInv
<1>7. CASE UNCHANGED vars
  BY <1>7, SInvKept DEF vars
<1>8. QED
  BY <1>1, <1>2, <1>3, <1>4, <1>5, <1>6, <1>7, BeginSInv, UpdateSInv, CallSInv, ExchangeSInv,
     PortSInv DEF Next, EngineStep, EndStep

\* With no request for settings under way the engine drives the board and the
\* server listens on the port that are stored, also after a port went back while
\* other settings changed; the exceptions are those the property names.
THEOREM SettingsTakeEffect == Spec => []SettingsInForce
<1>1. Init => SInv
  <2> SUFFICES ASSUME Init PROVE SInv
    OBVIOUS
  <2>1. \A c \in Clients : ~Busy(req[c])
    BY DEF Init, Idle, Busy
  <2>2. QED
    BY <2>1 DEF Init, SInv
<1>2. SInv => SettingsInForce
  BY DEF SInv, SettingsInForce, SettingsUnderWay, Busy, At
<1>3. QED
  BY <1>1, <1>2, NextSInv, TInvHolds, PTL DEF Spec
=============================================================================

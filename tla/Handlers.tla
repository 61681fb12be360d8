------------------------------ MODULE Handlers ------------------------------
(***************************************************************************)
(* The requests of internal/api/api.go and the commands of MQTT, each in a   *)
(* goroutine of its own, over the four things they share: the configuration *)
(* store, the engine, the output board that applyOutput of                   *)
(* cmd/sprinklerd/main.go exchanges, and the listener of internal/websrv.    *)
(* A request reads a snapshot, updates the store, and then calls the engine, *)
(* the board and the listener one after the other; every call is atomic,     *)
(* any other request, a tick of the engine or the shutdown of the daemon     *)
(* may come between two of them.                                             *)
(*                                                                          *)
(* The store is the register ConfigStore implements.  The engine is reduced  *)
(* to what requests see of it: its list of starts, the zone it waters and    *)
(* the slots still to come; when things happen is left open here and is the *)
(* subject of module Engine.                                                *)
(***************************************************************************)
EXTENDS Integers, Sequences, SequencesExt, FiniteSets

CONSTANTS
  Clients,        \* requests that may be under way at once
  Remote,         \* those of them that come by MQTT
  Wanted,         \* what clients ask for, see RequestSet
  Zones,          \* the zones
  FirstConfig,    \* the configuration the daemon is started with
  Boards,         \* output backends
  Lines,          \* the GPIO lines each of them holds for itself
  Ports,          \* web ports
  BusyPorts,      \* those that cannot be bound
  Nobody,
  MaxSchedules,   \* model.MaxSchedules
  MaxRequests,    \* bound: requests
  MaxDue,         \* bound: starts that come due
  MaxFaults       \* bound: saves that fail

Exclusive == {b \in Boards : Lines[b] # {}}

\* The part of the settings a request of any kind may change, and the rest.
Settings  == [run : BOOLEAN, board : Boards, port : Ports]
ConfigSet == [settings : Settings, enabled : SUBSET Zones, schedules : Seq(Nat)]

RequestSet ==
  [kind : {"postSchedule", "postStop", "postQuickRun"}]
    \cup [kind : {"putSchedule", "deleteSchedule"}, id : Nat]
    \cup [kind : {"putSystemRun"}, on : BOOLEAN]
    \cup [kind : {"putSettings"}, body : Settings]
    \cup [kind : {"postRestore"}, body : ConfigSet]
    \cup [kind : {"putZone", "postManual"}, zone : Zones, on : BOOLEAN]

ASSUME Parameters ==
  /\ Remote \subseteq Clients /\ Wanted \subseteq RequestSet
  /\ FirstConfig \in ConfigSet
  /\ Boards \subseteq DOMAIN Lines /\ Nobody \notin Clients
  /\ 0 \notin Zones
  /\ MaxSchedules \in Nat /\ MaxRequests \in Nat /\ MaxDue \in Nat /\ MaxFaults \in Nat

VARIABLES
  cfg,        \* the stored configuration
  pending,    \* e.pending: the starts to come, each with the program it is for
  due,        \* the programs whose start is not in the future any more
  zone,       \* e.run.zone, 0 if none
  queue,      \* the zones of the events in e.running
  cycle,      \* whose events they are: "none", "scheduled" or "quick"
  blocks,     \* e.run.schedule, which keeps other starts waiting
  driven,     \* e.out
  current,    \* applyOutput's current
  held,       \* boards whose lines are requested
  relay,      \* the boards on which a valve is open
  outMu,      \* who holds outMu
  port,       \* the port the web server listens on
  phase,      \* how far main has got
  looping,    \* whether the engine's goroutine runs
  req,        \* per client: the request under way, and where it is
  offBy,      \* history: what switched the scheduler off or on last
  late,       \* history: a call reached the engine or a board after the shutdown
  unsure,     \* history: settings that need not be in force any more, see SettingsInForce
  asked, faults   \* count towards the bounds

starts  == <<pending, due>>
run     == <<zone, queue, cycle, blocks>>
boards  == <<driven, current, held, relay, outMu>>
daemon  == <<port, phase, looping>>
bounds  == <<asked, faults>>
history == <<offBy, late, unsure>>
vars    == <<cfg, starts, run, boards, daemon, req, history, bounds>>

-----------------------------------------------------------------------------
(* The engine.                                                              *)

\* Slip: the place counted from 0.
StartsFromZero(c) ==
  IF c.settings.run THEN {[idx |-> i - 1, id |-> c.schedules[i]] : i \in DOMAIN c.schedules} ELSE {}

StartsOf(c) ==
  IF c.settings.run THEN {[idx |-> i, id |-> c.schedules[i]] : i \in DOMAIN c.schedules} ELSE {}

\* rebuildPendingLocked, also of starts that are due and wait for a run to end.
Rebuild == pending' = {s \in StartsOf(cfg) : s.id \notin due}

\* latchLocked: the board is told what changed, and hears it unless closed.
Open(b) == b \notin Exclusive \/ b \in held

Driving(b) == IF ~Open(b) THEN relay ELSE IF zone' # 0 THEN relay \cup {b} ELSE relay \ {b}

Latch == relay' = IF zone' = zone THEN relay ELSE Driving(driven)

Dry == zone' = 0 /\ queue' = {} /\ cycle' = "none" /\ blocks' = FALSE

StartCycle(zs, kind) ==
  \/ zs = {} /\ Dry
  \/ \E z \in zs : zone' = z /\ queue' = zs \ {z} /\ cycle' = kind /\ blocks' = TRUE

Reload == Rebuild /\ UNCHANGED <<run, relay>>

StopAll == Rebuild /\ Dry /\ Latch

\* The events of a cycle under way stay in e.running.
SetManualZone(z, on) ==
  /\ zone' = IF on THEN z ELSE 0
  /\ blocks' = FALSE
  /\ Latch
  /\ UNCHANGED <<pending, queue, cycle>>

QuickRun == Rebuild /\ (\E zs \in SUBSET cfg.enabled : StartCycle(zs, "quick")) /\ Latch

\* What every tick ends with and leaves alone.
TickEnd ==
  /\ Latch
  /\ UNCHANGED <<cfg, driven, current, held, outMu, daemon, req, history, bounds>>

\* Time passes: the start of a program, stored or on the list, comes due.
ComeDue ==
  /\ looping /\ Cardinality(due) < MaxDue
  /\ \E id \in Range(cfg.schedules) \cup {s.id : s \in pending} : due' = due \cup {id}
  /\ UNCHANGED <<cfg, pending, run, boards, daemon, req, history, bounds>>

\* A start names its program by its place among the schedules there are now, and
\* waits while a run goes on; a rain delay drops it.
FireStart ==
  /\ looping
  /\ \E s \in pending :
       /\ s.id \in due
       /\ pending' = pending \ {s}
       /\ \/ /\ ~blocks /\ s.idx \in DOMAIN cfg.schedules
             /\ \E zs \in SUBSET cfg.enabled : StartCycle(zs, "scheduled")
          \/ UNCHANGED run
  /\ UNCHANGED due
  /\ TickEnd

NextSlot ==
  /\ looping
  /\ \E z \in queue : zone' = z /\ queue' = queue \ {z} /\ blocks' = TRUE
  /\ UNCHANGED <<starts, cycle>>
  /\ TickEnd

Pause ==
  /\ looping /\ queue # {}
  /\ zone' = 0 /\ blocks' = TRUE
  /\ UNCHANGED <<starts, queue, cycle>>
  /\ TickEnd

EndCycle ==
  /\ looping /\ cycle # "none" /\ queue = {}
  /\ Dry
  /\ UNCHANGED starts
  /\ TickEnd

ManualEnd ==
  /\ looping /\ zone # 0 /\ ~blocks
  /\ zone' = 0
  /\ UNCHANGED <<starts, queue, cycle, blocks>>
  /\ TickEnd

-----------------------------------------------------------------------------
(* Requests.                                                                *)

Idle  == [at |-> "idle"]
At(c) == req[c].at

Goto(c, place) ==
  req' = [req EXCEPT ![c] = IF place = "idle" THEN Idle ELSE [@ EXCEPT !.at = place]]

Accepted(c, kind) ==
  IF c \in Remote
  THEN kind \in {"putSystemRun", "postManual", "postStop"}
  ELSE phase \in {"up", "stopping"}

SettingsRequests == {"putSettings", "postRestore"}

SettingsUnderWay ==
  \E c \in Clients : At(c) \notin {"idle", "gone"} /\ req[c].want.kind \in SettingsRequests

\* History: requests that overlap may miss each other's changes, and a restored
\* port waits for the next start, as the answer says.
Doubts(w) ==
  IF w.kind \notin SettingsRequests THEN {}
  ELSE IF SettingsUnderWay THEN {"board", "port"}
  ELSE IF w.kind = "postRestore" /\ w.body.settings.port # port THEN {"port"} ELSE {}

\* Reading the request: putSchedule and deleteSchedule check the id against one
\* snapshot, putSettings and postRestore keep the settings of another.
Begin(c) ==
  /\ At(c) = "idle" /\ asked < MaxRequests /\ asked' = asked + 1
  /\ \E w \in Wanted :
       /\ Accepted(c, w.kind)
       /\ w.kind \in {"putSchedule", "deleteSchedule"} => w.id \in DOMAIN cfg.schedules
       /\ req' = [req EXCEPT ![c] =
            [at    |-> IF w.kind \in {"postManual", "postStop", "postQuickRun"}
                       THEN "engine" ELSE "update",
             want  |-> w, prev |-> cfg.settings, new |-> MaxSchedules + asked,
             stops |-> FALSE, wet |-> FALSE]]
       /\ unsure' = unsure \cup Doubts(w)
  /\ UNCHANGED <<cfg, starts, run, boards, daemon, offBy, late, faults>>

\* The functions handed to Update.  An edited schedule is a new program.  An id
\* that is gone since is a panic inside Update: the request ends, the lock is
\* given back and nothing is changed.
Edits(w) ==
  CASE w.kind = "postSchedule" -> Len(cfg.schedules) < MaxSchedules
    [] w.kind \in {"putSchedule", "deleteSchedule"} -> w.id \in DOMAIN cfg.schedules
    [] OTHER -> TRUE

Edited(r) ==
  LET w == r.want IN
  CASE w.kind = "postSchedule" -> [cfg EXCEPT !.schedules = Append(@, r.new)]
    [] w.kind = "putSchedule" -> [cfg EXCEPT !.schedules[w.id] = r.new]
    [] w.kind = "deleteSchedule" -> [cfg EXCEPT !.schedules = RemoveAt(@, w.id)]
    [] w.kind = "putSystemRun" -> [cfg EXCEPT !.settings.run = w.on]
    [] w.kind = "putSettings" -> [cfg EXCEPT !.settings = w.body]
    [] w.kind = "postRestore" -> w.body
    [] w.kind = "putZone" ->
         [cfg EXCEPT !.enabled = IF w.on THEN @ \cup {w.zone} ELSE @ \ {w.zone}]

Update(c) ==
  LET w == req[c].want IN
  /\ At(c) = "update"
  /\ \/ /\ Edits(w)
        /\ cfg' = Edited(req[c])
        /\ Goto(c, IF w.kind = "putZone" THEN "look" ELSE "engine")
        /\ offBy' = IF w.kind \in {"putSystemRun", "putSettings", "postRestore"}
                    THEN w.kind ELSE offBy
        /\ UNCHANGED faults
     \/ /\ ~Edits(w)
        /\ Goto(c, "idle") /\ UNCHANGED <<cfg, offBy, faults>>
     \/ /\ Edits(w) /\ faults < MaxFaults /\ faults' = faults + 1
        /\ Goto(c, "idle") /\ UNCHANGED <<cfg, offBy>>
  /\ UNCHANGED <<starts, run, boards, daemon, late, unsure, asked>>

\* putZone looks at the engine's state before it decides how to call it.
Look(c) ==
  LET w == req[c].want IN
  /\ At(c) = "look"
  /\ req' = [req EXCEPT ![c].at = "engine", ![c].stops = (zone = w.zone /\ ~w.on)]
  /\ UNCHANGED <<cfg, starts, run, boards, daemon, history, bounds>>

\* Slip: the switch only reloads, whichever way it goes.
SwitchReloads(r) ==
  LET w == r.want IN
  CASE w.kind \in {"postSchedule", "putSchedule", "deleteSchedule", "putSettings"} -> Reload
    [] w.kind = "putSystemRun" -> Reload
    [] w.kind = "putZone" -> IF r.stops THEN StopAll ELSE Reload
    [] w.kind \in {"postRestore", "postStop"} -> StopAll
    [] w.kind = "postManual" -> SetManualZone(w.zone, w.on)
    [] w.kind = "postQuickRun" -> QuickRun

EngineCall(r) ==
  LET w == r.want IN
  CASE w.kind \in {"postSchedule", "putSchedule", "deleteSchedule", "putSettings"} -> Reload
    [] w.kind = "putSystemRun" -> IF w.on THEN Reload ELSE StopAll
    [] w.kind = "putZone" -> IF r.stops THEN StopAll ELSE Reload
    [] w.kind \in {"postRestore", "postStop"} -> StopAll
    [] w.kind = "postManual" -> SetManualZone(w.zone, w.on)
    [] w.kind = "postQuickRun" -> QuickRun

NewPort(r) == r.want.kind = "putSettings" /\ r.want.body.port # r.prev.port

\* Slip: a restore leaves the board alone.
AfterEngineOfSettings(r) ==
  IF r.want.kind = "putSettings" /\ r.want.body.board # r.prev.board THEN "open"
  ELSE IF NewPort(r) THEN "listen" ELSE "idle"

AfterEngine(r) ==
  IF \/ r.want.kind = "postRestore"
     \/ r.want.kind = "putSettings" /\ r.want.body.board # r.prev.board
  THEN "open"
  ELSE IF NewPort(r) THEN "listen" ELSE "idle"

Reached == late' = (late \/ phase \in {"off", "closed"}) /\ UNCHANGED <<offBy, unsure>>

CallEngine(c) ==
  /\ At(c) = "engine"
  /\ EngineCall(req[c])
  /\ Goto(c, AfterEngine(req[c]))
  /\ Reached
  /\ UNCHANGED <<cfg, due, driven, current, held, outMu, daemon, bounds>>

-----------------------------------------------------------------------------
(* applyOutput.                                                             *)

WantedBoard(r) ==
  IF r.want.kind = "postRestore" THEN r.want.body.settings.board ELSE r.want.body.board

\* hardware.ForSettings: lines that are held cannot be requested again.  The
\* request ends with a warning if they are, and the port is not looked at.
Free(b) == \A h \in held : Lines[b] \cap Lines[h] = {}

OpenBoard(c) ==
  LET b == WantedBoard(req[c]) IN
  /\ At(c) = "open"
  /\ \/ /\ Free(b)
        /\ held' = held \cup ({b} \cap Exclusive)
        /\ Goto(c, "swap") /\ UNCHANGED unsure
     \/ ~Free(b) /\ Goto(c, "idle") /\ unsure' = {"board", "port"} /\ UNCHANGED held
  /\ UNCHANGED <<cfg, starts, run, driven, current, relay, outMu, daemon, offBy, late, bounds>>

\* Slip: the exchange is not locked.
SwapUnlocked(c) ==
  LET b == WantedBoard(req[c]) IN
  /\ At(c) = "swap"
  /\ outMu' = c
  /\ driven' = b
  /\ relay' = IF zone # 0 THEN relay \cup {b} ELSE relay \ {b}
  /\ req' = [req EXCEPT ![c].at = "close", ![c].wet = current \in relay]
  /\ Reached
  /\ UNCHANGED <<cfg, starts, run, current, held, daemon, bounds>>

\* SwapOutput applies the outputs to the new board.
SwapBoard(c) ==
  LET b == WantedBoard(req[c]) IN
  /\ At(c) = "swap" /\ outMu = Nobody
  /\ outMu' = c
  /\ driven' = b
  /\ relay' = IF zone # 0 THEN relay \cup {b} ELSE relay \ {b}
  /\ req' = [req EXCEPT ![c].at = "close", ![c].wet = current \in relay]
  /\ Reached
  /\ UNCHANGED <<cfg, starts, run, current, held, daemon, bounds>>

\* The old board is switched off, a script only what it has on, and closed.
CloseOld(c) ==
  LET b == WantedBoard(req[c]) IN
  /\ At(c) = "close"
  /\ relay' = IF current \in Exclusive \/ req[c].wet THEN relay \ {current} ELSE relay
  /\ held' = held \ {current}
  /\ current' = b
  /\ outMu' = Nobody
  /\ Goto(c, IF NewPort(req[c]) THEN "listen" ELSE "idle")
  /\ UNCHANGED <<cfg, starts, run, driven, daemon, history, bounds>>

-----------------------------------------------------------------------------
(* The web port.                                                            *)

\* websrv.Swap: nothing to do, the new listener, or an error.
Listen(c) ==
  LET p == req[c].want.body.port IN
  /\ At(c) = "listen"
  /\ \/ (p = port \/ p \notin BusyPorts) /\ port' = p /\ Goto(c, "idle")
     \/ p # port /\ p \in BusyPorts /\ Goto(c, "revert") /\ UNCHANGED port
  /\ UNCHANGED <<cfg, starts, run, boards, phase, looping, history, bounds>>

\* Slip: all of the settings go back.
RevertSettings(c) ==
  /\ At(c) = "revert"
  /\ \/ cfg' = [cfg EXCEPT !.settings = req[c].prev] /\ UNCHANGED <<faults, unsure>>
     \/ faults < MaxFaults /\ faults' = faults + 1 /\ unsure' = unsure \cup {"port"} /\ UNCHANGED cfg
  /\ Goto(c, "idle")
  /\ UNCHANGED <<starts, run, boards, daemon, offBy, late, asked>>

\* The setting, and nothing else, goes back to what the request read first; an
\* error is ignored.
Revert(c) ==
  /\ At(c) = "revert"
  /\ \/ cfg' = [cfg EXCEPT !.settings.port = req[c].prev.port] /\ UNCHANGED <<faults, unsure>>
     \/ faults < MaxFaults /\ faults' = faults + 1 /\ unsure' = unsure \cup {"port"} /\ UNCHANGED cfg
  /\ Goto(c, "idle")
  /\ UNCHANGED <<starts, run, boards, daemon, offBy, late, asked>>

-----------------------------------------------------------------------------
(* The end of the daemon.                                                   *)

Main(from, to) ==
  /\ phase = from /\ phase' = to
  /\ UNCHANGED <<cfg, port, driven, current, outMu, due, history, bounds>>

Signal == Main("up", "stopping") /\ UNCHANGED <<pending, run, held, relay, looping, req>>

\* httpSrv.Shutdown waits for the requests under way, but not for ever.
StopHTTP ==
  Main("stopping", "served") /\ UNCHANGED <<pending, run, held, relay, looping, req>>

\* Slip: the events of the run survive.
ShutdownKeepsEvents == pending' = {} /\ zone' = 0 /\ Latch /\ UNCHANGED <<queue, cycle, blocks>>

Shutdown == pending' = {} /\ Dry /\ Latch

StopEngine == Main("served", "off") /\ Shutdown /\ UNCHANGED <<held, looping, req>>

CloseBoard ==
  /\ Main("off", "closed")
  /\ outMu = Nobody
  /\ relay' = relay \ (Exclusive \cap {current}) /\ held' = held \ {current}
  /\ UNCHANGED <<pending, run, looping, req>>

\* The process takes its goroutines with it.
Exit ==
  /\ Main("closed", "exited")
  /\ looping' = FALSE /\ req' = [c \in Clients |-> [at |-> "gone"]]
  /\ UNCHANGED <<pending, run, held, relay>>

\* The engine's own goroutine sees the signal.
EndLoop ==
  /\ phase \notin {"up", "exited"} /\ looping
  /\ looping' = FALSE
  /\ Shutdown
  /\ UNCHANGED <<cfg, port, phase, driven, current, held, outMu, req, due, history, bounds>>

Init ==
  /\ cfg = FirstConfig
  /\ pending = StartsOf(cfg) /\ due = {}
  /\ zone = 0 /\ queue = {} /\ cycle = "none" /\ blocks = FALSE
  /\ driven = cfg.settings.board /\ current = cfg.settings.board
  /\ held = {current} \cap Exclusive /\ relay = {} /\ outMu = Nobody
  /\ port = cfg.settings.port /\ phase = "up" /\ looping = TRUE
  /\ req = [c \in Clients |-> Idle]
  /\ offBy = "none" /\ late = FALSE /\ unsure = {}
  /\ asked = 0 /\ faults = 0

Next ==
  \/ ComeDue \/ FireStart \/ NextSlot \/ Pause \/ EndCycle \/ ManualEnd
  \/ \E c \in Clients :
       \/ Begin(c) \/ Update(c) \/ Look(c) \/ CallEngine(c)
       \/ OpenBoard(c) \/ SwapBoard(c) \/ CloseOld(c) \/ Listen(c) \/ Revert(c)
  \/ Signal \/ StopHTTP \/ StopEngine \/ CloseBoard \/ Exit \/ EndLoop

Spec == Init /\ [][Next]_vars

-----------------------------------------------------------------------------
(* Properties.                                                              *)

Places == {"idle", "update", "look", "engine", "open", "swap", "close", "listen", "revert",
           "gone"}

TypeOK ==
  /\ cfg \in ConfigSet
  /\ due \subseteq Nat /\ \A s \in pending : s.idx \in Nat \ {0} /\ s.id \in Nat
  /\ zone \in Zones \cup {0} /\ queue \subseteq Zones
  /\ cycle \in {"none", "scheduled", "quick"} /\ blocks \in BOOLEAN
  /\ {driven, current} \cup relay \subseteq Boards /\ held \subseteq Exclusive
  /\ outMu \in Clients \cup {Nobody} /\ port \in Ports
  /\ \A c \in Clients : At(c) \in Places /\ (At(c) \notin {"idle", "gone"} => req[c].want \in Wanted)

\* No request is between its change of the configuration and its engine call.
Settled == \A c \in Clients : At(c) \notin {"look", "engine"}

\* However requests overlap, once each has made its engine call the starts to
\* come are those of the stored configuration: every program that is not due yet
\* is on the list under its present place, and no other is.
EngineFollowsConfig ==
  phase = "up" /\ Settled =>
    {s \in pending : s.id \notin due} = {s \in StartsOf(cfg) : s.id \notin due}

\* Once the scheduler was switched off by its own switch, nothing it started
\* goes on watering, also if it was started between the change of the setting
\* and the call that stops the water.
OffRequestStops ==
  phase = "up" /\ Settled /\ ~cfg.settings.run /\ offBy = "putSystemRun" => cycle # "scheduled"

\* Between two exchanges the engine drives the board that the next exchange, or
\* the end of the daemon, will switch off and close; it is open, and no valve
\* was left open on any other.
BoardInForce ==
  outMu = Nobody /\ phase \notin {"closed", "exited"} =>
    driven = current /\ Open(current) /\ relay \subseteq {current}

\* Settings that are saved or restored one after the other are in force when the
\* request is through, whatever else goes on: also after a port that could not be
\* bound and went back while other settings changed.  Excepted are, for good, the
\* board and the port once two such requests overlapped or a board could not be
\* opened, which is answered with a warning and leaves the port where it was
\* (api.go:558, 585), the port once its way back could not be saved, and a
\* restored port.
SettingsInForce ==
  phase # "exited" /\ ~SettingsUnderWay =>
    /\ "board" \in unsure \/ cfg.settings.board = driven
    /\ "port" \in unsure \/ cfg.settings.port = port

\* The daemon leaves no valve open, whatever was under way when it was told to
\* stop and whichever goroutine stops first, unless a request reaches the engine
\* or the board after main has switched them off.
QuietExitIsDry == phase = "exited" /\ ~late => relay = {}

\* A port that is saved takes effect at once, or the setting goes back to the
\* port in force (README.md:83-86): with no request under way the server listens
\* where the settings say.
PortInForce == (\A c \in Clients : At(c) = "idle") => cfg.settings.port = port

\* "Safety: make sure every valve is off before exiting", main.go:171.
ExitIsDry == phase = "exited" => relay = {}
=============================================================================

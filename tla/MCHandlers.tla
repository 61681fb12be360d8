----------------------------- MODULE MCHandlers -----------------------------
(* Two zones, the first web port, a free one and a busy one; a script, and    *)
(* GPIO boards of which two are the same lines with another polarity.        *)
EXTENDS Handlers

Config(on, board, p, ids) ==
  [settings |-> [run |-> on, board |-> board, port |-> p],
   enabled |-> Zones, schedules |-> ids]

MCFirst == Config(TRUE, "script", 80, <<1, 2>>)

Simple == [kind : {"postSchedule", "postStop", "postQuickRun"}]
Ids    == [kind : {"putSchedule", "deleteSchedule"}, id : 1 .. 2]
Switch == [kind : {"putSystemRun"}, on : BOOLEAN]
OneZone == [kind : {"putZone", "postManual"}, zone : {1}, on : BOOLEAN]

Saved(settings) == [kind : {"putSettings"}, body : settings]
Restored == [kind : {"postRestore"},
             body : {Config(FALSE, "relay", 80, <<9>>)}]

\* Boards and ports change one at a time.
MCSettings ==
  {[run |-> r, board |-> b, port |-> 80] : r \in BOOLEAN, b \in {"script", "gpio"}}
    \cup {[run |-> FALSE, board |-> "script", port |-> p] : p \in {81, 443}}

MCWanted == Simple \cup Ids \cup Switch \cup OneZone \cup Saved(MCSettings) \cup Restored

MCPorts == {80, 81, 443}

MCLines == [script |-> {}, gpio |-> {4, 17}, negative |-> {4, 17}, relay |-> {18, 27}]

\* One client saves the settings, with any port and any board.
MCPortsFirst == Config(TRUE, "gpio", 80, <<1, 2>>)
MCPortsWanted ==
  Saved([run : {TRUE}, board : {"script", "gpio", "negative"}, port : MCPorts])

\* What is left at the end: a manual run.
MCExitWanted == [kind : {"postManual"}, zone : {1}, on : BOOLEAN] \cup [kind : {"postStop"}]
=============================================================================

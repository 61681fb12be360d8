----------------------------- MODULE CyclePlan -----------------------------
(***************************************************************************)
(* The arithmetic of startScheduleLocked (internal/engine/engine.go): how   *)
(* the minutes of each zone become the slots of a run, with cycle & soak.   *)
(* One iteration of the method's loop is described by operators on a plan,  *)
(* the record of the loop's local variables; CycleSoak runs the loop on its *)
(* own for all inputs and Engine runs it inside a pass.                     *)
(*                                                                          *)
(* Time is counted in minutes, the unit of every duration a schedule has.   *)
(* A zone is its 1-based valve number, as in the engine's events.           *)
(***************************************************************************)
EXTENDS Integers, Sequences

MaxZoneMinutes == 255

Never == -1                       \* the zero time.Time: no instant

Least(a, b) == IF a <= b THEN a ELSE b

\* One duration scaled by the seasonal and the weather percentage; Go's integer
\* division is \div here because no operand is negative.
Scaled(d, seasonal, weather) ==
  Least((d * ((seasonal * weather) \div 100) + 50) \div 100, MaxZoneMinutes)

\* What each zone is to receive: a disabled zone nothing, and nothing for a
\* zone the list of durations does not reach (Normalize pads it with 0).
Demand(zones, durations) ==
  [z \in DOMAIN zones |->
     IF zones[z].enabled /\ z \in DOMAIN durations THEN durations[z] ELSE 0]

-----------------------------------------------------------------------------
(* The events of an expanded run.                                           *)

Slot(z, start, end) ==
  [at |-> start, kind |-> "on", zone |-> z, endAt |-> end, done |-> FALSE]
Pause(t)  == [at |-> t, kind |-> "pause", zone |-> 0, endAt |-> Never, done |-> FALSE]
AllOff(t) == [at |-> t, kind |-> "off",   zone |-> 0, endAt |-> Never, done |-> FALSE]

\* The events a run on the zones Z may have.
EventsOf(Z) ==
  {e \in [at : Nat, kind : {"on", "pause", "off"}, zone : Z \cup {0},
          endAt : Nat \cup {Never}, done : BOOLEAN] : e.kind = "on" <=> e.zone # 0}

-----------------------------------------------------------------------------
(* The loop.  p.at is the end of the last slot, p.lastEnd[z] the end of the *)
(* last slot of zone z.                                                     *)

PlansOf(Z) ==
  [remaining : [Z -> Nat], lastEnd : [Z -> Nat \cup {Never}], at : Nat, cycle : Nat,
   soak : Nat]

NewPlan(demand, cycle, soak, start) ==
  [remaining |-> demand,
   lastEnd   |-> [z \in DOMAIN demand |-> Never],
   at        |-> start,
   cycle     |-> cycle,
   soak      |-> soak]

Thirsty(p) == {z \in DOMAIN p.remaining : p.remaining[z] > 0}

\* A slip for the runs to notice: the soak of the zone is forgotten.
EarliestUnsoaked(p, z) == p.at

\* The first instant the slot of zone z may begin.
Earliest(p, z) ==
  IF p.soak > 0 /\ p.lastEnd[z] # Never /\ p.at < p.lastEnd[z] + p.soak
  THEN p.lastEnd[z] + p.soak
  ELSE p.at

\* Slips: the first thirsty zone of the list whenever it can start; the last of
\* the zones that can start equally early.
PickedByNumber(p, z, k) == z <= k
PickedLastOfTies(p, z, k) ==
  \/ Earliest(p, z) < Earliest(p, k)
  \/ Earliest(p, z) = Earliest(p, k) /\ z >= k

\* k would be picked after z: it can only start later, or as early but it is
\* further down the list.
PickedBefore(p, z, k) ==
  \/ Earliest(p, z) < Earliest(p, k)
  \/ Earliest(p, z) = Earliest(p, k) /\ z <= k

Best(p) == CHOOSE z \in Thirsty(p) : \A k \in Thirsty(p) : PickedBefore(p, z, k)

\* A slip: the cycle limit compared the wrong way round.
ChunkUnlimited(p, z) == IF p.cycle > p.remaining[z] THEN p.cycle ELSE p.remaining[z]

Chunk(p, z) == IF p.cycle > 0 THEN Least(p.remaining[z], p.cycle) ELSE p.remaining[z]

SlotStart(p) == Earliest(p, Best(p))
SlotEnd(p)   == SlotStart(p) + Chunk(p, Best(p))

\* A slip: the run goes into the gap with the last valve still open.
SlotEventsNoPause(p) == <<Slot(Best(p), SlotStart(p), SlotEnd(p))>>

\* The events one iteration appends: a pause first where every thirsty zone
\* still soaks.
SlotEvents(p) ==
  (IF p.at < SlotStart(p) THEN <<Pause(p.at)>> ELSE << >>)
    \o <<Slot(Best(p), SlotStart(p), SlotEnd(p))>>

\* Slips: a zone that got one cycle counts as done; the loop
\* carries on from where this slot began.
AfterSlotRoundedUp(p) ==
  [p EXCEPT !.remaining[Best(p)] = IF p.cycle > 0 THEN 0 ELSE @ - Chunk(p, Best(p)),
            !.lastEnd[Best(p)]   = SlotEnd(p),
            !.at                 = SlotEnd(p)]
AfterSlotFromStart(p) ==
  [p EXCEPT !.remaining[Best(p)] = @ - Chunk(p, Best(p)),
            !.lastEnd[Best(p)]   = SlotEnd(p),
            !.at                 = SlotStart(p)]

AfterSlot(p) ==
  [p EXCEPT !.remaining[Best(p)] = @ - Chunk(p, Best(p)),
            !.lastEnd[Best(p)]   = SlotEnd(p),
            !.at                 = SlotEnd(p)]
=============================================================================

-------------------------- MODULE CycleSoakProofs --------------------------
(* What holds of the expansion of a schedule for every number of zones,     *)
(* every demand and every setting of cycle & soak.                          *)
EXTENDS CycleSoak, CyclePlanProofs

-----------------------------------------------------------------------------
\* Zones are what a slot may be of.
LEMMA ZonesAreSlots == Zones \subseteq Nat \ {0}
BY Inputs DEF Zones

\* The new slot is the last event, what was there stays, and nothing else of
\* what is appended is a slot.
LEMMA Appended ==
  ASSUME TypeOK, AppendSlot
  PROVE  /\ events' \in Seq(EventsOf(Zones))
         /\ Len(events') \in Slots'
         /\ Len(events) < Len(events')
         /\ events'[Len(events')] = Slot(Best(plan), SlotStart(plan), SlotEnd(plan))
         /\ \A i \in 1 .. Len(events) : events'[i] = events[i]
         /\ \A i \in Slots' : i = Len(events') \/ i \in Slots
<1> DEFINE slot == Slot(Best(plan), SlotStart(plan), SlotEnd(plan))
           pause == Pause(plan.at)
           new  == SlotEvents(plan)
<1>1. /\ events \in Seq(EventsOf(Zones)) /\ new \in Seq(EventsOf(Zones))
      /\ new = <<slot>> \/ new = <<pause, slot>>
  BY ZonesAreSlots, SlotEventsFacts DEF TypeOK, AppendSlot
<1>2. slot.kind = "on" /\ pause.kind = "pause"
  BY DEF Slot, Pause
<1> HIDE DEF slot, pause
<1>3. /\ Len(new) \in {1, 2} /\ new[Len(new)] = slot
      /\ \A j \in 1 .. Len(new) : j # Len(new) => new[j].kind # "on"
  <2>1. CASE new = <<slot>>
    BY <2>1
  <2>2. CASE new = <<pause, slot>>
    <3>1. Len(new) = 2 /\ new[1] = pause /\ new[2] = slot
      BY <2>2
    <3>2. pause.kind # "on"
      BY <1>2
    <3>3. QED
      BY <3>1, <3>2
  <2>3. QED
    BY <1>1, <2>1, <2>2
<1>4. events' = events \o new
  BY DEF AppendSlot
<1> HIDE DEF new
<1>5. /\ events' \in Seq(EventsOf(Zones)) /\ Len(events') = Len(events) + Len(new)
      /\ \A i \in 1 .. Len(events') :
           events'[i] = IF i <= Len(events) THEN events[i] ELSE new[i - Len(events)]
  BY <1>1, <1>4, ConcatProperties
<1>6. Len(events) \in Nat /\ DOMAIN events = 1 .. Len(events)
      /\ DOMAIN events' = 1 .. Len(events')
  BY <1>1, <1>5
<1>7. events'[Len(events')] = slot
  <2>1. /\ Len(events') \in 1 .. Len(events') /\ ~(Len(events') <= Len(events))
        /\ Len(events') - Len(events) = Len(new)
    <3>1. Len(events) \in Nat /\ Len(new) \in {1, 2} /\ Len(events') = Len(events) + Len(new)
      BY <1>3, <1>5, <1>6
    <3>2. ASSUME NEW m \in Nat, NEW n \in {1, 2}
          PROVE  m + n \in 1 .. m + n /\ ~(m + n <= m) /\ (m + n) - m = n
      OBVIOUS
    <3>3. QED
      BY <3>1, <3>2
  <2>2. events'[Len(events')] = new[Len(new)]
    BY <1>5, <2>1
  <2>3. QED
    BY <1>3, <2>2
<1>8. \A i \in 1 .. Len(events) : events'[i] = events[i]
  BY <1>3, <1>5, <1>6
<1>9. ASSUME NEW i \in Slots', i # Len(events')
      PROVE  i \in Slots
  <2>1. i \in 1 .. Len(events') /\ events'[i].kind = "on"
    BY <1>6 DEF Slots
  <2>2. i <= Len(events)
    <3> SUFFICES ASSUME ~(i <= Len(events)) PROVE FALSE
      OBVIOUS
    <3>1. i - Len(events) \in 1 .. Len(new) /\ i - Len(events) # Len(new)
      BY <1>3, <1>5, <1>6, <1>9, <2>1
    <3>2. events'[i] = new[i - Len(events)]
      BY <1>5, <2>1
    <3>3. QED
      BY <1>3, <2>1, <3>1, <3>2
  <2>3. QED
    BY <1>6, <1>8, <2>1, <2>2 DEF Slots
<1>10. Len(events') \in Slots' /\ Len(events) < Len(events')
  BY <1>2, <1>3, <1>5, <1>6, <1>7 DEF Slots
<1>11. QED
  BY <1>5, <1>7, <1>8, <1>9, <1>10 DEF slot

-----------------------------------------------------------------------------
(* The inductive invariant.  What the loop keeps in two local variables is  *)
(* what makes the slots right: "at" is past every slot so far, and          *)
(* lastEnd[z] past every slot of zone z.                                    *)

SlotsAreBehind ==
  \A i \in Slots :
    /\ events[i].zone \in Zones /\ events[i].at \in Nat /\ events[i].endAt \in Nat
    /\ events[i].at < events[i].endAt
    /\ events[i].endAt <= plan.at
    /\ plan.lastEnd[events[i].zone] # Never
    /\ events[i].endAt <= plan.lastEnd[events[i].zone]

IInv == TypeOK /\ SlotsAreBehind /\ Conserved /\ CycleKept /\ Sequential /\ SoakKept

\* Nothing is expanded yet.
LEMMA InitIInv == Init => IInv
<1> SUFFICES ASSUME Init PROVE IInv
  OBVIOUS
<1>1. want \in [Zones -> Nat] /\ events = << >> /\ given = [z \in Zones |-> 0]
  BY Inputs DEF Init
<1>2. PICK cycle \in CycleLimits, soak \in Soaks : plan = NewPlan(want, cycle, soak, StartAt)
  BY DEF Init
<1>3. cycle \in Nat /\ soak \in Nat /\ StartAt \in Nat
  BY Inputs
<1>4. plan \in PlansOf(Zones) /\ plan.remaining = want
  BY <1>1, <1>2, <1>3 DEF NewPlan, PlansOf
<1>5. TypeOK
  <2>1. given \in [Zones -> Nat] /\ events \in Seq(EventsOf(Zones)) /\ finished = FALSE
    BY <1>1 DEF Init
  <2>2. QED
    BY <1>1, <1>4, <2>1 DEF TypeOK
<1>6. Slots = {}
  BY <1>1 DEF Slots
<1>7. Conserved
  BY <1>1, <1>4 DEF Conserved
<1>8. QED
  BY <1>5, <1>6, <1>7 DEF IInv, SlotsAreBehind, CycleKept, Sequential, SoakKept

\* The new slot is behind the loop's variables as all others are, gives its zone
\* what the loop takes off its rest, and follows the others as the code promises.
LEMMA AppendSlotIInv == IInv /\ AppendSlot => IInv'
<1> SUFFICES ASSUME IInv, AppendSlot PROVE IInv'
  OBVIOUS
<1> DEFINE best == Best(plan)
           chunk == Chunk(plan, best)
           start == SlotStart(plan)
           end == SlotEnd(plan)
           last == Len(events')
<1>1. /\ best \in Zones /\ chunk \in 1 .. plan.remaining[best]
      /\ plan.cycle > 0 => chunk <= plan.cycle
      /\ start \in Nat /\ end \in Nat /\ plan.at <= start /\ start < end /\ end = start + chunk
      /\ plan.soak > 0 /\ plan.lastEnd[best] # Never => plan.lastEnd[best] + plan.soak <= start
  BY SlotFacts, ZonesAreSlots DEF IInv, TypeOK, AppendSlot
<1>2. /\ plan' \in PlansOf(Zones)
      /\ plan'.remaining = [plan.remaining EXCEPT ![best] = @ - chunk]
      /\ plan'.lastEnd = [plan.lastEnd EXCEPT ![best] = end]
      /\ plan'.at = end /\ plan'.cycle = plan.cycle /\ plan'.soak = plan.soak
  BY AfterSlotFacts, ZonesAreSlots DEF IInv, TypeOK, AppendSlot
<1>3. /\ plan.remaining \in [Zones -> Nat] /\ plan.lastEnd \in [Zones -> Nat \cup {Never}]
      /\ plan.at \in Nat /\ plan.cycle \in Nat /\ plan.soak \in Nat
  BY DEF IInv, TypeOK, PlansOf
<1>4. /\ events' \in Seq(EventsOf(Zones)) /\ last \in Slots'
      /\ \A i \in Slots' : i = last \/ i \in Slots
      /\ \A i \in Slots : events'[i] = events[i] /\ i < last /\ i \in Nat
      /\ last \in Nat
  <2>1. /\ events' \in Seq(EventsOf(Zones)) /\ last \in Slots' /\ Len(events) < last
        /\ \A i \in Slots' : i = last \/ i \in Slots
        /\ \A i \in 1 .. Len(events) : events'[i] = events[i]
    BY Appended DEF IInv
  <2>2. \A i \in Slots : i \in 1 .. Len(events)
    BY DEF IInv, TypeOK, Slots
  <2>3. last \in Nat /\ Len(events) \in Nat
    BY <2>1 DEF IInv, TypeOK
  <2>4. QED
    BY <2>1, <2>2, <2>3
<1>5. /\ events'[last].zone = best /\ events'[last].at = start /\ events'[last].endAt = end
  BY Appended DEF IInv, Slot
<1>6. given' = [given EXCEPT ![best] = @ + (end - start)] /\ want' = want
  BY <1>5 DEF AppendSlot
<1> HIDE DEF best, chunk, start, end, last
<1>7. given' = [given EXCEPT ![best] = @ + chunk] /\ given \in [Zones -> Nat]
  BY <1>1, <1>6 DEF IInv, TypeOK
<1>8. TypeOK'
  <2>1. given' \in [Zones -> Nat]
    BY <1>1, <1>3, <1>7
  <2>2. want' \in [Zones -> Nat] /\ finished' \in BOOLEAN
    BY DEF IInv, TypeOK, AppendSlot
  <2>3. QED
    BY <1>2, <1>4, <2>1, <2>2 DEF TypeOK
<1>9. Conserved'
  <2> SUFFICES ASSUME NEW z \in Zones
               PROVE  given'[z] + plan'.remaining[z] = want'[z]
    BY DEF Conserved
  <2>1. given[z] + plan.remaining[z] = want[z] /\ given[z] \in Nat /\ plan.remaining[z] \in Nat
    BY <1>3, <1>7 DEF IInv, Conserved
  <2>2. QED
    BY <1>1, <1>2, <1>3, <1>6, <1>7, <2>1
<1>10. ASSUME NEW i \in Slots
       PROVE  /\ events[i].zone \in Zones /\ events[i].at \in Nat /\ events[i].endAt \in Nat
              /\ events[i].at < events[i].endAt /\ events[i].endAt <= plan.at
              /\ plan.lastEnd[events[i].zone] # Never
              /\ events[i].endAt <= plan.lastEnd[events[i].zone]
              /\ plan.lastEnd[events[i].zone] \in Nat
  BY <1>3, <1>10 DEF IInv, SlotsAreBehind
<1>11. SlotsAreBehind'
  <2> SUFFICES ASSUME NEW i \in Slots'
               PROVE  /\ events'[i].zone \in Zones /\ events'[i].at \in Nat
                      /\ events'[i].endAt \in Nat
                      /\ events'[i].at < events'[i].endAt /\ events'[i].endAt <= plan'.at
                      /\ plan'.lastEnd[events'[i].zone] # Never
                      /\ events'[i].endAt <= plan'.lastEnd[events'[i].zone]
    BY DEF SlotsAreBehind
  <2>1. CASE i = last
    BY <1>1, <1>2, <1>3, <1>5, <2>1 DEF Never
  <2>2. CASE i \in Slots
    <3>1. events'[i] = events[i]
      BY <1>4, <2>2
    <3> DEFINE z == events[i].zone
    <3>2. plan'.lastEnd[z] = IF z = best THEN end ELSE plan.lastEnd[z]
      BY <1>2, <1>3, <1>10, <2>2
    <3>3. /\ z \in Zones /\ events[i].at \in Nat /\ events[i].endAt \in Nat
          /\ events[i].at < events[i].endAt /\ events[i].endAt <= plan.at
          /\ plan.lastEnd[z] # Never /\ events[i].endAt <= plan.lastEnd[z]
      BY <1>10, <2>2
    <3>4. events[i].endAt <= end /\ end # Never
      BY <1>1, <1>3, <3>3 DEF Never
    <3>5. plan'.lastEnd[z] # Never /\ events[i].endAt <= plan'.lastEnd[z]
      BY <3>2, <3>3, <3>4
    <3>6. QED
      BY <1>2, <3>1, <3>3, <3>4, <3>5
  <2>3. QED
    BY <1>4, <2>1, <2>2
<1>12. CycleKept'
  <2> SUFFICES ASSUME plan'.cycle > 0, NEW i \in Slots'
               PROVE  events'[i].endAt - events'[i].at <= plan'.cycle
    BY DEF CycleKept
  <2>1. CASE i = last
    BY <1>1, <1>2, <1>3, <1>5, <2>1
  <2>2. CASE i \in Slots
    BY <1>2, <1>4, <2>2 DEF IInv, CycleKept
  <2>3. QED
    BY <1>4, <2>1, <2>2
<1>13. Sequential'
  <2> SUFFICES ASSUME NEW i \in Slots', NEW j \in Slots', i < j
               PROVE  /\ events'[i].at < events'[i].endAt
                      /\ events'[i].endAt <= events'[j].at
    BY DEF Sequential
  <2>1. i \in Slots
    <3>1. i # last
      BY <1>4
    <3>2. QED
      BY <1>4, <3>1
  <2>2. CASE j = last
    BY <1>1, <1>3, <1>4, <1>5, <1>10, <2>1, <2>2
  <2>3. CASE j \in Slots
    BY <1>4, <2>1, <2>3 DEF IInv, Sequential
  <2>4. QED
    BY <1>4, <2>2, <2>3
<1>14. SoakKept'
  <2> SUFFICES ASSUME NEW i \in Slots', NEW j \in Slots', i < j,
                      events'[i].zone = events'[j].zone
               PROVE  events'[i].endAt + plan'.soak <= events'[j].at
    BY DEF SoakKept
  <2>1. i \in Slots
    <3>1. i # last
      BY <1>4
    <3>2. QED
      BY <1>4, <3>1
  <2>2. CASE j = last
    <3>1. /\ events'[i].endAt = events[i].endAt /\ events[i].zone = best
          /\ events'[j].at = start
      BY <1>4, <1>5, <2>1, <2>2
    <3>2. /\ events[i].endAt \in Nat /\ events[i].endAt <= plan.at
          /\ plan.lastEnd[best] \in Nat /\ plan.lastEnd[best] # Never
          /\ events[i].endAt <= plan.lastEnd[best]
      BY <1>10, <2>1, <3>1
    <3>3. QED
      BY <1>1, <1>2, <1>3, <3>1, <3>2
  <2>3. CASE j \in Slots
    BY <1>2, <1>4, <2>1, <2>3 DEF IInv, SoakKept
  <2>4. QED
    BY <1>4, <2>2, <2>3
<1>15. QED
  BY <1>8, <1>9, <1>11, <1>12, <1>13, <1>14 DEF IInv

\* The closing all-off is no slot.
LEMMA CloseIInv == IInv /\ Close => IInv'
<1> SUFFICES ASSUME IInv, Close PROVE IInv'
  OBVIOUS
<1>1. plan' = plan /\ want' = want /\ given' = given /\ finished' = TRUE
  BY DEF Close
<1>2. AllOff(plan.at) \in EventsOf(Zones) /\ AllOff(plan.at).kind # "on"
  BY DEF AllOff, EventsOf, IInv, TypeOK, PlansOf
<1>3. /\ events' = Append(events, AllOff(plan.at)) /\ events \in Seq(EventsOf(Zones))
  BY DEF Close, IInv, TypeOK
<1>4. /\ events' \in Seq(EventsOf(Zones)) /\ Len(events') = Len(events) + 1
      /\ \A i \in 1 .. Len(events) : events'[i] = events[i]
      /\ events'[Len(events) + 1] = AllOff(plan.at)
  BY <1>2, <1>3, AppendProperties
<1>5. Slots' = Slots /\ \A i \in Slots : events'[i] = events[i]
  BY <1>2, <1>3, <1>4 DEF Slots
<1>6. TypeOK'
  BY <1>1, <1>4 DEF IInv, TypeOK
<1>7. SlotsAreBehind' /\ Conserved' /\ CycleKept' /\ Sequential' /\ SoakKept'
  BY <1>1, <1>5 DEF IInv, SlotsAreBehind, Conserved, CycleKept, Sequential, SoakKept
<1>8. QED
  BY <1>6, <1>7 DEF IInv

\* The inductive invariant holds.
LEMMA IInvHolds == Spec => []IInv
<1>1. IInv /\ [Next]_vars => IInv'
  <2> SUFFICES ASSUME IInv, UNCHANGED vars PROVE IInv'
    BY AppendSlotIInv, CloseIInv DEF Next
  <2>1. QED
    BY DEF vars, IInv, TypeOK, SlotsAreBehind, Conserved, CycleKept, Sequential, SoakKept,
           Slots
<1>2. QED
  BY <1>1, InitIInv, PTL DEF Spec

-----------------------------------------------------------------------------
\* Splitting any demand into cycles of any length neither loses nor invents a
\* minute of a zone's runtime (chunk and remaining of startScheduleLocked).
THEOREM MinutesConserved == Spec => []Conserved
BY IInvHolds, PTL DEF IInv

\* The slots of a run never overlap, so there is never more than one valve to
\* open: what the sequential run of startScheduleLocked rests on.
THEOREM SlotsSequential == Spec => []Sequential
BY IInvHolds, PTL DEF IInv

\* No zone is watered again before it has soaked, for every cycle limit, soak
\* and number of zones.
THEOREM CyclesSoak == Spec => []SoakKept
<1>1. IInv => SoakKept
  BY DEF IInv
<1>2. QED
  BY <1>1, IInvHolds, PTL

-----------------------------------------------------------------------------
\* In every state of an expansion each variable has its type.
THEOREM TypeCorrect == Spec => []TypeOK
<1>1. IInv => TypeOK
  BY DEF IInv
<1>2. QED
  BY <1>1, IInvHolds, PTL

\* No zone is watered for longer than cycleMaxMinutes at a time.
THEOREM CyclesKept == Spec => []CycleKept
<1>1. IInv => CycleKept
  BY DEF IInv
<1>2. QED
  BY <1>1, IInvHolds, PTL

-----------------------------------------------------------------------------
(* Gaps and pauses.                                                          *)

\* Where an iteration puts its events: a slot, or a pause and a slot.
LEMMA AppendedEvents ==
  ASSUME TypeOK, AppendSlot
  PROVE  LET n == Len(events)
             slot == Slot(Best(plan), SlotStart(plan), SlotEnd(plan))
         IN  /\ n \in Nat /\ DOMAIN events = 1 .. n /\ DOMAIN events' = 1 .. Len(events')
             /\ \A i \in 1 .. n : events'[i] = events[i]
             /\ \/ /\ SlotStart(plan) = plan.at
                   /\ Len(events') = n + 1 /\ events'[n + 1] = slot
                \/ /\ plan.at < SlotStart(plan)
                   /\ Len(events') = n + 2
                   /\ events'[n + 1] = Pause(plan.at) /\ events'[n + 2] = slot
<1> DEFINE n == Len(events)
           slot == Slot(Best(plan), SlotStart(plan), SlotEnd(plan))
           new == SlotEvents(plan)
<1>1. /\ events \in Seq(EventsOf(Zones)) /\ new \in Seq(EventsOf(Zones))
      /\ \/ SlotStart(plan) = plan.at /\ new = <<slot>>
         \/ plan.at < SlotStart(plan) /\ new = <<Pause(plan.at), slot>>
  BY ZonesAreSlots, SlotEventsFacts DEF TypeOK, AppendSlot
<1>2. events' = events \o new
  BY DEF AppendSlot
<1> HIDE DEF slot
<1>3. \/ SlotStart(plan) = plan.at /\ Len(new) = 1 /\ new[1] = slot
      \/ plan.at < SlotStart(plan) /\ Len(new) = 2 /\ new[1] = Pause(plan.at) /\ new[2] = slot
  BY <1>1
<1> HIDE DEF new
<1>4. /\ events' \in Seq(EventsOf(Zones)) /\ Len(events') = n + Len(new)
      /\ \A i \in 1 .. Len(events') : events'[i] = IF i <= n THEN events[i] ELSE new[i - n]
      /\ n \in Nat
  BY <1>1, <1>2, ConcatProperties
<1>5. DOMAIN events = 1 .. n /\ DOMAIN events' = 1 .. Len(events')
  BY <1>1, <1>4
<1> HIDE DEF n
<1>6. \A i \in 1 .. n : events'[i] = events[i]
  BY <1>3, <1>4
<1>7. CASE SlotStart(plan) = plan.at /\ Len(new) = 1 /\ new[1] = slot
  <2>1. n + 1 \in 1 .. n + 1 /\ ~(n + 1 <= n) /\ (n + 1) - n = 1
    BY <1>4
  <2>2. events'[n + 1] = slot
    BY <1>4, <1>7, <2>1
  <2>3. QED
    BY <1>4, <1>5, <1>6, <1>7, <2>2 DEF n, slot
<1>8. CASE /\ plan.at < SlotStart(plan) /\ Len(new) = 2
           /\ new[1] = Pause(plan.at) /\ new[2] = slot
  <2>1. /\ n + 1 \in 1 .. n + 2 /\ ~(n + 1 <= n) /\ (n + 1) - n = 1
        /\ n + 2 \in 1 .. n + 2 /\ ~(n + 2 <= n) /\ (n + 2) - n = 2
    BY <1>4
  <2>2. events'[n + 1] = Pause(plan.at) /\ events'[n + 2] = slot
    BY <1>4, <1>8, <2>1
  <2>3. QED
    BY <1>4, <1>5, <1>6, <1>8, <2>2 DEF n, slot
<1>9. QED
  BY <1>3, <1>7, <1>8

\* The closing all-off comes after everything else.
LEMMA ClosedEvents ==
  ASSUME TypeOK, Close
  PROVE  LET n == Len(events)
         IN  /\ n \in Nat /\ DOMAIN events = 1 .. n /\ DOMAIN events' = 1 .. n + 1
             /\ Len(events') = n + 1
             /\ \A i \in 1 .. n : events'[i] = events[i]
             /\ events'[n + 1] = AllOff(plan.at)
<1>1. AllOff(plan.at) \in EventsOf(Zones)
  BY DEF AllOff, EventsOf, TypeOK, PlansOf
<1>2. events' = Append(events, AllOff(plan.at)) /\ events \in Seq(EventsOf(Zones))
  BY DEF Close, TypeOK
<1>3. QED
  BY <1>1, <1>2, AppendProperties

\* As long as the loop goes on its last event is a slot that ends where it is.
GInv ==
  /\ GapsArePauses
  /\ events # << >> /\ ~finished =>
       events[Len(events)].kind = "on" /\ events[Len(events)].endAt = plan.at
  /\ finished => Thirsty(plan) = {}

\* An iteration leaves no gap without a pause.
LEMMA AppendSlotGInv == IInv /\ GInv /\ AppendSlot => GInv'
<1> SUFFICES ASSUME IInv, GInv, AppendSlot PROVE GInv'
  OBVIOUS
<1> DEFINE n == Len(events)
           slot == Slot(Best(plan), SlotStart(plan), SlotEnd(plan))
<1>1. ~finished /\ finished' = finished
  BY DEF GInv, AppendSlot
<1>2. /\ n \in Nat /\ DOMAIN events = 1 .. n /\ DOMAIN events' = 1 .. Len(events')
      /\ \A i \in 1 .. n : events'[i] = events[i]
      /\ \/ SlotStart(plan) = plan.at /\ Len(events') = n + 1 /\ events'[n + 1] = slot
         \/ /\ plan.at < SlotStart(plan) /\ Len(events') = n + 2
            /\ events'[n + 1] = Pause(plan.at) /\ events'[n + 2] = slot
  BY AppendedEvents DEF IInv
<1>3. /\ slot.kind = "on" /\ slot.at = SlotStart(plan) /\ slot.endAt = SlotEnd(plan)
      /\ Pause(plan.at).kind = "pause" /\ Pause(plan.at).at = plan.at
  BY DEF Slot, Pause
<1>4. n # 0 => events[n].kind = "on" /\ events[n].endAt = plan.at
  <2>1. events = << >> => n = 0
    OBVIOUS
  <2>2. QED
    BY <1>1, <2>1 DEF GInv
<1>5. plan'.at = SlotEnd(plan)
  BY AfterSlotFacts, ZonesAreSlots DEF IInv, TypeOK, AppendSlot
<1> HIDE DEF slot, n
<1> DEFINE last == Len(events')
<1>6. /\ n \in Nat /\ last \in {n + 1, n + 2} /\ last \in Nat /\ events'[last] = slot
      /\ \A i \in 1 .. last : i <= n \/ i = last \/ events'[i] = Pause(plan.at)
  <2>1. n \in Nat
    BY <1>2
  <2>2. CASE last = n + 1 /\ events'[n + 1] = slot
    <3>1. \A i \in 1 .. n + 1 : i <= n \/ i = n + 1
      BY <2>1
    <3>2. QED
      BY <2>1, <2>2, <3>1
  <2>3. CASE last = n + 2 /\ events'[n + 1] = Pause(plan.at) /\ events'[n + 2] = slot
    <3>1. \A i \in 1 .. n + 2 : i <= n \/ i = n + 1 \/ i = n + 2
      BY <2>1
    <3>2. QED
      BY <2>1, <2>3, <3>1
  <2>4. QED
    BY <1>2, <2>2, <2>3
<1>7. GapsArePauses'
  <2> SUFFICES ASSUME NEW i \in Slots', i < Len(events')
               PROVE  \/ /\ events'[i + 1].at = events'[i].endAt
                         /\ events'[i + 1].kind \in {"on", "off"}
                      \/ /\ events'[i + 1].at = events'[i].endAt
                         /\ events'[i + 1].kind = "pause"
                         /\ i + 2 \in Slots' /\ events'[i + 2].at > events'[i].endAt
    BY DEF GapsArePauses
  <2>1. i \in 1 .. last /\ i # last /\ events'[i].kind = "on"
    <3>1. i \in 1 .. last /\ events'[i].kind = "on"
      BY <1>2 DEF Slots
    <3>2. i # last
      BY <1>6, <3>1
    <3>3. QED
      BY <3>1, <3>2
  <2>2. i <= n
    <3>1. events'[i] # Pause(plan.at)
      BY <1>3, <2>1
    <3>2. QED
      BY <1>6, <2>1, <3>1
  <2>3. i \in 1 .. n /\ events'[i] = events[i] /\ i \in Slots
    BY <1>2, <2>1, <2>2 DEF Slots
  <2>4. CASE i = n
    <3>1. events'[i].endAt = plan.at
      BY <1>4, <2>3, <2>4
    <3>2. CASE SlotStart(plan) = plan.at /\ Len(events') = n + 1 /\ events'[n + 1] = slot
      BY <1>3, <2>4, <3>1, <3>2
    <3>3. CASE /\ plan.at < SlotStart(plan) /\ Len(events') = n + 2
               /\ events'[n + 1] = Pause(plan.at) /\ events'[n + 2] = slot
      <4>1. n + 2 \in Slots'
        BY <1>2, <1>3, <3>3 DEF Slots
      <4>2. plan.at \in Nat /\ SlotStart(plan) \in Nat
        BY SlotFacts, ZonesAreSlots DEF IInv, TypeOK, AppendSlot, PlansOf
      <4>3. QED
        BY <1>3, <2>4, <3>1, <3>3, <4>1, <4>2
    <3>4. QED
      BY <1>2, <3>2, <3>3
  <2>5. CASE i # n
    <3>1. i < n /\ i + 1 \in 1 .. n
      BY <1>6, <2>3, <2>5
    <3>2. \/ events[i + 1].at = events[i].endAt /\ events[i + 1].kind \in {"on", "off"}
          \/ /\ events[i + 1].at = events[i].endAt /\ events[i + 1].kind = "pause"
             /\ i + 2 \in Slots /\ events[i + 2].at > events[i].endAt
      BY <2>3, <3>1 DEF GInv, GapsArePauses, n
    <3>3. \A k \in Slots : k \in Slots' /\ events'[k] = events[k]
      <4>1. \A k \in 1 .. n : k \in 1 .. last
        BY <1>6
      <4>2. QED
        BY <1>2, <4>1 DEF Slots
    <3>4. events'[i + 1] = events[i + 1]
      BY <1>2, <3>1
    <3>5. QED
      BY <2>3, <3>2, <3>3, <3>4
  <2>6. QED
    BY <2>4, <2>5
<1>8. QED
  BY <1>1, <1>3, <1>5, <1>6, <1>7 DEF GInv

\* The all-off follows the last slot at once.
LEMMA CloseGInv == IInv /\ GInv /\ Close => GInv'
<1> SUFFICES ASSUME IInv, GInv, Close PROVE GInv'
  OBVIOUS
<1> DEFINE n == Len(events)
<1>1. ~finished /\ finished' = TRUE /\ Thirsty(plan) = {} /\ plan' = plan
  BY DEF Close
<1>2. /\ n \in Nat /\ DOMAIN events = 1 .. n /\ DOMAIN events' = 1 .. n + 1
      /\ Len(events') = n + 1 /\ \A i \in 1 .. n : events'[i] = events[i]
      /\ events'[n + 1] = AllOff(plan.at)
  BY ClosedEvents DEF IInv
<1>3. AllOff(plan.at).kind = "off" /\ AllOff(plan.at).at = plan.at
  BY DEF AllOff
<1>4. n # 0 => events[n].endAt = plan.at
  <2>1. events = << >> => n = 0
    OBVIOUS
  <2>2. QED
    BY <1>1, <2>1 DEF GInv
<1> HIDE DEF n
<1>5. GapsArePauses'
  <2> SUFFICES ASSUME NEW i \in Slots', i < Len(events')
               PROVE  \/ /\ events'[i + 1].at = events'[i].endAt
                         /\ events'[i + 1].kind \in {"on", "off"}
                      \/ /\ events'[i + 1].at = events'[i].endAt
                         /\ events'[i + 1].kind = "pause"
                         /\ i + 2 \in Slots' /\ events'[i + 2].at > events'[i].endAt
    BY DEF GapsArePauses
  <2>1. i \in 1 .. n /\ events'[i] = events[i] /\ i \in Slots
    BY <1>2 DEF Slots
  <2>2. CASE i = n
    BY <1>2, <1>3, <1>4, <2>1, <2>2
  <2>3. CASE i # n
    <3>1. i < n /\ i + 1 \in 1 .. n
      BY <1>2, <2>1, <2>3
    <3>2. \/ events[i + 1].at = events[i].endAt /\ events[i + 1].kind \in {"on", "off"}
          \/ /\ events[i + 1].at = events[i].endAt /\ events[i + 1].kind = "pause"
             /\ i + 2 \in Slots /\ events[i + 2].at > events[i].endAt
      BY <2>1, <3>1 DEF GInv, GapsArePauses, n
    <3>3. \A k \in Slots : k \in Slots' /\ events'[k] = events[k]
      BY <1>2 DEF Slots
    <3>4. QED
      BY <1>2, <2>1, <3>1, <3>2, <3>3
  <2>4. QED
    BY <2>2, <2>3
<1>6. QED
  BY <1>1, <1>5 DEF GInv

\* Between two slots of a run there is either nothing or a pause with the valves
\* closed, whatever the demand: the run never goes into a gap with a valve open.
THEOREM NoOpenGaps == Spec => []GapsArePauses
<1>1. Init => GInv
  BY DEF Init, GInv, GapsArePauses, Slots
<1>2. IInv /\ GInv /\ [Next]_vars => GInv'
  <2> SUFFICES ASSUME GInv, UNCHANGED vars PROVE GInv'
    BY AppendSlotGInv, CloseGInv DEF Next
  <2>1. QED
    BY DEF vars, GInv, GapsArePauses, Slots, Thirsty
<1>3. GInv => GapsArePauses
  BY DEF GInv
<1>4. QED
  BY <1>1, <1>2, <1>3, IInvHolds, PTL DEF Spec

-----------------------------------------------------------------------------
(* Pauses are for soaking.                                                   *)

\* What an iteration adds to the slots and the pauses.
LEMMA SlotsAndPauses ==
  ASSUME TypeOK, AppendSlot
  PROVE  LET n == Len(events)
             last == Len(events')
         IN  /\ n \in Nat /\ last \in Nat /\ n < last /\ Slots \subseteq 1 .. n
             /\ Pauses \subseteq 1 .. n
             /\ \A i \in 1 .. n : events'[i] = events[i]
             /\ Slots' = Slots \cup {last}
             /\ events'[last] = Slot(Best(plan), SlotStart(plan), SlotEnd(plan))
             /\ \/ SlotStart(plan) = plan.at /\ Pauses' = Pauses
                \/ /\ plan.at < SlotStart(plan)
                   /\ last = n + 2 /\ Pauses' = Pauses \cup {n + 1}
<1> DEFINE n == Len(events)
           last == Len(events')
           slot == Slot(Best(plan), SlotStart(plan), SlotEnd(plan))
           pause == Pause(plan.at)
<1>1. /\ n \in Nat /\ DOMAIN events = 1 .. n /\ DOMAIN events' = 1 .. last
      /\ \A i \in 1 .. n : events'[i] = events[i]
      /\ \/ SlotStart(plan) = plan.at /\ last = n + 1 /\ events'[n + 1] = slot
         \/ /\ plan.at < SlotStart(plan) /\ last = n + 2
            /\ events'[n + 1] = pause /\ events'[n + 2] = slot
  BY AppendedEvents
<1>2. slot.kind = "on" /\ pause.kind = "pause"
  BY DEF Slot, Pause
<1> HIDE DEF n, last, slot, pause
<1>3. Slots \subseteq 1 .. n /\ Pauses \subseteq 1 .. n
  BY <1>1 DEF Slots, Pauses
<1>4. CASE SlotStart(plan) = plan.at /\ last = n + 1 /\ events'[n + 1] = slot
  <2>1. 1 .. last = (1 .. n) \cup {last} /\ n < last /\ last \in Nat /\ last \notin 1 .. n
    BY <1>1, <1>4
  <2>2. Slots' = Slots \cup {last}
    BY <1>1, <1>2, <1>4, <2>1 DEF Slots
  <2>3. Pauses' = Pauses
    BY <1>1, <1>2, <1>4, <2>1 DEF Pauses
  <2>4. QED
    BY <1>1, <1>3, <1>4, <2>1, <2>2, <2>3 DEF n, last, slot
<1>5. CASE /\ plan.at < SlotStart(plan) /\ last = n + 2
           /\ events'[n + 1] = pause /\ events'[n + 2] = slot
  <2>1. /\ 1 .. last = (1 .. n) \cup {n + 1, last} /\ n < last /\ last \in Nat
        /\ last \notin 1 .. n /\ n + 1 \notin 1 .. n /\ last # n + 1
    BY <1>1, <1>5
  <2>2. Slots' = Slots \cup {last}
    BY <1>1, <1>2, <1>5, <2>1 DEF Slots
  <2>3. Pauses' = Pauses \cup {n + 1}
    BY <1>1, <1>2, <1>5, <2>1 DEF Pauses
  <2>4. QED
    BY <1>1, <1>3, <1>5, <2>1, <2>2, <2>3 DEF n, last, slot
<1>6. QED
  BY <1>1, <1>4, <1>5

\* Where the loop has to wait, every zone still to be watered soaks until the
\* next slot at least.
LEMMA AllSoak ==
  ASSUME plan \in PlansOf(Zones), Thirsty(plan) # {}, plan.at < SlotStart(plan),
         NEW z \in Thirsty(plan)
  PROVE  plan.lastEnd[z] # Never /\ plan.lastEnd[z] + plan.soak >= SlotStart(plan)
<1>1. z \in Zones /\ Best(plan) \in Zones
  BY BestPicked, ZonesAreSlots DEF Thirsty, PlansOf
<1>2. PickedBefore(plan, Best(plan), z)
  BY BestPicked, ZonesAreSlots
<1>3. /\ Earliest(plan, z) \in Nat /\ Earliest(plan, Best(plan)) \in Nat
      /\ plan.at \in Nat
  BY <1>1, EarliestBound DEF PlansOf
<1>4. SlotStart(plan) <= Earliest(plan, z) /\ SlotStart(plan) \in Nat
  BY <1>2, <1>3 DEF PickedBefore, SlotStart
<1>5. Earliest(plan, z) # plan.at
  BY <1>3, <1>4
<1>6. plan.lastEnd[z] # Never /\ Earliest(plan, z) = plan.lastEnd[z] + plan.soak
  BY <1>5 DEF Earliest
<1>7. QED
  BY <1>3, <1>4, <1>6

\* A slot of the zone before i after which it soaks until the slot after i.
SoaksFrom(slots, evs, soak, i, z) ==
  \E j \in slots : j < i /\ evs[j].zone = z /\ evs[j].endAt + soak >= evs[i + 1].at

\* All that may be watered after a pause was watered before it.
PInv ==
  /\ \A z \in Zones : plan.lastEnd[z] # Never =>
       \E j \in Slots : events[j].zone = z /\ events[j].endAt = plan.lastEnd[z]
  /\ \A i \in Pauses : /\ i + 1 <= Len(events)
                       /\ \A z \in Thirsty(plan) : SoaksFrom(Slots, events, plan.soak, i, z)
                       /\ \A k \in Slots :
                            i < k => SoaksFrom(Slots, events, plan.soak, i, events[k].zone)

\* A pause is followed by a slot of a zone that soaked, and the others soak too.
LEMMA AppendSlotPInv == IInv /\ PInv /\ AppendSlot => PInv'
<1> SUFFICES ASSUME IInv, PInv, AppendSlot PROVE PInv'
  OBVIOUS
<1> DEFINE n == Len(events)
           last == Len(events')
           slot == Slot(Best(plan), SlotStart(plan), SlotEnd(plan))
<1>1. /\ plan \in PlansOf(Zones) /\ Thirsty(plan) # {} /\ plan.at \in Nat
      /\ plan.lastEnd \in [Zones -> Nat \cup {Never}]
      /\ Best(plan) \in Thirsty(plan) /\ Best(plan) \in Zones
  BY SlotFacts, BestPicked, ZonesAreSlots DEF IInv, TypeOK, AppendSlot, PlansOf
<1>2. /\ n \in Nat /\ last \in Nat /\ n < last /\ Slots \subseteq 1 .. n
      /\ Pauses \subseteq 1 .. n
      /\ \A i \in 1 .. n : events'[i] = events[i]
      /\ Slots' = Slots \cup {last}
      /\ events'[last] = slot
      /\ \/ SlotStart(plan) = plan.at /\ Pauses' = Pauses
         \/ plan.at < SlotStart(plan) /\ last = n + 2 /\ Pauses' = Pauses \cup {n + 1}
  BY SlotsAndPauses DEF IInv
<1>3. slot.zone = Best(plan) /\ slot.at = SlotStart(plan) /\ slot.endAt = SlotEnd(plan)
  BY DEF Slot
<1> HIDE DEF n, last, slot
<1>4. /\ plan'.lastEnd = [plan.lastEnd EXCEPT ![Best(plan)] = SlotEnd(plan)]
      /\ plan'.soak = plan.soak
      /\ plan'.remaining = [plan.remaining EXCEPT ![Best(plan)] = @ - Chunk(plan, Best(plan))]
  BY <1>1, AfterSlotFacts, ZonesAreSlots DEF AppendSlot
<1>5. Thirsty(plan') \subseteq Thirsty(plan)
  <2>1. /\ Chunk(plan, Best(plan)) \in 1 .. plan.remaining[Best(plan)]
        /\ plan.remaining \in [Zones -> Nat]
    BY <1>1, SlotFacts, ZonesAreSlots DEF PlansOf
  <2>2. QED
    BY <1>1, <1>4, <2>1 DEF Thirsty
<1>6. ASSUME NEW z \in Zones, plan'.lastEnd[z] # Never
      PROVE  \E j \in Slots' : events'[j].zone = z /\ events'[j].endAt = plan'.lastEnd[z]
  <2>1. CASE z = Best(plan)
    BY <1>1, <1>2, <1>3, <1>4, <2>1
  <2>2. CASE z # Best(plan)
    <3>1. plan'.lastEnd[z] = plan.lastEnd[z]
      BY <1>1, <1>4, <2>2
    <3>2. PICK j \in Slots : events[j].zone = z /\ events[j].endAt = plan.lastEnd[z]
      BY <1>6, <3>1 DEF PInv
    <3>3. events'[j] = events[j] /\ j \in Slots'
      BY <1>2
    <3>4. QED
      BY <3>1, <3>2, <3>3
  <2>3. QED
    BY <2>1, <2>2
<1>7. ASSUME NEW i \in Pauses, NEW z, SoaksFrom(Slots, events, plan.soak, i, z)
      PROVE  SoaksFrom(Slots', events', plan'.soak, i, z)
  <2>1. PICK j \in Slots : /\ j < i /\ events[j].zone = z
                           /\ events[j].endAt + plan.soak >= events[i + 1].at
    BY <1>7 DEF SoaksFrom
  <2>2. i + 1 \in 1 .. n
    BY <1>2 DEF PInv, n
  <2>3. events'[j] = events[j] /\ j \in Slots' /\ events'[i + 1] = events[i + 1]
    BY <1>2, <2>2
  <2>4. QED
    BY <1>4, <2>1, <2>3 DEF SoaksFrom
<1>8. ASSUME plan.at < SlotStart(plan), last = n + 2, NEW z \in Thirsty(plan)
      PROVE  SoaksFrom(Slots', events', plan'.soak, n + 1, z)
  <2>1. plan.lastEnd[z] # Never /\ plan.lastEnd[z] + plan.soak >= SlotStart(plan)
    BY <1>1, <1>8, AllSoak
  <2>2. z \in Zones
    BY <1>1 DEF Thirsty, PlansOf
  <2>3. PICK j \in Slots : events[j].zone = z /\ events[j].endAt = plan.lastEnd[z]
    BY <2>1, <2>2 DEF PInv
  <2>4. events'[j] = events[j] /\ j \in Slots' /\ j < n + 1 /\ (n + 1) + 1 = last
    BY <1>2, <1>8
  <2>5. QED
    BY <1>2, <1>3, <1>4, <2>1, <2>3, <2>4 DEF SoaksFrom
<1>9. ASSUME NEW i \in Pauses'
      PROVE  /\ i + 1 <= last
             /\ \A z \in Thirsty(plan) : SoaksFrom(Slots', events', plan'.soak, i, z)
             /\ \A k \in Slots' :
                  i < k => SoaksFrom(Slots', events', plan'.soak, i, events'[k].zone)
  <2>1. CASE i \in Pauses
    <3>1. /\ i + 1 <= n /\ \A z \in Thirsty(plan) : SoaksFrom(Slots, events, plan.soak, i, z)
          /\ \A k \in Slots :
               i < k => SoaksFrom(Slots, events, plan.soak, i, events[k].zone)
      BY <2>1 DEF PInv, n
    <3>2. i + 1 <= last
      <4>1. i \in Nat /\ n \in Nat /\ last \in Nat /\ n < last
        BY <1>2, <2>1
      <4>2. i + 1 <= n
        BY <3>1
      <4>3. QED
        BY <4>1, <4>2
    <3>3. \A z \in Thirsty(plan) : SoaksFrom(Slots', events', plan'.soak, i, z)
      BY <1>7, <2>1, <3>1
    <3>4. ASSUME NEW k \in Slots', i < k
          PROVE  SoaksFrom(Slots', events', plan'.soak, i, events'[k].zone)
      <4>1. CASE k \in Slots
        <5>1. SoaksFrom(Slots, events, plan.soak, i, events[k].zone)
          BY <3>1, <3>4, <4>1
        <5>2. events'[k] = events[k]
          BY <1>2, <4>1
        <5>3. QED
          BY <1>7, <2>1, <5>1, <5>2
      <4>2. CASE k = last
        <5>1. events'[k].zone = Best(plan)
          BY <1>2, <1>3, <4>2
        <5>2. QED
          BY <1>1, <3>3, <5>1
      <4>3. QED
        BY <1>2, <4>1, <4>2
    <3>5. QED
      BY <3>2, <3>3, <3>4
  <2>2. CASE plan.at < SlotStart(plan) /\ last = n + 2 /\ i = n + 1
    <3>1. i + 1 <= last
      BY <1>2, <2>2
    <3>2. \A z \in Thirsty(plan) : SoaksFrom(Slots', events', plan'.soak, i, z)
      BY <1>8, <2>2
    <3>3. ASSUME NEW k \in Slots', i < k PROVE events'[k].zone = Best(plan)
      <4>1. k = last
        <5>1. n \in Nat /\ i = n + 1 /\ \A m \in Slots : m \in 1 .. n
          BY <1>2, <2>2
        <5>2. k \notin Slots
          BY <3>3, <5>1
        <5>3. QED
          BY <1>2, <5>2
      <4>2. QED
        BY <1>2, <1>3, <4>1
    <3>4. QED
      BY <1>1, <3>1, <3>2, <3>3
  <2>3. QED
    BY <1>2, <2>1, <2>2
<1>10. QED
  BY <1>5, <1>6, <1>9 DEF PInv, last

\* The all-off is neither slot nor pause.
LEMMA ClosePInv == IInv /\ PInv /\ Close => PInv'
<1> SUFFICES ASSUME IInv, PInv, Close PROVE PInv'
  OBVIOUS
<1> DEFINE n == Len(events)
<1>1. /\ n \in Nat /\ DOMAIN events = 1 .. n /\ DOMAIN events' = 1 .. n + 1
      /\ Len(events') = n + 1 /\ \A i \in 1 .. n : events'[i] = events[i]
      /\ events'[n + 1].kind = "off"
  BY ClosedEvents DEF IInv, AllOff
<1>2. plan' = plan
  BY DEF Close
<1>3. 1 .. n + 1 = (1 .. n) \cup {n + 1} /\ n + 1 \notin 1 .. n
  BY <1>1
<1>4. \A i \in Pauses : i + 1 <= n
  BY DEF PInv
<1> HIDE DEF n
<1>5. /\ Slots' = Slots /\ Pauses' = Pauses /\ Slots \subseteq 1 .. n /\ Pauses \subseteq 1 .. n
  BY <1>1, <1>3 DEF Slots, Pauses
<1>6. \A i \in Pauses : i + 1 \in 1 .. n /\ i + 1 <= n + 1
  BY <1>1, <1>4, <1>5
<1>7. ASSUME NEW i \in Pauses, NEW z, SoaksFrom(Slots, events, plan.soak, i, z)
      PROVE  SoaksFrom(Slots', events', plan'.soak, i, z)
  BY <1>1, <1>2, <1>5, <1>6, <1>7 DEF SoaksFrom
<1>8. \A i \in Pauses : /\ \A z \in Thirsty(plan) : SoaksFrom(Slots', events', plan'.soak, i, z)
                        /\ \A k \in Slots :
                             i < k => SoaksFrom(Slots', events', plan'.soak, i, events[k].zone)
  BY <1>7 DEF PInv
<1>9. \A k \in Slots : events'[k] = events[k]
  BY <1>1, <1>5
<1>10. \A z \in Zones : plan.lastEnd[z] # Never =>
         \E j \in Slots' : events'[j].zone = z /\ events'[j].endAt = plan'.lastEnd[z]
  BY <1>2, <1>5, <1>9 DEF PInv
<1>11. \A i \in Pauses' : /\ i + 1 <= Len(events')
                          /\ \A z \in Thirsty(plan') : SoaksFrom(Slots', events', plan'.soak, i, z)
                          /\ \A k \in Slots' :
                               i < k => SoaksFrom(Slots', events', plan'.soak, i, events'[k].zone)
  BY <1>1, <1>2, <1>5, <1>6, <1>8, <1>9
<1>12. QED
  BY <1>2, <1>10, <1>11 DEF PInv

\* The run never waits for nothing: a zone watered after a pause had been watered
\* before it and soaked until its end at least.
THEOREM PausesSoak == Spec => []PauseOnlyToSoak
<1>1. Init => PInv
  <2> SUFFICES ASSUME Init PROVE PInv
    OBVIOUS
  <2>1. Slots = {} /\ Pauses = {}
    BY DEF Init, Slots, Pauses
  <2>2. want \in [Zones -> Durations]
    BY DEF Init
  <2>3. \A z \in Zones : plan.lastEnd[z] = Never
    BY <2>2 DEF Init, NewPlan
  <2>4. QED
    BY <2>1, <2>3 DEF PInv
<1>2. IInv /\ PInv /\ [Next]_vars => PInv'
  <2> SUFFICES ASSUME PInv, UNCHANGED vars PROVE PInv'
    BY AppendSlotPInv, ClosePInv DEF Next
  <2>1. QED
    BY DEF vars, PInv, SoaksFrom, Slots, Pauses, Thirsty
<1>3. PInv => PauseOnlyToSoak
  BY DEF PInv, SoaksFrom, PauseOnlyToSoak
<1>4. QED
  BY <1>1, <1>2, <1>3, IInvHolds, PTL DEF Spec

-----------------------------------------------------------------------------
(* The original's order.                                                     *)

\* Without cycle & soak the loop goes down the list once: the zones that wait
\* come after all that had their slot.
OInv ==
  /\ plan.soak > 0 => plan.cycle > 0
  /\ plan.cycle = 0 =>
       /\ Pauses = {}
       /\ \A i, j \in Slots : i < j => events[i].zone < events[j].zone
       /\ \A j \in Slots : \A z \in Thirsty(plan) : events[j].zone < z

\* Each slot gives its zone all it is to get, and it is the first that waits.
LEMMA AppendSlotOInv == IInv /\ OInv /\ AppendSlot => OInv'
<1> SUFFICES ASSUME IInv, OInv, AppendSlot PROVE OInv'
  OBVIOUS
<1> DEFINE n == Len(events)
           last == Len(events')
<1>1. /\ plan \in PlansOf(Zones) /\ Thirsty(plan) # {} /\ Best(plan) \in Thirsty(plan)
      /\ \A k \in Thirsty(plan) : PickedBefore(plan, Best(plan), k)
      /\ Thirsty(plan) \subseteq Zones
  BY BestPicked, ZonesAreSlots DEF IInv, TypeOK, AppendSlot, PlansOf, Thirsty
<1>2. /\ plan'.soak = plan.soak /\ plan'.cycle = plan.cycle
      /\ plan'.remaining = [plan.remaining EXCEPT ![Best(plan)] = @ - Chunk(plan, Best(plan))]
  BY <1>1, AfterSlotFacts, ZonesAreSlots DEF AppendSlot
<1>3. ASSUME plan.cycle = 0
      PROVE  /\ Pauses' = {}
             /\ \A i, j \in Slots' : i < j => events'[i].zone < events'[j].zone
             /\ \A j \in Slots' : \A z \in Thirsty(plan') : events'[j].zone < z
  <2>1. plan.soak = 0 /\ plan.at \in Nat
    BY <1>1, <1>3 DEF OInv, PlansOf
  <2>2. \A z \in Thirsty(plan) : Earliest(plan, z) = plan.at
    BY <2>1 DEF Earliest
  <2>3. SlotStart(plan) = plan.at
    BY <1>1, <2>2 DEF SlotStart
  <2>4. /\ n \in Nat /\ last \in Nat /\ n < last /\ Slots \subseteq 1 .. n
        /\ \A i \in 1 .. n : events'[i] = events[i]
        /\ Slots' = Slots \cup {last} /\ Pauses' = Pauses
        /\ events'[last] = Slot(Best(plan), SlotStart(plan), SlotEnd(plan))
    BY <2>1, <2>3, SlotsAndPauses DEF IInv
  <2>5. events'[last].zone = Best(plan)
    BY <2>4 DEF Slot
  <2>6. plan'.remaining = [plan.remaining EXCEPT ![Best(plan)] = @ - @]
    BY <1>2, <1>3 DEF Chunk
  <2>7. Thirsty(plan') \subseteq Thirsty(plan) \ {Best(plan)}
    <3>1. plan.remaining \in [Zones -> Nat]
      BY <1>1 DEF PlansOf
    <3>2. QED
      BY <1>1, <2>6, <3>1 DEF Thirsty
  <2>8. \A z \in Thirsty(plan') : Best(plan) < z
    <3>1. \A z \in Thirsty(plan) : Best(plan) <= z
      BY <1>1, <2>1, <2>2 DEF PickedBefore
    <3>2. Thirsty(plan) \subseteq Nat
      BY <1>1, ZonesAreSlots
    <3>3. QED
      BY <1>1, <2>7, <3>1, <3>2
  <2> HIDE DEF n, last
  <2>9. ASSUME NEW i \in Slots', NEW j \in Slots', i < j
        PROVE  events'[i].zone < events'[j].zone
    <3>1. i \in Slots
      BY <2>4, <2>9
    <3>2. events'[i] = events[i]
      BY <2>4, <3>1
    <3>3. CASE j \in Slots
      <4>1. events'[j] = events[j]
        BY <2>4, <3>3
      <4>2. QED
        BY <1>3, <2>9, <3>1, <3>2, <3>3, <4>1 DEF OInv
    <3>4. CASE j = last
      BY <1>1, <1>3, <2>5, <3>1, <3>2, <3>4 DEF OInv
    <3>5. QED
      BY <2>4, <3>3, <3>4
  <2>10. ASSUME NEW j \in Slots', NEW z \in Thirsty(plan')
         PROVE  events'[j].zone < z
    <3>1. CASE j \in Slots
      <4>1. events'[j] = events[j]
        BY <2>4, <3>1
      <4>2. QED
        BY <1>3, <2>7, <3>1, <4>1 DEF OInv
    <3>2. CASE j = last
      BY <2>5, <2>8, <3>2
    <3>3. QED
      BY <2>4, <3>1, <3>2
  <2>11. QED
    BY <1>3, <2>4, <2>9, <2>10 DEF OInv
<1>4. QED
  BY <1>2, <1>3 DEF OInv

\* The all-off adds neither slot nor pause.
LEMMA CloseOInv == IInv /\ OInv /\ Close => OInv'
<1> SUFFICES ASSUME IInv, OInv, Close PROVE OInv'
  OBVIOUS
<1> DEFINE n == Len(events)
<1>1. /\ n \in Nat /\ DOMAIN events = 1 .. n /\ DOMAIN events' = 1 .. n + 1
      /\ \A i \in 1 .. n : events'[i] = events[i]
      /\ events'[n + 1].kind = "off"
  BY ClosedEvents DEF IInv, AllOff
<1>2. plan' = plan
  BY DEF Close
<1>3. 1 .. n + 1 = (1 .. n) \cup {n + 1} /\ n + 1 \notin 1 .. n
  BY <1>1
<1> HIDE DEF n
<1>4. Slots' = Slots /\ Pauses' = Pauses /\ Slots \subseteq 1 .. n
  BY <1>1, <1>3 DEF Slots, Pauses
<1>5. \A k \in Slots : events'[k] = events[k]
  BY <1>1, <1>4
<1>6. QED
  BY <1>2, <1>4, <1>5 DEF OInv

\* A schedule without cycle & soak waters as the original did: each zone once,
\* in the order of the zones, with nothing in between.
THEOREM OriginalOrder == Spec => []ClassicOrder
<1>1. Init => OInv
  <2> SUFFICES ASSUME Init PROVE OInv
    OBVIOUS
  <2>1. Slots = {} /\ Pauses = {}
    BY DEF Init, Slots, Pauses
  <2>2. plan.soak > 0 => plan.cycle > 0
    BY DEF Init, NewPlan
  <2>3. QED
    BY <2>1, <2>2 DEF OInv
<1>2. IInv /\ OInv /\ [Next]_vars => OInv'
  <2> SUFFICES ASSUME OInv, UNCHANGED vars PROVE OInv'
    BY AppendSlotOInv, CloseOInv DEF Next
  <2>1. QED
    BY DEF vars, OInv, Slots, Pauses, Thirsty
<1>3. OInv => ClassicOrder
  BY DEF OInv, ClassicOrder
<1>4. QED
  BY <1>1, <1>2, <1>3, IInvHolds, PTL DEF Spec
=============================================================================

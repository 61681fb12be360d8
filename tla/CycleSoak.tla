----------------------------- MODULE CycleSoak -----------------------------
(***************************************************************************)
(* The expansion of a schedule into the slots of a run, on its own: the     *)
(* loop of startScheduleLocked, one iteration per step, from any demand and *)
(* any cycle & soak setting a schedule can carry.                           *)
(***************************************************************************)
EXTENDS CyclePlan, FiniteSets

CONSTANTS
  NumZones,      \* zones of the configuration
  Durations,     \* minutes a zone may be asked to receive
  CycleLimits,   \* settings of cycleMaxMinutes, 0 = off
  Soaks,         \* settings of soakMinutes, 0 = off
  StartAt        \* the instant the run is started

ASSUME Inputs ==
  /\ NumZones \in Nat
  /\ Durations \subseteq Nat
  /\ CycleLimits \subseteq Nat
  /\ Soaks \subseteq Nat
  /\ StartAt \in Nat

Zones == 1 .. NumZones

VARIABLES
  plan,      \* the loop's local variables
  events,    \* e.running, as far as it is expanded
  want,      \* history: the minutes each zone was to receive
  given,     \* history: the minutes the slots appended so far give it
  finished   \* the loop has ended and the closing all-off is appended

vars == <<plan, events, want, given, finished>>

\* Validate refuses a soak without a cycle limit.
Init ==
  /\ want \in [Zones -> Durations]
  /\ \E cycle \in CycleLimits, soak \in Soaks :
       /\ soak > 0 => cycle > 0
       /\ plan = NewPlan(want, cycle, soak, StartAt)
  /\ events = << >>
  /\ given = [z \in Zones |-> 0]
  /\ finished = FALSE

\* A slip: the loop is left as soon as nothing can start at once.
AppendSlotAtOnce ==
  /\ Thirsty(plan) # {}
  /\ SlotStart(plan) = plan.at
  /\ events' = events \o SlotEvents(plan)
  /\ plan' = AfterSlot(plan)
  /\ UNCHANGED <<want, given, finished>>

AppendSlot ==
  /\ Thirsty(plan) # {}
  /\ events' = events \o SlotEvents(plan)
  /\ plan' = AfterSlot(plan)
  /\ LET slot == events'[Len(events')]
     IN  given' = [given EXCEPT ![slot.zone] = @ + (slot.endAt - slot.at)]
  /\ UNCHANGED <<want, finished>>

Close ==
  /\ Thirsty(plan) = {}
  /\ ~finished
  /\ events' = Append(events, AllOff(plan.at))
  /\ finished' = TRUE
  /\ UNCHANGED <<plan, want, given>>

Next == AppendSlot \/ Close

Spec == Init /\ [][Next]_vars

\* The loop is straight-line code: nothing can stop it between iterations.
FairSpec == Spec /\ WF_vars(Next)

-----------------------------------------------------------------------------
Slots == {i \in DOMAIN events : events[i].kind = "on"}
Pauses == {i \in DOMAIN events : events[i].kind = "pause"}

\* The shape of the variables.
TypeOK ==
  /\ plan \in PlansOf(Zones)
  /\ events \in Seq(EventsOf(Zones))
  /\ want \in [Zones -> Nat]
  /\ given \in [Zones -> Nat]
  /\ finished \in BOOLEAN

\* Splitting a runtime into cycles neither loses nor invents a minute: what the
\* slots give and what the loop still owes is what was asked for.
Conserved == \A z \in Zones : given[z] + plan.remaining[z] = want[z]

\* Two slots never overlap, whatever zones they are of: the run is strictly
\* sequential, one valve at a time, and the slots come in the order of time.
Sequential ==
  \A i, j \in Slots : i < j => /\ events[i].at < events[i].endAt
                               /\ events[i].endAt <= events[j].at

\* A zone is not watered again before it has soaked for soakMinutes.
SoakKept ==
  \A i, j \in Slots :
    (i < j /\ events[i].zone = events[j].zone) => events[i].endAt + plan.soak <= events[j].at

\* No slot is longer than cycleMaxMinutes.
CycleKept ==
  plan.cycle > 0 => \A i \in Slots : events[i].endAt - events[i].at <= plan.cycle

\* Where the next slot does not follow at once, a pause closes the valve of the
\* slot that ended; where it does follow at once, there is none.
GapsArePauses ==
  \A i \in Slots : i < Len(events) =>
    \/ events[i + 1].at = events[i].endAt /\ events[i + 1].kind \in {"on", "off"}
    \/ /\ events[i + 1].at = events[i].endAt /\ events[i + 1].kind = "pause"
       /\ i + 2 \in Slots /\ events[i + 2].at > events[i].endAt

\* The run pauses only while it must: a zone watered after a pause was already
\* watered before it and has soaked up to the end of the pause at the earliest.
PauseOnlyToSoak ==
  \A i \in Pauses, k \in Slots : i < k =>
    \E j \in Slots : /\ j < i
                     /\ events[j].zone = events[k].zone
                     /\ events[j].endAt + plan.soak >= events[i + 1].at

\* Without cycle & soak the run is the original's: each zone once, in the order
\* of the zones, with nothing in between.
ClassicOrder ==
  plan.cycle = 0 => /\ Pauses = {}
                    /\ \A i, j \in Slots : i < j => events[i].zone < events[j].zone

\* The loop ends: every setting expands to a finite run.
Ends == <>finished

=============================================================================

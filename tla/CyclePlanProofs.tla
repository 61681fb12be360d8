-------------------------- MODULE CyclePlanProofs --------------------------
(* Facts about the operators of CyclePlan, for every number of zones, every *)
(* demand and every setting of cycle & soak.                                *)
EXTENDS CyclePlan, TLAPS, SequenceTheorems, WellFoundedInduction

-----------------------------------------------------------------------------
\* A set of naturals that is not empty has a least element.
LEMMA LeastOf ==
  ASSUME NEW T, T \subseteq Nat, T # {}
  PROVE  \E x \in T : \A y \in T : x <= y
<1> DEFINE R == OpToRel(<, Nat)
<1>1. IsWellFoundedOn(R, Nat)
  BY NatLessThanWellFounded
<1>2. PICK x \in T : \A y \in T : ~(<<y, x>> \in R)
  BY <1>1, WFMin
<1>3. \A y \in T : y < x => <<y, x>> \in R
  BY DEF OpToRel
<1> HIDE DEF R
<1>4. \A y \in T : ~(y < x)
  BY <1>2, <1>3
<1>5. QED
  BY <1>4

-----------------------------------------------------------------------------
\* The earliest start of a slot is an instant, and not before the loop has got to.
LEMMA EarliestBound ==
  ASSUME NEW Z, NEW p \in PlansOf(Z), NEW z \in Z
  PROVE  Earliest(p, z) \in Nat /\ p.at <= Earliest(p, z)
BY DEF PlansOf, Earliest, Never

\* The loop picks a zone that is still to be watered, and no other one is to be
\* picked before it.
LEMMA BestPicked ==
  ASSUME NEW Z, Z \subseteq Nat, NEW p \in PlansOf(Z), Thirsty(p) # {}
  PROVE  /\ Best(p) \in Thirsty(p)
         /\ \A k \in Thirsty(p) : PickedBefore(p, Best(p), k)
<1>1. Thirsty(p) \subseteq Z /\ DOMAIN p.remaining = Z
  BY DEF Thirsty, PlansOf
<1>2. \A z \in Thirsty(p) : Earliest(p, z) \in Nat
  BY <1>1, EarliestBound
<1> DEFINE Times == {Earliest(p, z) : z \in Thirsty(p)}
<1>3. PICK m \in Times : \A t \in Times : m <= t
  <2>1. Times \subseteq Nat /\ Times # {}
    BY <1>2
  <2>2. QED
    BY <2>1, LeastOf
<1> DEFINE First == {z \in Thirsty(p) : Earliest(p, z) = m}
<1>4. PICK z \in First : \A k \in First : z <= k
  <2>1. First \subseteq Nat /\ First # {}
    BY <1>1, <1>3
  <2>2. QED
    BY <2>1, LeastOf
<1>5. \A k \in Thirsty(p) : PickedBefore(p, z, k)
  <2> TAKE k \in Thirsty(p)
  <2>1. m <= Earliest(p, k) /\ Earliest(p, z) = m
    BY <1>3, <1>4
  <2>2. Earliest(p, k) \in Nat /\ m \in Nat
    BY <1>2, <1>3
  <2>3. Earliest(p, k) = m => z <= k
    BY <1>4
  <2>4. QED
    BY <2>1, <2>2, <2>3 DEF PickedBefore
<1>6. z \in Thirsty(p)
  BY <1>4
<1>7. QED
  BY <1>5, <1>6 DEF Best

-----------------------------------------------------------------------------
\* What a slot is: a positive share of what the zone is still to get, no longer
\* than a cycle, from an instant at which the zone has soaked.
LEMMA SlotFacts ==
  ASSUME NEW Z, Z \subseteq Nat, NEW p \in PlansOf(Z), Thirsty(p) # {}
  PROVE  /\ Best(p) \in Z
         /\ Chunk(p, Best(p)) \in 1 .. p.remaining[Best(p)]
         /\ p.cycle > 0 => Chunk(p, Best(p)) <= p.cycle
         /\ SlotStart(p) \in Nat /\ p.at <= SlotStart(p)
         /\ p.soak > 0 /\ p.lastEnd[Best(p)] # Never =>
              p.lastEnd[Best(p)] + p.soak <= SlotStart(p)
         /\ SlotEnd(p) = SlotStart(p) + Chunk(p, Best(p))
         /\ SlotEnd(p) \in Nat /\ SlotStart(p) < SlotEnd(p)
<1> DEFINE z == Best(p)
<1>1. z \in Thirsty(p)
  BY BestPicked
<1>2. z \in Z /\ p.remaining[z] \in Nat /\ p.remaining[z] > 0
  BY <1>1 DEF Thirsty, PlansOf
<1>3. p.cycle \in Nat /\ p.soak \in Nat /\ p.at \in Nat /\ p.lastEnd[z] \in Nat \cup {Never}
  BY <1>2 DEF PlansOf
<1> HIDE DEF z
<1>4. Chunk(p, z) \in 1 .. p.remaining[z] /\ (p.cycle > 0 => Chunk(p, z) <= p.cycle)
  BY <1>2, <1>3 DEF Chunk, Least
<1>5. Earliest(p, z) \in Nat /\ p.at <= Earliest(p, z)
  BY <1>2, EarliestBound
<1>6. p.soak > 0 /\ p.lastEnd[z] # Never => p.lastEnd[z] + p.soak <= Earliest(p, z)
  BY <1>3, <1>5 DEF Earliest, Never
<1>7. SlotStart(p) = Earliest(p, z) /\ SlotEnd(p) = SlotStart(p) + Chunk(p, z)
  BY DEF SlotStart, SlotEnd, z
<1>8. QED
  BY <1>2, <1>4, <1>5, <1>6, <1>7 DEF z

\* An iteration keeps the shape of the plan, takes the slot off the zone's rest
\* and goes on from the slot's end.
LEMMA AfterSlotFacts ==
  ASSUME NEW Z, Z \subseteq Nat, NEW p \in PlansOf(Z), Thirsty(p) # {}
  PROVE  /\ AfterSlot(p) \in PlansOf(Z)
         /\ AfterSlot(p).remaining =
              [p.remaining EXCEPT ![Best(p)] = @ - Chunk(p, Best(p))]
         /\ AfterSlot(p).lastEnd = [p.lastEnd EXCEPT ![Best(p)] = SlotEnd(p)]
         /\ AfterSlot(p).at = SlotEnd(p)
         /\ AfterSlot(p).cycle = p.cycle /\ AfterSlot(p).soak = p.soak
<1>1. /\ Best(p) \in Z
      /\ Chunk(p, Best(p)) \in 1 .. p.remaining[Best(p)]
      /\ SlotEnd(p) \in Nat
  BY SlotFacts
<1>2. p.remaining[Best(p)] \in Nat
  BY <1>1 DEF PlansOf
<1>3. p.remaining[Best(p)] - Chunk(p, Best(p)) \in Nat
  BY <1>1, <1>2
<1>4. QED
  BY <1>1, <1>3 DEF AfterSlot, PlansOf

\* Joining a sequence of at most one element to one of one.
LEMMA JoinTwo ==
  ASSUME NEW S, NEW a \in S, NEW b \in S
  PROVE  /\ <<a>> \o <<b>> = <<a, b>> /\ <<a, b>> \in Seq(S)
         /\ << >> \o <<b>> = <<b>> /\ <<b>> \in Seq(S)
<1>1. <<a>> \in Seq(S) /\ <<b>> \in Seq(S) /\ <<a, b>> \in Seq(S)
  OBVIOUS
<1>2. Len(<<a>>) = 1 /\ Len(<<b>>) = 1 /\ Len(<<a, b>>) = 2
  OBVIOUS
<1>3. /\ <<a>> \o <<b>> \in Seq(S) /\ Len(<<a>> \o <<b>>) = 2
      /\ \A i \in 1 .. 2 : (<<a>> \o <<b>>)[i] = IF i <= 1 THEN <<a>>[i] ELSE <<b>>[i - 1]
  BY <1>1, <1>2, ConcatProperties
<1>4. \A i \in 1 .. 2 : (<<a>> \o <<b>>)[i] = <<a, b>>[i]
  BY <1>3
<1>5. <<a>> \o <<b>> = <<a, b>>
  BY <1>1, <1>2, <1>3, <1>4, SeqEqual
<1>6. << >> \o <<b>> = <<b>>
  BY <1>1, ConcatEmptySeq
<1>7. QED
  BY <1>1, <1>5, <1>6

\* The events of an iteration: perhaps a pause, from where the loop has got to,
\* and the slot.
LEMMA SlotEventsFacts ==
  ASSUME NEW Z, Z \subseteq Nat \ {0}, NEW p \in PlansOf(Z), Thirsty(p) # {}
  PROVE  /\ SlotEvents(p) \in Seq(EventsOf(Z))
         /\ \/ /\ SlotStart(p) = p.at
               /\ SlotEvents(p) = <<Slot(Best(p), SlotStart(p), SlotEnd(p))>>
            \/ /\ p.at < SlotStart(p)
               /\ SlotEvents(p) =
                    <<Pause(p.at), Slot(Best(p), SlotStart(p), SlotEnd(p))>>
<1>1. /\ Best(p) \in Z /\ Best(p) # 0
      /\ SlotStart(p) \in Nat /\ SlotEnd(p) \in Nat /\ p.at <= SlotStart(p)
  BY SlotFacts
<1>2. p.at \in Nat
  BY DEF PlansOf
<1>3. Pause(p.at) \in EventsOf(Z) /\ Slot(Best(p), SlotStart(p), SlotEnd(p)) \in EventsOf(Z)
  BY <1>1, <1>2 DEF Pause, Slot, EventsOf
<1>4. CASE p.at < SlotStart(p)
  BY <1>3, <1>4, JoinTwo DEF SlotEvents
<1>5. CASE ~(p.at < SlotStart(p))
  BY <1>1, <1>2, <1>3, <1>5, JoinTwo DEF SlotEvents
<1>6. QED
  BY <1>4, <1>5

\* The first of them is due where the loop had got to.
LEMMA FirstSlotEvent ==
  ASSUME NEW Z, Z \subseteq Nat \ {0}, NEW p \in PlansOf(Z), Thirsty(p) # {}
  PROVE  /\ SlotEvents(p) # << >>
         /\ SlotEvents(p)[1].at = p.at /\ SlotEvents(p)[1].done = FALSE
<1> DEFINE slot == Slot(Best(p), SlotStart(p), SlotEnd(p))
<1>1. slot.at = SlotStart(p) /\ slot.done = FALSE
  BY DEF Slot
<1>2. Pause(p.at).at = p.at /\ Pause(p.at).done = FALSE
  BY DEF Pause
<1>3. \/ SlotStart(p) = p.at /\ SlotEvents(p) = <<slot>>
      \/ SlotEvents(p) = <<Pause(p.at), slot>>
  BY SlotEventsFacts
<1> HIDE DEF slot
<1>4. QED
  BY <1>1, <1>2, <1>3
=============================================================================

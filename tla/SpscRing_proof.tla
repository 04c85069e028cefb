--------------------------- MODULE SpscRing_proof ---------------------------
(***************************************************************************)
(* Proofs about SpscRing for every capacity, counter width and value set.  *)
(* The arithmetic of the wrapping counters is isolated in a few lemmas;    *)
(* once a distance is known to be b - a or b - a + Modulus, each step of   *)
(* the invariant is linear.                                                *)
(***************************************************************************)
EXTENDS SpscRing, SequenceTheorems, TLAPS

(* A wrapped distance is the plain difference, or one Modulus more.        *)
LEMMA ModulusFacts ==
    /\ Modulus \in Nat
    /\ Modulus >= 2 * Capacity
    /\ Capacity \in Nat \ {0}
<1>1. Capacity * 2 <= Capacity * Laps
  <2>1. Laps >= 2  BY RingAssumption
  <2>2. \A c, l \in Nat : l >= 2 => c * 2 <= c * l  OBVIOUS
  <2> QED  BY <2>1, <2>2, RingAssumption
<1> QED  BY <1>1, RingAssumption DEF Modulus

LEMMA DistValue ==
    ASSUME NEW a \in Counter, NEW b \in Counter
    PROVE  /\ Dist(a, b) = IF b >= a THEN b - a ELSE b - a + Modulus
           /\ Dist(a, b) \in Counter
<1> DEFINE m == Modulus
<1>1. m \in Nat /\ m > 0  BY ModulusFacts
<1> QED  BY <1>1 DEF Counter, Dist

LEMMA Next1Value ==
    ASSUME NEW a \in Counter
    PROVE  /\ Next1(a) = IF a + 1 = Modulus THEN 0 ELSE a + 1
           /\ Next1(a) \in Counter
<1>1. Modulus \in Nat /\ Modulus > 0  BY ModulusFacts
<1> QED  BY <1>1 DEF Counter, Next1

LEMMA SlotRange ==
    ASSUME NEW a \in Counter
    PROVE  Slot(a) \in 0 .. Capacity - 1
BY ModulusFacts DEF Slot, Counter

(* How distances change when one end moves, and add up along the ring.     *)
LEMMA DistMoves ==
    ASSUME NEW a \in Counter, NEW b \in Counter
    PROVE  /\ Dist(a, b) < Capacity => Dist(a, Next1(b)) = Dist(a, b) + 1
           /\ Dist(a, b) > 0 => Dist(Next1(a), b) = Dist(a, b) - 1
           /\ Dist(a, a) = 0
           /\ Dist(a, b) = 0 => a = b
<1>1. Modulus \in Nat /\ Capacity \in Nat /\ Modulus >= 2 * Capacity /\ Capacity > 0
  BY ModulusFacts
<1>2. Next1(a) \in Counter /\ Next1(b) \in Counter  BY Next1Value
<1>3. /\ Dist(a, b) = IF b >= a THEN b - a ELSE b - a + Modulus
      /\ Dist(a, a) = IF a >= a THEN a - a ELSE a - a + Modulus
  BY DistValue
<1>4. Dist(a, b) < Capacity => Dist(a, Next1(b)) = Dist(a, b) + 1
  <2>1. Dist(a, Next1(b)) =
          IF Next1(b) >= a THEN Next1(b) - a ELSE Next1(b) - a + Modulus
    BY <1>2, DistValue
  <2>2. Next1(b) = IF b + 1 = Modulus THEN 0 ELSE b + 1  BY Next1Value
  <2> QED  BY <1>1, <1>3, <2>1, <2>2 DEF Counter
<1>5. Dist(a, b) > 0 => Dist(Next1(a), b) = Dist(a, b) - 1
  <2>1. Dist(Next1(a), b) =
          IF b >= Next1(a) THEN b - Next1(a) ELSE b - Next1(a) + Modulus
    BY <1>2, DistValue
  <2>2. Next1(a) = IF a + 1 = Modulus THEN 0 ELSE a + 1  BY Next1Value
  <2> QED  BY <1>1, <1>3, <2>1, <2>2 DEF Counter
<1>6. Dist(a, a) = 0 /\ (Dist(a, b) = 0 => a = b)
  BY <1>1, <1>3 DEF Counter
<1> QED  BY <1>4, <1>5, <1>6

LEMMA DistAdds ==
    ASSUME NEW a \in Counter, NEW b \in Counter, NEW c \in Counter,
           Dist(a, b) <= Dist(a, c)
    PROVE  Dist(b, c) = Dist(a, c) - Dist(a, b)
<1>1. /\ Dist(a, b) = IF b >= a THEN b - a ELSE b - a + Modulus
      /\ Dist(b, c) = IF c >= b THEN c - b ELSE c - b + Modulus
      /\ Dist(a, c) = IF c >= a THEN c - a ELSE c - a + Modulus
  BY DistValue
<1> QED  BY <1>1, ModulusFacts DEF Counter

LEMMA LaterStaysBehind ==
    ASSUME NEW a \in Counter, NEW b \in Counter, NEW c \in Counter,
           NEW d \in Counter,
           Dist(a, b) <= Dist(a, d), Dist(b, c) <= Dist(b, d)
    PROVE  Dist(a, c) <= Dist(a, d)
<1>1. /\ Dist(a, b) = IF b >= a THEN b - a ELSE b - a + Modulus
      /\ Dist(a, c) = IF c >= a THEN c - a ELSE c - a + Modulus
      /\ Dist(a, d) = IF d >= a THEN d - a ELSE d - a + Modulus
      /\ Dist(b, c) = IF c >= b THEN c - b ELSE c - b + Modulus
      /\ Dist(b, d) = IF d >= b THEN d - b ELSE d - b + Modulus
  BY DistValue
<1> QED  BY <1>1, ModulusFacts DEF Counter

(* Two counters less than a capacity apart have different slots: this is   *)
(* where Capacity dividing Modulus matters.                                *)
LEMMA SlotsDiffer ==
    ASSUME NEW a \in Counter, NEW b \in Counter,
           Dist(a, b) > 0, Dist(a, b) < Capacity
    PROVE  Slot(a) # Slot(b)
<1> SUFFICES ASSUME Slot(a) = Slot(b) PROVE FALSE  OBVIOUS
<1> DEFINE C == Capacity
           qa == a \div Capacity
           qb == b \div Capacity
<1>1. C \in Nat /\ C > 0 /\ Laps \in Nat /\ a \in Nat /\ b \in Nat
  BY RingAssumption, ModulusFacts DEF Counter
<1>2. /\ qa \in Int /\ qb \in Int
      /\ a = C * qa + Slot(a) /\ b = C * qb + Slot(b)
  <2>1. \A x, c \in Nat : c > 0 => x \div c \in Int /\ x = c * (x \div c) + (x % c)
    OBVIOUS
  <2> QED  BY <1>1, <2>1 DEF Slot
<1>3. b - a = C * qb - C * qa  BY <1>1, <1>2, SlotRange
<1>4. PICK k \in Int : Dist(a, b) = C * k
  <2>1. CASE b >= a
    <3>1. Dist(a, b) = C * (qb - qa)
      <4>1. Dist(a, b) = C * qb - C * qa  BY <1>3, <2>1, DistValue
      <4>2. C * qb - C * qa = C * (qb - qa)  BY <1>1, <1>2
      <4> QED  BY <4>1, <4>2
    <3> QED  BY <3>1, <1>2
  <2>2. CASE b < a
    <3>1. Dist(a, b) = C * (qb - qa + Laps)
      <4>1. Dist(a, b) = C * qb - C * qa + C * Laps
        BY <1>3, <2>2, <1>1, DistValue DEF Modulus
      <4>2. C * qb - C * qa + C * Laps = C * (qb - qa + Laps)  BY <1>1, <1>2
      <4> QED  BY <4>1, <4>2
    <3> QED  BY <3>1, <1>1, <1>2
  <2> QED  BY <2>1, <2>2, <1>1
<1>5. \A c \in Nat, m \in Int : ~(c * m > 0 /\ c * m < c)
  <2> SUFFICES ASSUME NEW c \in Nat, NEW m \in Int, c * m > 0, c * m < c
               PROVE  FALSE
    OBVIOUS
  <2>1. CASE m <= 0
    <3>1. c * m <= 0  BY <2>1
    <3> QED  BY <3>1
  <2>2. CASE m >= 1
    <3>1. c * m >= c  BY <2>2
    <3> QED  BY <3>1
  <2> QED  BY <2>1, <2>2
<1> QED  BY <1>1, <1>4, <1>5

-----------------------------------------------------------------------------
(* Type correctness, on its own: the counters never leave their width and  *)
(* every register holds what its place in the code says.                   *)
LEMMA TypeInvariance == IndInv /\ [Next]_vars => TypeOK'
<1> SUFFICES ASSUME IndInv, [Next]_vars PROVE TypeOK'  OBVIOUS
<1> USE DEF IndInv, TypeOK
<1>1. ASSUME NEW v \in Value, CallPush(v) PROVE TypeOK'
  BY <1>1 DEF CallPush, consumerVars
<1>2. CASE CheckRoom
  BY <1>2 DEF CheckRoom, LoadTail, Loadable, consumerVars
<1>3. CASE WriteSlot
  BY <1>3, SlotRange DEF WriteSlot, consumerVars
<1>4. CASE PublishHead
  BY <1>4, Next1Value DEF PublishHead, consumerVars
<1>5. CASE CheckEmpty
  BY <1>5 DEF CheckEmpty, LoadHead, Loadable, producerVars
<1>6. CASE ReadSlot
  BY <1>6, SlotRange DEF ReadSlot, producerVars
<1>7. CASE ReleaseSlot
  BY <1>7, Next1Value DEF ReleaseSlot, producerVars
<1>8. CASE UNCHANGED vars
  BY <1>8 DEF vars, producerVars, consumerVars
<1> QED  BY <1>1, <1>2, <1>3, <1>4, <1>5, <1>6, <1>7, <1>8 DEF Next, Push, Pop

(* The order seenTail <= tail <= seenHead <= head, in distances, and what  *)
(* the two checks established.                                             *)
LEMMA CountersInvariance ==
    IndInv /\ [Next]_vars => CountersOrdered' /\ ChecksHold'
<1> SUFFICES ASSUME IndInv, [Next]_vars PROVE CountersOrdered' /\ ChecksHold'
  OBVIOUS
<1>0. /\ head \in Counter /\ tail \in Counter
      /\ seenTail \in Counter /\ seenHead \in Counter
  BY DEF IndInv, TypeOK
<1>m. Capacity \in Nat /\ Capacity > 0  BY ModulusFacts
<1>i. CountersOrdered /\ ChecksHold  BY DEF IndInv
<1>d. \A a, b \in Counter : Dist(a, b) \in Nat  BY DistValue DEF Counter
<1> USE <1>i DEF CountersOrdered, ChecksHold
<1>1. ASSUME NEW v \in Value, CallPush(v) PROVE CountersOrdered' /\ ChecksHold'
  BY <1>1 DEF CallPush, consumerVars, Dist
<1>2. CASE CheckRoom
  <2>1. /\ UNCHANGED <<head, tail, seenHead, cpc>>
        /\ ppc' = IF Dist(seenTail', head) >= Capacity THEN "check" ELSE "write"
        /\ seenTail' \in Counter
        /\ Dist(seenTail, seenTail') <= Dist(seenTail, tail)
    BY <1>2 DEF CheckRoom, LoadTail, Loadable, consumerVars
  <2>2. /\ Dist(seenTail', head) = Dist(seenTail, head) - Dist(seenTail, seenTail')
        /\ Dist(seenTail', tail) = Dist(seenTail, tail) - Dist(seenTail, seenTail')
    BY <2>1, <1>0, <1>d, DistAdds
  <2>3. /\ Dist(seenTail', head) \in Nat /\ Dist(seenTail, seenTail') \in Nat
        /\ Dist(seenTail, head) \in Nat /\ Dist(seenTail, tail) \in Nat
    BY <2>1, <1>0, <1>d
  <2>4. ppc' \in {"write", "publish"} => Dist(seenTail', head) < Capacity
    BY <2>1, <2>3, <1>m
  <2> QED  BY <2>1, <2>2, <2>3, <2>4, <1>m DEF Dist
<1>3. CASE WriteSlot
  BY <1>3 DEF WriteSlot, consumerVars, Dist
<1>4. CASE PublishHead
  <2>1. UNCHANGED <<tail, seenHead, seenTail, cpc>> /\ ppc' = "idle"
        /\ head' = Next1(head) /\ Dist(seenTail, head) < Capacity
    BY <1>4 DEF PublishHead, consumerVars
  <2>2. Dist(seenTail, head') = Dist(seenTail, head) + 1
    BY <2>1, <1>0, DistMoves
  <2>3. Dist(tail, head) < Capacity
    <3>1. Dist(tail, head) = Dist(seenTail, head) - Dist(seenTail, tail)
      BY <1>0, DistAdds
    <3>2. Dist(seenTail, tail) \in Nat /\ Dist(seenTail, head) \in Nat
      BY <1>0, <1>d
    <3> QED  BY <3>1, <3>2, <2>1, <1>m
  <2>4. Dist(tail, head') = Dist(tail, head) + 1
    BY <2>1, <2>3, <1>0, DistMoves
  <2>5. /\ Dist(seenTail, tail) \in Nat /\ Dist(seenTail, head) \in Nat
        /\ Dist(tail, seenHead) \in Nat /\ Dist(tail, head) \in Nat
    BY <1>0, <1>d
  <2>6. /\ Dist(seenTail, tail)' = Dist(seenTail, tail)
        /\ Dist(tail, seenHead)' = Dist(tail, seenHead)
        /\ Dist(seenTail, head)' = Dist(seenTail, head) + 1
        /\ Dist(tail, head)' = Dist(tail, head) + 1
    BY <2>1, <2>2, <2>4
  <2> QED  BY <2>1, <2>5, <2>6, <1>m
<1>5. CASE CheckEmpty
  <2>1. /\ UNCHANGED <<head, tail, seenTail, ppc>>
        /\ cpc' = IF seenHead' = tail THEN "poll" ELSE "read"
        /\ seenHead' \in Counter
        /\ Dist(seenHead, seenHead') <= Dist(seenHead, head)
    BY <1>5 DEF CheckEmpty, LoadHead, Loadable, producerVars
  <2>2. Dist(tail, seenHead') <= Dist(tail, head)
    BY <2>1, <1>0, LaterStaysBehind
  <2> QED  BY <2>1, <2>2, <1>0 DEF Dist
<1>6. CASE ReadSlot
  BY <1>6 DEF ReadSlot, producerVars, Dist
<1>7. CASE ReleaseSlot
  <2>1. UNCHANGED <<head, seenHead, seenTail, ppc>> /\ cpc' = "poll"
        /\ tail' = Next1(tail) /\ seenHead # tail
    BY <1>7 DEF ReleaseSlot, producerVars
  <2>2. /\ Dist(seenTail, tail) \in Nat /\ Dist(seenTail, head) \in Nat
        /\ Dist(tail, seenHead) \in Nat /\ Dist(tail, head) \in Nat
    BY <1>0, <1>d
  <2>3. Dist(tail, seenHead) > 0  BY <2>1, <2>2, <1>0, DistMoves
  <2>4. /\ Dist(tail', seenHead) = Dist(tail, seenHead) - 1
        /\ Dist(tail', head) = Dist(tail, head) - 1
    BY <2>1, <2>2, <2>3, <1>0, DistMoves
  <2>5. Dist(tail, head) = Dist(seenTail, head) - Dist(seenTail, tail)
    BY <1>0, DistAdds
  <2>6. Dist(seenTail, tail') = Dist(seenTail, tail) + 1
    BY <2>1, <2>2, <2>3, <2>5, <1>0, <1>m, DistMoves
  <2>7. /\ Dist(tail, seenHead)' = Dist(tail, seenHead) - 1
        /\ Dist(tail, head)' = Dist(tail, head) - 1
        /\ Dist(seenTail, tail)' = Dist(seenTail, tail) + 1
        /\ Dist(seenTail, head)' = Dist(seenTail, head)
    BY <2>1, <2>4, <2>6
  <2> QED  BY <2>1, <2>2, <2>3, <2>5, <2>7, <1>m
<1>8. CASE UNCHANGED vars
  BY <1>8 DEF vars, producerVars, consumerVars, Dist
<1> QED  BY <1>1, <1>2, <1>3, <1>4, <1>5, <1>6, <1>7, <1>8 DEF Next, Push, Pop

(* What the invariant says of the distance from tail to head: at most one  *)
(* capacity, strictly less while the producer writes, not zero while the   *)
(* consumer reads.                                                         *)
LEMMA OccupiedBounds ==
    ASSUME TypeOK, CountersOrdered, ChecksHold
    PROVE  /\ Occupied \in Nat /\ Occupied <= Capacity
           /\ ppc \in {"write", "publish"} => Occupied < Capacity
           /\ cpc \in {"read", "release"} => Occupied > 0
<1>0. /\ head \in Counter /\ tail \in Counter
      /\ seenTail \in Counter /\ seenHead \in Counter
  BY DEF TypeOK
<1>m. Capacity \in Nat  BY ModulusFacts
<1>1. Occupied = Dist(seenTail, head) - Dist(seenTail, tail)
  BY <1>0, DistAdds DEF CountersOrdered, Occupied
<1>2. /\ Dist(seenTail, tail) \in Nat /\ Dist(seenTail, head) \in Nat
      /\ Dist(tail, seenHead) \in Nat /\ Occupied \in Nat
  BY <1>0, DistValue DEF Counter, Occupied
<1>3. seenHead # tail => Dist(tail, seenHead) # 0
  BY <1>0, DistMoves
<1>4. Dist(tail, seenHead) <= Occupied
  BY DEF CountersOrdered, Occupied
<1>5. Dist(seenTail, head) <= Capacity  BY DEF CountersOrdered
<1>6. cpc \in {"read", "release"} => Occupied > 0
  BY <1>2, <1>3, <1>4 DEF ChecksHold
<1>7. ppc \in {"write", "publish"} => Occupied < Capacity
  BY <1>1, <1>2, <1>m DEF ChecksHold
<1> QED  BY <1>1, <1>2, <1>5, <1>6, <1>7, <1>m

(* No data race on a slot: the producer's slot is Occupied ahead of the    *)
(* consumer's, which is more than zero and less than a capacity.           *)
LEMMA NoRaceFromInv == IndInv => NoSlotRace /\ NeverOverfull
<1> SUFFICES ASSUME IndInv PROVE NoSlotRace /\ NeverOverfull  OBVIOUS
<1>1. head \in Counter /\ tail \in Counter  BY DEF IndInv, TypeOK
<1> QED  BY <1>1, OccupiedBounds, SlotsDiffer
         DEF IndInv, NoSlotRace, NeverOverfull, Occupied

(* The slots between tail and head keep what was put in them.              *)
LEMMA SlotsInvariance == IndInv /\ [Next]_vars => SlotsHold'
<1> SUFFICES ASSUME IndInv, [Next]_vars PROVE SlotsHold'  OBVIOUS
<1>0. head \in Counter /\ tail \in Counter /\ TypeOK  BY DEF IndInv, TypeOK
<1>o. /\ Occupied \in Nat /\ Occupied <= Capacity
      /\ ppc \in {"write", "publish"} => Occupied < Capacity
      /\ cpc \in {"read", "release"} => Occupied > 0
      /\ Occupied = Dist(tail, head)
  BY OccupiedBounds DEF IndInv, Occupied
<1>s. SlotsHold  BY DEF IndInv
<1>d. \A c \in Counter : Dist(tail, c) \in Nat
  BY <1>0, DistValue DEF Counter
<1>1. ASSUME NEW v \in Value, CallPush(v) PROVE SlotsHold'
  BY <1>s, <1>1 DEF SlotsHold, CallPush, consumerVars, Dist, Slot, Occupied, Counter
<1>2. CASE CheckRoom
  BY <1>s, <1>2 DEF SlotsHold, CheckRoom, LoadTail, consumerVars, Dist, Slot, Occupied, Counter
<1>3. CASE WriteSlot
  <2>1. /\ UNCHANGED <<head, tail, item, cpc, reg>> /\ Occupied < Capacity
        /\ ppc' = "publish" /\ buf' = [buf EXCEPT ![Slot(head)] = item]
        /\ item \in Value
    BY <1>3, <1>o, <1>0 DEF WriteSlot, consumerVars, TypeOK
  <2>2. ASSUME NEW c \in Counter, Dist(tail, c) < Occupied
        PROVE  Slot(c) # Slot(head)
    <3>1. Dist(c, head) = Occupied - Dist(tail, c)
      BY <2>2, <1>0, <1>o, <1>d, DistAdds
    <3>2. Dist(c, head) > 0 /\ Dist(c, head) < Capacity
      BY <3>1, <2>1, <2>2, <1>d, <1>o, ModulusFacts
    <3> QED  BY <3>2, <1>0, SlotsDiffer
  <2>3. \A c \in Counter : Slot(c) \in 0 .. Capacity - 1  BY SlotRange
  <2>4. buf'[Slot(head)] = item
    BY <2>1, <2>3, <1>0 DEF TypeOK
  <2>5. \A c \in Counter : Slot(c) # Slot(head) => buf'[Slot(c)] = buf[Slot(c)]
    BY <2>1, <2>3, <1>0 DEF TypeOK
  <2>6. cpc = "release" => Slot(tail) # Slot(head)
    BY <2>2, <1>0, <1>o, DistMoves
  <2> QED
    BY <1>s, <2>1, <2>2, <2>4, <2>5, <2>6, <1>0
    DEF SlotsHold, Dist, Slot, Occupied, Counter
<1>4. CASE PublishHead
  <2>1. /\ UNCHANGED <<buf, tail, cpc, reg>> /\ ppc' = "idle"
        /\ head' = Next1(head) /\ buf[Slot(head)] \in Value
        /\ Occupied < Capacity
    BY <1>4, <1>o, <1>0, <1>s DEF SlotsHold, PublishHead, consumerVars, TypeOK
  <2>2. Dist(tail, head') = Occupied + 1
    BY <2>1, <1>0, <1>o, DistMoves
  <2>3. ASSUME NEW c \in Counter, Dist(tail, c) < Occupied + 1
        PROVE  buf[Slot(c)] \in Value
    <3>1. CASE Dist(tail, c) < Occupied  BY <3>1, <1>s DEF SlotsHold
    <3>2. CASE Dist(tail, c) = Occupied
      <4>1. Dist(c, head) = 0  BY <3>2, <1>0, <1>o, DistAdds
      <4> QED  BY <4>1, <1>0, <2>1, DistMoves
    <3> QED  BY <3>1, <3>2, <2>3, <1>d, <1>o
  <2> QED  BY <1>s, <2>1, <2>2, <2>3 DEF SlotsHold, Occupied, Dist, Slot, Counter
<1>5. CASE CheckEmpty
  BY <1>s, <1>5 DEF SlotsHold, CheckEmpty, LoadHead, producerVars, Dist, Slot, Occupied, Counter
<1>6. CASE ReadSlot
  BY <1>s, <1>6 DEF SlotsHold, ReadSlot, producerVars, Dist, Slot, Occupied, Counter
<1>7. CASE ReleaseSlot
  <2>1. /\ UNCHANGED <<buf, head, ppc, item>> /\ cpc' = "poll"
        /\ tail' = Next1(tail) /\ Occupied > 0
    BY <1>7, <1>o DEF ReleaseSlot, producerVars
  <2>2. tail' \in Counter /\ Dist(tail', head) = Occupied - 1
    BY <2>1, <1>0, <1>o, DistMoves, Next1Value
  <2>3. ASSUME NEW c \in Counter, Dist(tail', c) < Dist(tail', head)
        PROVE  buf[Slot(c)] \in Value
    <3>1. CASE Dist(tail, c) = 0
      BY <3>1, <1>s, <1>o, <2>1 DEF SlotsHold
    <3>2. CASE Dist(tail, c) > 0
      <4>1. Dist(tail', c) = Dist(tail, c) - 1  BY <2>1, <3>2, <1>0, DistMoves
      <4>2. Dist(tail, c) < Occupied
        BY <4>1, <2>2, <2>3, <1>d, <1>o
      <4> QED  BY <4>2, <1>s DEF SlotsHold
    <3> QED  BY <3>1, <3>2, <1>d
  <2> QED  BY <1>s, <2>1, <2>3 DEF SlotsHold, Occupied, Dist, Slot, Counter
<1>8. CASE UNCHANGED vars
  BY <1>s, <1>8
  DEF SlotsHold, vars, producerVars, consumerVars, Dist, Slot, Occupied, Counter
<1> QED  BY <1>1, <1>2, <1>3, <1>4, <1>5, <1>6, <1>7, <1>8 DEF Next, Push, Pop

LEMMA InitInv == Init => IndInv
<1> SUFFICES ASSUME Init PROVE IndInv  OBVIOUS
<1>1. 0 \in Counter /\ Dist(0, 0) = 0
  BY ModulusFacts, DistValue DEF Counter
<1>2. TypeOK
  BY <1>1 DEF Init, TypeOK
<1>3. Capacity \in Nat \ {0}
  BY RingAssumption
<1>4. CountersOrdered /\ ChecksHold
  BY <1>1, <1>3 DEF Init, CountersOrdered, ChecksHold
<1>5. SlotsHold
  <2>1. \A c \in Counter : Dist(0, c) \in Nat
    BY <1>1, DistValue DEF Counter
  <2> QED
    BY <1>1, <2>1 DEF Init, SlotsHold, Occupied
<1> QED
  BY <1>2, <1>4, <1>5 DEF IndInv

(* The inductive invariant holds in every reachable state.                 *)
THEOREM Inductive == Spec => []IndInv
<1>1. IndInv /\ [Next]_vars => IndInv'
  BY TypeInvariance, CountersInvariance, SlotsInvariance DEF IndInv
<1> QED  BY InitInv, <1>1, PTL DEF Spec

(* Type correctness of the ring.                                           *)
THEOREM TypeCorrect == Spec => []TypeOK
<1>1. IndInv => TypeOK  BY DEF IndInv
<1> QED  BY Inductive, <1>1, PTL

(* The dispatcher and the worker never touch one slot at the same time.    *)
THEOREM RaceFree == Spec => []NoSlotRace
<1>1. IndInv => NoSlotRace  BY NoRaceFromInv
<1> QED  BY Inductive, <1>1, PTL

(* The ring never holds more than its capacity, stale loads and wrapped    *)
(* counters included.                                                      *)
THEOREM Bounded == Spec => []NeverOverfull
<1>1. IndInv => NeverOverfull  BY NoRaceFromInv
<1> QED  BY Inductive, <1>1, PTL

-----------------------------------------------------------------------------
(* The counter n places after a.                                           *)
LEMMA PlaceAfter ==
    ASSUME NEW a \in Counter, NEW n \in Nat, n < Modulus
    PROVE  /\ Ahead(a, n) \in Counter
           /\ Dist(a, Ahead(a, n)) = n
           /\ Ahead(Next1(a), n) = Ahead(a, n + 1)
<1> DEFINE p == Ahead(a, n)
<1>1. Modulus \in Nat /\ Modulus > 1 /\ a \in Nat /\ a < Modulus
  BY ModulusFacts DEF Counter
<1>2. p = IF a + n >= Modulus THEN a + n - Modulus ELSE a + n
  BY <1>1 DEF Ahead
<1>3. p \in Counter  BY <1>1, <1>2 DEF Counter
<1>4. Dist(a, p) = IF p >= a THEN p - a ELSE p - a + Modulus
  BY <1>3, DistValue
<1>5. Dist(a, p) = n  BY <1>1, <1>2, <1>4
<1>6. Ahead(Next1(a), n) = Ahead(a, n + 1)
  BY <1>1, Next1Value DEF Ahead
<1> QED  BY <1>3, <1>5, <1>6

(* The queue the ring implements, element by element.                      *)
LEMMA ContentsFacts ==
    ASSUME IndInv
    PROVE  /\ contents \in Seq(Value)
           /\ Len(contents) = Occupied
           /\ \A i \in 1 .. Occupied : contents[i] = buf[Slot(Ahead(tail, i - 1))]
<1>1. Occupied \in Nat /\ Occupied <= Capacity  BY OccupiedBounds DEF IndInv
<1>2. Modulus \in Nat /\ Capacity \in Nat /\ Capacity < Modulus  BY ModulusFacts
<1>3. tail \in Counter  BY DEF IndInv, TypeOK
<1>4. ASSUME NEW i \in 1 .. Occupied
      PROVE  buf[Slot(Ahead(tail, i - 1))] \in Value
  <2>1. i - 1 \in Nat /\ i - 1 < Modulus /\ i - 1 < Occupied  BY <1>1, <1>2
  <2>2. /\ Ahead(tail, i - 1) \in Counter
        /\ Dist(tail, Ahead(tail, i - 1)) = i - 1
    BY <2>1, <1>3, PlaceAfter
  <2> QED  BY <2>1, <2>2 DEF IndInv, SlotsHold
<1> QED  BY <1>1, <1>4 DEF contents

(* Every step of the ring is a step of the bounded queue, or leaves the    *)
(* queue alone: the store to head_ is the put, the store to tail_ the get. *)
LEMMA StepRefines ==
    IndInv /\ [Next]_vars => [Fifo!FifoNext]_(Fifo!fifoVars)
<1> SUFFICES ASSUME IndInv, [Next]_vars
             PROVE  [Fifo!FifoNext]_(Fifo!fifoVars)
  OBVIOUS
<1>0. /\ head \in Counter /\ tail \in Counter /\ TypeOK /\ SlotsHold
      /\ Modulus \in Nat /\ Capacity \in Nat /\ Capacity < Modulus
      /\ tail \in Nat
  BY ModulusFacts DEF IndInv, TypeOK, Counter
<1>o. /\ Occupied \in Nat /\ Occupied <= Capacity
      /\ ppc \in {"write", "publish"} => Occupied < Capacity
      /\ cpc \in {"read", "release"} => Occupied > 0
      /\ Occupied = Dist(tail, head)
  BY OccupiedBounds DEF IndInv, Occupied
<1>c. /\ contents \in Seq(Value) /\ Len(contents) = Occupied
      /\ \A i \in 1 .. Occupied :
           contents[i] = buf[Slot(Ahead(tail, i - 1))]
  BY ContentsFacts
<1>p. ASSUME NEW n \in Nat, n < Capacity
      PROVE  /\ Ahead(tail, n) \in Counter
             /\ Dist(tail, Ahead(tail, n)) = n
             /\ Ahead(Next1(tail), n) = Ahead(tail, n + 1)
  <2>1. n < Modulus  BY <1>p, <1>0
  <2> QED  BY <2>1, <1>0, PlaceAfter
<1> USE DEF Fifo!fifoVars
<1>1. ASSUME NEW v \in Value, CallPush(v) PROVE UNCHANGED <<contents, out>>
  BY <1>1 DEF CallPush, consumerVars, contents, Occupied
<1>2. ASSUME CheckRoom PROVE UNCHANGED <<contents, out>>
  BY <1>2 DEF CheckRoom, LoadTail, consumerVars, contents, Occupied
<1>3. ASSUME WriteSlot PROVE UNCHANGED <<contents, out>>
  <2>1. /\ UNCHANGED <<head, tail, out>>
        /\ buf' = [buf EXCEPT ![Slot(head)] = item] /\ Occupied < Capacity
    BY <1>3, <1>o DEF WriteSlot, consumerVars
  <2>2. ASSUME NEW i \in 1 .. Occupied
        PROVE  buf'[Slot(Ahead(tail, i - 1))] = buf[Slot(Ahead(tail, i - 1))]
    <3> DEFINE p == Ahead(tail, i - 1)
    <3>0. i - 1 \in Nat /\ i - 1 < Capacity /\ i - 1 <= Occupied  BY <1>0, <1>o
    <3>1. p \in Counter /\ Dist(tail, p) = i - 1  BY <3>0, <1>p
    <3>2. Dist(p, head) = Occupied - (i - 1)
      <4>1. Dist(tail, p) <= Dist(tail, head)  BY <3>0, <3>1, <1>o
      <4>2. Dist(p, head) = Dist(tail, head) - Dist(tail, p)
        BY <4>1, <3>1, <1>0, DistAdds
      <4> QED  BY <4>2, <3>1, <1>o
    <3>3. Dist(p, head) > 0 /\ Dist(p, head) < Capacity
      BY <3>2, <2>1, <1>o, <1>0
    <3>4. Slot(p) # Slot(head)  BY <3>1, <3>3, <1>0, SlotsDiffer
    <3>5. Slot(p) \in 0 .. Capacity - 1  BY <3>1, SlotRange
    <3> QED  BY <3>4, <3>5, <2>1, <1>0 DEF TypeOK
  <2> QED  BY <2>1, <2>2, <1>o DEF contents, Occupied
<1>4. ASSUME PublishHead PROVE item \in Value /\ Fifo!Put(item)
  <2>1. /\ UNCHANGED <<buf, tail, out>> /\ head' = Next1(head)
        /\ Occupied < Capacity /\ buf[Slot(head)] = item /\ item \in Value
    BY <1>4, <1>o, <1>0 DEF PublishHead, consumerVars, SlotsHold, TypeOK
  <2>2. Occupied' = Occupied + 1
    BY <2>1, <1>0, <1>o, DistMoves DEF Occupied
  <2>3. head = Ahead(tail, Occupied)
    <3> DEFINE p == Ahead(tail, Occupied)
    <3>1. p \in Counter /\ Dist(tail, p) = Occupied  BY <2>1, <1>o, <1>p
    <3>2. Dist(p, head) = 0
      <4>1. Dist(tail, p) <= Dist(tail, head)  BY <3>1, <1>o
      <4>2. Dist(p, head) = Dist(tail, head) - Dist(tail, p)
        BY <4>1, <3>1, <1>0, DistAdds
      <4> QED  BY <4>2, <3>1, <1>o
    <3> QED  BY <3>1, <3>2, <1>0, DistMoves
  <2>4. contents' = [i \in 1 .. Occupied + 1 |-> buf[Slot(Ahead(tail, i - 1))]]
    BY <2>1, <2>2 DEF contents
  <2>5. /\ Append(contents, item) \in Seq(Value)
        /\ Len(Append(contents, item)) = Occupied + 1
        /\ \A i \in 1 .. Occupied : Append(contents, item)[i] = contents[i]
        /\ Append(contents, item)[Occupied + 1] = item
    BY <1>c, <2>1, AppendProperties
  <2>6. ASSUME NEW i \in 1 .. Occupied + 1
        PROVE  contents'[i] = Append(contents, item)[i]
    <3>1. CASE i \in 1 .. Occupied
      <4>1. contents'[i] = contents[i]  BY <3>1, <2>4, <1>c
      <4> QED  BY <4>1, <3>1, <2>5
    <3>2. CASE i = Occupied + 1
      <4>0. i - 1 = Occupied  BY <3>2, <1>o
      <4>1. contents'[i] = item  BY <4>0, <2>1, <2>3, <2>4
      <4> QED  BY <4>1, <3>2, <2>5
    <3>3. i \in 1 .. Occupied \/ i = Occupied + 1  BY <1>o
    <3> QED  BY <3>1, <3>2, <3>3
  <2>7. contents' \in Seq(Value) /\ Len(contents') = Occupied + 1
    <3>1. \A i \in 1 .. Occupied + 1 : contents'[i] \in Value
      BY <2>5, <2>6, ElementOfSeq
    <3> QED  BY <3>1, <2>4, <1>o
  <2>8. contents' = Append(contents, item)
    BY <2>5, <2>6, <2>7, SeqEqual
  <2> QED  BY <2>1, <2>8, <1>c DEF Fifo!Put
<1>5. ASSUME CheckEmpty PROVE UNCHANGED <<contents, out>>
  BY <1>5 DEF CheckEmpty, LoadHead, producerVars, contents, Occupied
<1>6. ASSUME ReadSlot PROVE UNCHANGED <<contents, out>>
  BY <1>6 DEF ReadSlot, producerVars, contents, Occupied
<1>7. ASSUME ReleaseSlot PROVE Fifo!Get
  <2>1. /\ UNCHANGED <<buf, head>> /\ tail' = Next1(tail) /\ out' = reg
        /\ Occupied > 0 /\ buf[Slot(tail)] = reg
    BY <1>7, <1>o, <1>0 DEF ReleaseSlot, producerVars, SlotsHold
  <2>2. Occupied' = Occupied - 1
    BY <2>1, <1>0, <1>o, DistMoves DEF Occupied
  <2>3. tail = Ahead(tail, 0)
    BY <1>0 DEF Counter, Ahead
  <2>4. contents # << >> /\ out' = Head(contents)
    BY <2>1, <2>3, <1>c, <1>o
  <2>5. contents' = [i \in 1 .. Occupied - 1 |->
                       buf[Slot(Ahead(Next1(tail), i - 1))]]
    BY <2>1, <2>2 DEF contents
  <2>6. /\ Tail(contents) \in Seq(Value) /\ Len(Tail(contents)) = Occupied - 1
        /\ \A i \in 1 .. Occupied - 1 : Tail(contents)[i] = contents[i + 1]
    BY <1>c, <2>4, HeadTailProperties
  <2>7. ASSUME NEW i \in 1 .. Occupied - 1
        PROVE  contents'[i] = Tail(contents)[i]
    <3>1. i + 1 \in 1 .. Occupied /\ i - 1 \in Nat /\ i - 1 < Capacity
      BY <1>0, <1>o
    <3>2. contents'[i] = buf[Slot(Ahead(tail, (i - 1) + 1))]
      BY <2>5, <3>1, <1>p
    <3>3. (i - 1) + 1 = (i + 1) - 1  OBVIOUS
    <3> QED  BY <3>1, <3>2, <3>3, <2>6, <1>c
  <2>8. contents' \in Seq(Value) /\ Len(contents') = Occupied - 1
    <3>1. \A i \in 1 .. Occupied - 1 : contents'[i] \in Value
      BY <2>6, <2>7, ElementOfSeq
    <3> QED  BY <3>1, <2>1, <2>5, <1>o
  <2>9. contents' = Tail(contents)
    BY <2>6, <2>7, <2>8, SeqEqual
  <2> QED  BY <2>4, <2>9 DEF Fifo!Get
<1>8. ASSUME UNCHANGED vars PROVE UNCHANGED <<contents, out>>
  BY <1>8 DEF vars, producerVars, consumerVars, contents, Occupied
<1> QED
  BY <1>1, <1>2, <1>3, <1>4, <1>5, <1>6, <1>7, <1>8
  DEF Next, Push, Pop, Fifo!FifoNext

(* The ring refines the bounded first-in first-out queue.                  *)
THEOREM Refinement == Spec => FifoSpec
<1>1. Init => Fifo!FifoInit
  <2> SUFFICES ASSUME Init PROVE Fifo!FifoInit  OBVIOUS
  <2>1. Occupied = 0
    BY ModulusFacts, DistMoves DEF Init, Occupied, Counter
  <2> QED  BY <2>1 DEF Init, contents, Fifo!FifoInit
<1> QED  BY <1>1, Inductive, StepRefines, PTL DEF Spec, FifoSpec, Fifo!FifoSpec
=============================================================================

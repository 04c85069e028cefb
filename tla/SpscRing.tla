------------------------------ MODULE SpscRing ------------------------------
(***************************************************************************)
(* include/spsc.h: the single-producer single-consumer ring between the    *)
(* dispatching thread and one shard worker (src/lib_stage01_to_gpu.cpp).   *)
(*                                                                         *)
(* The steps are the atomic accesses of try_push and try_pop: load the     *)
(* other side's counter, touch the slot, publish one's own counter.  The   *)
(* counters are size_t and wrap: they are kept modulo Modulus, 2^64 in the *)
(* program, which the capacity, a power of two, divides.  A load of the    *)
(* other side's counter may return any value since the one this thread     *)
(* saw last, which is all that C++ promises of an acquire load.            *)
(***************************************************************************)
EXTENDS Integers, Sequences

CONSTANTS Value,      \* what the ring carries (ShardMsg)
          NoValue,    \* an empty slot, an empty register
          Capacity,   \* cap_
          Laps        \* how often the counters go round the ring before they wrap

ASSUME RingAssumption ==
    /\ NoValue \notin Value
    /\ Capacity \in Nat \ {0}
    /\ Laps \in Nat \ {0, 1}

VARIABLES buf,      \* buf_
          head,     \* head_: counter of the next slot to fill
          tail,     \* tail_: counter of the next slot to empty
          ppc,      \* the producer: outside push, or at its next access
          item,     \* the value being pushed
          seenTail, \* the producer's last view of tail_
          cpc,      \* the consumer, likewise
          seenHead, \* the consumer's last view of head_
          reg,      \* the value read from the slot, not yet returned
          out       \* the value the last successful try_pop returned

producerVars == <<head, ppc, item, seenTail>>
consumerVars == <<tail, cpc, seenHead, reg, out>>
vars == <<buf, producerVars, consumerVars>>

Modulus == Capacity * Laps               \* 2^width of size_t
Counter == 0 .. Modulus - 1
Slot(c) == c % Capacity                  \* c & mask_
Next1Unwrapped(c) == c + 1                           \* mutant: no wrap
Next1(c) == (c + 1) % Modulus
Dist(a, b) == (b - a) % Modulus          \* b - a in size_t arithmetic

\* What a load of a counter now at `now` may return, `seen` being the last view.
Loadable(seen, now) == {c \in Counter : Dist(seen, c) <= Dist(seen, now)}

TypeOK ==
    /\ buf \in [0 .. Capacity - 1 -> Value \cup {NoValue}]
    /\ head \in Counter /\ tail \in Counter
    /\ seenTail \in Counter /\ seenHead \in Counter
    /\ ppc \in {"idle", "check", "write", "publish"}
    /\ item \in Value \cup {NoValue}
    /\ ppc # "idle" => item \in Value
    /\ cpc \in {"poll", "read", "release"}
    /\ reg \in Value \cup {NoValue}
    /\ out \in Value \cup {NoValue}

Init ==
    /\ buf = [s \in 0 .. Capacity - 1 |-> NoValue]
    /\ head = 0 /\ tail = 0 /\ seenTail = 0 /\ seenHead = 0
    /\ ppc = "idle" /\ item = NoValue
    /\ cpc = "poll" /\ reg = NoValue /\ out = NoValue

-----------------------------------------------------------------------------
(* The producer: push(v), which repeats try_push until there is room.      *)

CallPush(v) ==
    /\ ppc = "idle"
    /\ ppc' = "check" /\ item' = v
    /\ UNCHANGED <<buf, head, seenTail, consumerVars>>

LoadTail ==
    /\ ppc = "check"
    /\ seenTail' \in Loadable(seenTail, tail)
    /\ UNCHANGED <<buf, head, item, consumerVars>>

\* Mutant: h - t > cap_ for h - t >= cap_.
CheckRoomOffByOne ==
    LoadTail /\ ppc' = IF Dist(seenTail', head) > Capacity THEN "check" ELSE "write"

\* tail_.load(acquire) and the full check: full goes round the loop again.
CheckRoom ==
    LoadTail /\ ppc' = IF Dist(seenTail', head) >= Capacity THEN "check" ELSE "write"

\* Mutant: head_ is published before the slot is written.
WriteSlotLate ==
    /\ ppc = "write"
    /\ ppc' = "publish"
    /\ UNCHANGED <<buf, head, item, seenTail, consumerVars>>

WriteSlot ==
    /\ ppc = "write"
    /\ buf' = [buf EXCEPT ![Slot(head)] = item]
    /\ ppc' = "publish"
    /\ UNCHANGED <<head, item, seenTail, consumerVars>>

\* head_.store(h + 1, release): the value is in the ring.
PublishHead ==
    /\ ppc = "publish"
    /\ head' = Next1(head)
    /\ ppc' = "idle" /\ item' = NoValue
    /\ UNCHANGED <<buf, seenTail, consumerVars>>

-----------------------------------------------------------------------------
(* The consumer: the worker polls try_pop.                                 *)

LoadHead ==
    /\ cpc = "poll"
    /\ seenHead' \in Loadable(seenHead, head)
    /\ UNCHANGED <<buf, tail, reg, out, producerVars>>

\* Mutants: no empty check; the last value taken for an empty ring.
CheckEmptyDropped == LoadHead /\ cpc' = "read"
CheckEmptyOffByOne ==
    LoadHead /\ cpc' = IF Dist(tail, seenHead) <= 1 THEN "poll" ELSE "read"

\* head_.load(acquire) and the empty check: empty returns false.
CheckEmpty == LoadHead /\ cpc' = IF seenHead' = tail THEN "poll" ELSE "read"

ReadSlot ==
    /\ cpc = "read"
    /\ reg' = buf[Slot(tail)]
    /\ cpc' = "release"
    /\ UNCHANGED <<buf, tail, seenHead, out, producerVars>>

\* Mutant: the slot is read and never given back.
ReleaseSlotForgotten ==
    /\ cpc = "release"
    /\ out' = reg
    /\ cpc' = "poll"
    /\ UNCHANGED <<buf, tail, seenHead, reg, producerVars>>

\* tail_.store(t + 1, release): try_pop returns true.
ReleaseSlot ==
    /\ cpc = "release"
    /\ tail' = Next1(tail)
    /\ out' = reg
    /\ cpc' = "poll"
    /\ UNCHANGED <<buf, seenHead, reg, producerVars>>

Push == (\E v \in Value : CallPush(v)) \/ CheckRoom \/ WriteSlot \/ PublishHead
Pop == CheckEmpty \/ ReadSlot \/ ReleaseSlot

Next == Push \/ Pop

Spec == Init /\ [][Next]_vars

(* Both threads run; a store becomes visible to the other thread in finite *)
(* time, so a load that is repeated for ever is fresh sooner or later.     *)
FreshRoom == CheckRoom /\ seenTail' = tail
FreshHead == CheckEmpty /\ seenHead' = head

FairSpec ==
    /\ Spec
    /\ WF_vars(WriteSlot) /\ WF_vars(PublishHead) /\ SF_vars(FreshRoom)
    /\ WF_vars(ReadSlot) /\ WF_vars(ReleaseSlot) /\ SF_vars(FreshHead)

-----------------------------------------------------------------------------
(* The two threads never touch one slot at the same time: buf_ is not      *)
(* atomic, so this is what makes the ring free of data races.              *)
NoSlotRace ==
    ppc = "write" /\ cpc = "read" => Slot(head) # Slot(tail)

Occupied == Dist(tail, head)

(* The ring never holds more than its capacity, whatever stale counters    *)
(* the producer decided on.                                                *)
NeverOverfull == Occupied <= Capacity

(* The inductive invariant: seenTail <= tail <= seenHead <= head around    *)
(* the wrap, within one capacity; a side past its check has really room or *)
(* a value; what was written is still there when it is published, what was *)
(* read is still there when its slot is released.                          *)
CountersOrdered ==
    /\ Dist(seenTail, head) <= Capacity
    /\ Dist(seenTail, tail) <= Dist(seenTail, head)
    /\ Dist(tail, seenHead) <= Dist(tail, head)

ChecksHold ==
    /\ ppc \in {"write", "publish"} => Dist(seenTail, head) < Capacity
    /\ cpc \in {"read", "release"} => seenHead # tail

SlotsHold ==
    /\ ppc = "publish" => buf[Slot(head)] = item
    /\ cpc = "release" => buf[Slot(tail)] = reg
    /\ \A c \in Counter : Dist(tail, c) < Occupied => buf[Slot(c)] \in Value

IndInv == TypeOK /\ CountersOrdered /\ ChecksHold /\ SlotsHold

-----------------------------------------------------------------------------
(* The ring implements the bounded queue: a put takes effect when head_ is *)
(* stored, a get when tail_ is, and the queue is what lies between them.   *)
Ahead(c, n) == (c + n) % Modulus
contents == [i \in 1 .. Occupied |-> buf[Slot(Ahead(tail, i - 1))]]

Fifo == INSTANCE BoundedFifo WITH queue <- contents

FifoSpec == Fifo!FifoSpec

(* A push that has begun returns: with a worker that keeps popping, a full *)
(* ring never blocks the dispatcher for ever.                              *)
PushReturns == ppc = "check" ~> ppc = "idle"

(* A value in the ring is handed to the worker: the ring drains as long as *)
(* the worker polls.                                                       *)
RingDrains == \A v \in Value :
    (contents # << >> /\ contents[Len(contents)] = v) ~> out = v
=============================================================================

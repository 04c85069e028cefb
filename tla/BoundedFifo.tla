---------------------------- MODULE BoundedFifo ----------------------------
(***************************************************************************)
(* What a shard queue promises its two threads: a first-in first-out queue *)
(* of at most Capacity values.  One side puts, the other side gets; a put  *)
(* happens only while there is room, a get only while there is a value,    *)
(* and each is a single step.  SpscRing (include/spsc.h) implements it.    *)
(***************************************************************************)
EXTENDS Naturals, Sequences

CONSTANTS Value,      \* what the queue carries
          NoValue,    \* nothing has been delivered yet
          Capacity    \* how many values fit

VARIABLES queue,      \* the values put and not yet got, oldest first
          out         \* the value delivered last

fifoVars == <<queue, out>>

FifoInit == queue = << >> /\ out = NoValue

Put(v) == /\ Len(queue) < Capacity
          /\ queue' = Append(queue, v)
          /\ UNCHANGED out

Get == /\ queue # << >>
       /\ out' = Head(queue)
       /\ queue' = Tail(queue)

FifoNext == Get \/ \E v \in Value : Put(v)

FifoSpec == FifoInit /\ [][FifoNext]_fifoVars
=============================================================================

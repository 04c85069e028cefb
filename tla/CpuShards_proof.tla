-------------------------- MODULE CpuShards_proof --------------------------
(***************************************************************************)
(* The invariants of CpuShards, for every number of columns and shards,    *)
(* every ring and every number of events.                                  *)
(***************************************************************************)
EXTENDS CpuShards, InductionFacts, SequenceTheorems

-----------------------------------------------------------------------------
(* The strips.                                                             *)

LEMMA Sizes ==
    /\ Width \in Nat \ {0} /\ N \in Nat \ {0} /\ Halo \in Nat /\ Halo <= StripW
    /\ Window \in Nat \ {0} /\ CounterSize \in Nat \ {0}
    /\ QueueCap \in Nat \ {0} /\ MaxEvents \in Nat
BY ShardAssumption

LEMMA StripWidth == StripW \in Nat \ {0} /\ Width <= N * StripW
<1> DEFINE a == Width + N - 1
<1>1. a \in Nat /\ Width = (a - N) + 1 /\ a >= N /\ N \in Nat \ {0} /\ Width \in Nat
  BY Sizes
<1> HIDE DEF a
<1> DEFINE q == a \div N
<1>2. q \in Nat /\ q * N <= a /\ a < (q + 1) * N
  BY <1>1, QuotientIs
<1> HIDE DEF q
<1>3. (q + 1) * N = q * N + N /\ q * N = N * q /\ q * N \in Int
  BY <1>1, <1>2
<1>4. q # 0
  <2> SUFFICES ASSUME q = 0 PROVE FALSE
    OBVIOUS
  <2>1. q * N = 0
    BY <1>1
  <2> QED  BY <1>1, <1>2, <1>3, <2>1
<1>5. Width <= N * q
  BY <1>1, <1>2, <1>3
<1> QED  BY <1>2, <1>4, <1>5 DEF q, a, StripW

(* A column is in the strip of its owner.                                  *)
LEMMA OwnerIs ==
    ASSUME NEW x \in Column
    PROVE  /\ x \div StripW \in Shard /\ OwnerOf(x) = x \div StripW
           /\ (x \div StripW) * StripW <= x /\ x < (x \div StripW + 1) * StripW
<1>1. x \in Nat /\ x < Width
  BY Sizes DEF Column
<1> DEFINE q == x \div StripW
<1>2. q \in Nat /\ q * StripW <= x /\ x < (q + 1) * StripW
  BY <1>1, StripWidth, QuotientIs
<1> HIDE DEF q
<1>3. x < N * StripW /\ N \in Nat
  BY <1>1, StripWidth, Sizes
<1>4. q < N
  BY <1>1, <1>2, <1>3, StripWidth, QuotientBelow
<1>5. q \in Shard
  BY <1>2, <1>4, Sizes DEF Shard
<1>6. OwnerOf(x) = q
  BY <1>2, <1>4, Sizes DEF OwnerOf, Least, q
<1> QED  BY <1>2, <1>5, <1>6 DEF q

\* An event reaches its owner's shard and at most the two beside it.
LEMMA ReachIs ==
    ASSUME NEW x \in Column, NEW k \in Shard
    PROVE  /\ k = OwnerOf(x) => Reaches(k, x)
           /\ Reaches(k, x) => k - (x \div StripW) \in -1 .. 1
<1> DEFINE q == x \div StripW
           w == StripW
<1>1. q \in Shard /\ OwnerOf(x) = q /\ q * w <= x /\ x < (q + 1) * w
  BY OwnerIs
<1> HIDE DEF q
<1>2. q \in Int /\ k \in Int /\ w \in Nat /\ w > 0 /\ Halo \in Nat /\ Halo <= w /\ x \in Int
  BY <1>1, StripWidth, Sizes DEF Shard, Column
<1>3. k = OwnerOf(x) => Reaches(k, x)
  <2> SUFFICES ASSUME k = q PROVE Reaches(k, x)
    BY <1>1
  <2>1. q * w \in Int /\ (q + 1) * w \in Int
    BY <1>2
  <2> QED  BY <1>1, <1>2, <2>1 DEF Reaches
<1> HIDE DEF w
<1>4. ASSUME k * w - Halo <= x, x < (k + 1) * w + Halo PROVE k - q \in -1 .. 1
  <2>1. /\ (q + 1) * w = q * w + w /\ (k + 1) * w = k * w + w
        /\ q * w \in Int /\ k * w \in Int
    BY <1>2
  <2>2. k * w - w <= x /\ x < k * w + 2 * w
    BY <1>2, <1>4, <2>1
  <2>3. k * w < q * w + 2 * w /\ q * w < k * w + 2 * w
    BY <1>1, <1>2, <2>1, <2>2
  <2>4. (k - q) * w < 2 * w /\ (q - k) * w < 2 * w
    BY <1>2, <2>1, <2>3
  <2>5. ASSUME NEW d \in Int, d * w < 2 * w PROVE d < 2
    <3> SUFFICES ASSUME d >= 2 PROVE FALSE
      BY <2>5
    <3>1. PICK e \in Nat : d = 2 + e
      <4>1. d - 2 \in Nat /\ d = 2 + (d - 2)
        BY <2>5
      <4> QED  BY <4>1
    <3>2. d * w = 2 * w + e * w /\ e * w >= 0
      BY <1>2, <3>1
    <3> QED  BY <1>2, <2>5, <3>2
  <2>6. k - q < 2
    <3>1. k - q \in Int
      BY <1>2
    <3> QED  BY <2>4, <2>5, <3>1
  <2>7. q - k < 2
    <3>1. q - k \in Int
      BY <1>2
    <3> QED  BY <2>4, <2>5, <3>1
  <2> QED  BY <1>2, <2>6, <2>7
<1>5. Reaches(k, x) => k - q \in -1 .. 1
  BY <1>4 DEF Reaches, w
<1> QED  BY <1>3, <1>5 DEF q

\* With a halo of two, what is within two columns of an event reaches its owner.
LEMMA NearReaches ==
    ASSUME Halo >= 2, NEW x \in Column, NEW y \in Column, x - y \in -2 .. 2
    PROVE  Reaches(OwnerOf(x), y)
<1> DEFINE q == x \div StripW
           w == StripW
<1>1. q \in Shard /\ OwnerOf(x) = q /\ q * w <= x /\ x < (q + 1) * w
  BY OwnerIs
<1> HIDE DEF q
<1>2. q \in Int /\ w \in Int /\ Halo \in Int /\ x \in Int /\ y \in Int
  BY <1>1, StripWidth, Sizes DEF Shard, Column
<1>3. q * w \in Int /\ (q + 1) * w \in Int
  BY <1>2
<1>4. q * w - Halo <= y /\ y < (q + 1) * w + Halo
  BY <1>1, <1>2, <1>3
<1> QED  BY <1>1, <1>4 DEF Reaches

-----------------------------------------------------------------------------
(* Types.                                                                  *)

LEMMA SeqWider ==
    ASSUME NEW S, NEW T, S \subseteq T, NEW s \in Seq(S)
    PROVE  s \in Seq(T)
OBVIOUS

LEMMA OneCounted ==
    ASSUME NEW f \in [Column -> 0 .. CounterSize - 1], NEW c
    PROVE  Counted(f, c) \in [Column -> 0 .. CounterSize - 1]
<1>1. \A v \in 0 .. CounterSize - 1 : (v + 1) % CounterSize \in 0 .. CounterSize - 1
  <2> SUFFICES ASSUME NEW v \in 0 .. CounterSize - 1
               PROVE  (v + 1) % CounterSize \in 0 .. CounterSize - 1
    OBVIOUS
  <2>1. v + 1 \in Nat /\ CounterSize \in Nat \ {0}
    BY Sizes
  <2>2. (v + 1) % CounterSize \in Nat /\ (v + 1) % CounterSize < CounterSize
    BY <2>1, RemainderIs
  <2> QED  BY <2>1, <2>2
<1> QED  BY <1>1 DEF Counted

LEMMA TypesInit == Init => TypeOK
<1> SUFFICES ASSUME Init PROVE TypeOK
  OBVIOUS
<1>1. Len(dispatched) = 0 /\ Event = {}
  BY DEF Init, Event
<1>2. 0 \in 0 .. N /\ 0 \in 0 .. CounterSize - 1
  BY Sizes
<1>3. pushing \in [event : Event \cup {0}, dk : -1 .. 1]
  BY DEF Init, Idle
<1>4. count \in [Shard -> [owner : Nat, halo : Nat, pass0 : Nat, pass1 : Nat]]
  BY DEF Init
<1>5. queue \in [Shard -> Seq(Message)]
  BY DEF Init
<1>6. /\ s0done \in [Shard -> Seq(Event)] /\ s1done \in [Shard -> Seq(Event)]
      /\ tdrop0 \in [Shard -> [Column -> 0 .. CounterSize - 1]]
      /\ tdrop1 \in [Shard -> [Column -> 0 .. CounterSize - 1]]
      /\ survived \subseteq Event
  BY <1>2 DEF Init
<1>7. /\ dispatched \in Seq(Column) /\ synth = "off" /\ running = FALSE /\ nPushed = 0
      /\ worker \in [Shard -> {"loop", "returned"}] /\ main = "ready" /\ eofNext = 0
  BY DEF Init
<1> QED  BY <1>2, <1>3, <1>4, <1>5, <1>6, <1>7 DEF TypeOK

(* The flat list of the steps.                                             *)
ShardStep ==
    \/ (\E x \in Column : Generate(x)) \/ PushNext \/ SynthExit
    \/ (\E k \in Shard : Handle(k)) \/ (\E k \in Shard : TakeEof(k))
    \/ Start \/ Stop \/ JoinSynth \/ SendEof \/ BeginJoin \/ JoinWorkers
    \/ UNCHANGED vars

LEMMA ShardSteps == [Next]_vars => ShardStep
BY DEF Next, ShardStep, Shutdown, Ended

LEMMA TypesKept ==
    ASSUME TypeOK, UNCHANGED <<dispatched, pushing, nPushed, s0done, s1done, tdrop0, tdrop1, count,
                               survived>>,
           queue' \in [Shard -> Seq(Message)], worker' \in [Shard -> {"loop", "returned"}],
           synth' \in {"off", "loop", "exited"}, running' \in BOOLEAN, eofNext' \in 0 .. N,
           main' \in {"ready", "running", "stopping", "closing", "joining", "done"}
    PROVE  TypeOK'
<1>1. Event' = Event /\ Message' = Message
  BY DEF Event, Message
<1> QED  BY <1>1 DEF TypeOK

LEMMA TypesGenerate ==
    ASSUME TypeOK, NEW x \in Column, Generate(x)
    PROVE  TypeOK' /\ Event' = Event \cup {Len(dispatched')} /\ Len(dispatched') = Len(dispatched) + 1
           /\ \A e \in Event : dispatched'[e] = dispatched[e]
<1>1. /\ dispatched' = Append(dispatched, x) /\ pushing' = [event |-> Len(dispatched'), dk |-> -1]
      /\ UNCHANGED <<synth, nPushed, queue, worker, tdrop0, tdrop1, s0done, s1done, count, survived,
                     running, main, eofNext>>
  BY DEF Generate, shardVars, mainVars
<1>2. dispatched \in Seq(Column) /\ Len(dispatched) \in Nat
  BY DEF TypeOK
<1>3. dispatched' \in Seq(Column) /\ Len(dispatched') = Len(dispatched) + 1
  BY <1>1, <1>2
<1>4. Event' = Event \cup {Len(dispatched')}
  BY <1>2, <1>3 DEF Event
<1>5. \A e \in Event : dispatched'[e] = dispatched[e]
  BY <1>1, <1>2 DEF Event
<1>6. Message \subseteq Message' /\ Event \subseteq Event'
  BY <1>4 DEF Message
<1>7. queue' \in [Shard -> Seq(Message')]
  <2>1. queue \in [Shard -> Seq(Message)]
    BY DEF TypeOK
  <2>2. \A k \in Shard : queue[k] \in Seq(Message')
    BY <1>6, <2>1, SeqWider
  <2> QED  BY <1>1, <2>1, <2>2
<1>8. s0done' \in [Shard -> Seq(Event')] /\ s1done' \in [Shard -> Seq(Event')]
  <2>1. s0done \in [Shard -> Seq(Event)] /\ s1done \in [Shard -> Seq(Event)]
    BY DEF TypeOK
  <2>2. \A k \in Shard : s0done[k] \in Seq(Event') /\ s1done[k] \in Seq(Event')
    BY <1>6, <2>1, SeqWider
  <2> QED  BY <1>1, <2>1, <2>2
<1>9. pushing' \in [event : Event' \cup {0}, dk : -1 .. 1]
  BY <1>1, <1>4
<1>10. survived' \subseteq Event'
  BY <1>1, <1>6 DEF TypeOK
<1>11. TypeOK'
  BY <1>1, <1>3, <1>7, <1>8, <1>9, <1>10 DEF TypeOK
<1> QED  BY <1>3, <1>4, <1>5, <1>11

LEMMA TypesPush ==
    ASSUME TypeOK, PushNext
    PROVE  TypeOK'
<1> DEFINE x == dispatched[pushing.event]
           k == (x \div StripW) + pushing.dk
           m == [event |-> pushing.event, owner |-> IsOwner(k, x)]
<1>1. /\ pushing.event # 0
      /\ IF Reaches(k, x) THEN queue' = [queue EXCEPT ![k] = Append(@, m)] ELSE UNCHANGED queue
      /\ IF pushing.dk < 1 THEN pushing' = [pushing EXCEPT !.dk = @ + 1] /\ UNCHANGED nPushed
         ELSE pushing' = Idle /\ nPushed' = nPushed + 1
      /\ UNCHANGED <<dispatched, synth, worker, tdrop0, tdrop1, s0done, s1done, count, survived,
                     running, main, eofNext>>
  BY DEF PushNext, shardVars, mainVars
<1>2. Event' = Event /\ Message' = Message
  BY <1>1 DEF Event, Message
<1>3. pushing \in [event : Event \cup {0}, dk : -1 .. 1] /\ nPushed \in Nat
  BY DEF TypeOK
<1>4. m \in Message
  <2>1. IsOwner(k, x) \in BOOLEAN
    BY DEF IsOwner
  <2>2. pushing.event \in Event
    BY <1>1, <1>3
  <2> QED  BY <2>1, <2>2 DEF Message
<1>5. queue' \in [Shard -> Seq(Message)]
  <2>1. queue \in [Shard -> Seq(Message)]
    BY DEF TypeOK
  <2> HIDE DEF m, k
  <2>2. \A j \in Shard : Append(queue[j], m) \in Seq(Message)
    BY <1>4, <2>1
  <2> QED  BY <1>1, <2>1, <2>2
<1>6. pushing' \in [event : Event \cup {0}, dk : -1 .. 1] /\ nPushed' \in Nat
  BY <1>1, <1>3 DEF Idle
<1> QED  BY <1>1, <1>2, <1>5, <1>6 DEF TypeOK

\* What a worker does with its oldest message.
LEMMA HandleIs ==
    ASSUME TypeOK, NEW k \in Shard, Handle(k)
    PROVE  LET m == Head(queue[k])
               x == dispatched[m.event]
               c1 == Pooled(x)
               c2 == Pooled(c1)
               pass0 == m.owner /\ Passes(tdrop0[k][c1])
               pass1 == pass0 /\ Passes(tdrop1[k][c2])
           IN  /\ queue[k] \in Seq(Message) /\ queue[k] # << >>
               /\ m \in Message /\ m # Eof /\ m.event \in Event /\ m.owner \in BOOLEAN
               /\ x \in Column /\ c1 \in Column /\ c2 \in Column
               /\ worker[k] = "loop"
               /\ queue' = [queue EXCEPT ![k] = Tail(@)]
               /\ s0done' = [s0done EXCEPT ![k] = Append(@, m.event)]
               /\ tdrop0' = IF m.owner THEN [tdrop0 EXCEPT ![k] = Counted(@, c1)] ELSE tdrop0
               /\ s1done' = IF pass0 THEN [s1done EXCEPT ![k] = Append(@, m.event)] ELSE s1done
               /\ tdrop1' = IF pass0 THEN [tdrop1 EXCEPT ![k] = Counted(@, c2)] ELSE tdrop1
               /\ survived' = IF pass1 THEN survived \cup {m.event} ELSE survived
               /\ count' = [count EXCEPT ![k] =
                      [owner |-> @.owner + (IF m.owner THEN 1 ELSE 0),
                       halo |-> @.halo + (IF m.owner THEN 0 ELSE 1),
                       pass0 |-> @.pass0 + (IF pass0 THEN 1 ELSE 0),
                       pass1 |-> @.pass1 + (IF pass1 THEN 1 ELSE 0)]]
               /\ UNCHANGED <<dispatched, pushing, synth, nPushed, worker, running, main, eofNext>>
<1> DEFINE m == Head(queue[k])
           x == dispatched[m.event]
           c1 == Pooled(x)
           c2 == Pooled(c1)
           pass0 == m.owner /\ Passes(tdrop0[k][c1])
           pass1 == pass0 /\ Passes(tdrop1[k][c2])
           one == [b \in BOOLEAN |-> IF b THEN 1 ELSE 0]
<1>1. queue[k] \in Seq(Message) /\ queue[k] # << >> /\ m # Eof /\ worker[k] = "loop"
  BY DEF TypeOK, Handle
<1>2. m \in Message
  BY <1>1
<1>3. m.event \in Event /\ m.owner \in BOOLEAN
  BY <1>1, <1>2 DEF Message
<1>4. x \in Column
  <2>1. dispatched \in Seq(Column) /\ m.event \in 1 .. Len(dispatched)
    BY <1>3 DEF TypeOK, Event
  <2> HIDE DEF m
  <2> QED  BY <2>1
<1>5. \A y \in Column : Pooled(y) \in Column
  BY Sizes DEF Column, Pooled
<1>6. c1 \in Column /\ c2 \in Column
  BY <1>4, <1>5
<1>7. pass0 \in BOOLEAN /\ pass1 \in BOOLEAN /\ (~m.owner) \in BOOLEAN
  BY <1>3 DEF Passes
<1>8. one[m.owner] = (IF m.owner THEN 1 ELSE 0) /\ one[~m.owner] = (IF m.owner THEN 0 ELSE 1)
  BY <1>3
<1>9. one[pass0] = (IF pass0 THEN 1 ELSE 0) /\ one[pass1] = (IF pass1 THEN 1 ELSE 0)
  BY <1>7
<1>10. /\ queue' = [queue EXCEPT ![k] = Tail(@)]
       /\ s0done' = [s0done EXCEPT ![k] = Append(@, m.event)]
       /\ tdrop0' = IF m.owner THEN [tdrop0 EXCEPT ![k] = Counted(@, c1)] ELSE tdrop0
       /\ s1done' = IF pass0 THEN [s1done EXCEPT ![k] = Append(@, m.event)] ELSE s1done
       /\ tdrop1' = IF pass0 THEN [tdrop1 EXCEPT ![k] = Counted(@, c2)] ELSE tdrop1
       /\ survived' = IF pass1 THEN survived \cup {m.event} ELSE survived
       /\ count' = [count EXCEPT ![k] =
              [owner |-> @.owner + one[m.owner], halo |-> @.halo + one[~m.owner],
               pass0 |-> @.pass0 + one[pass0], pass1 |-> @.pass1 + one[pass1]]]
       /\ UNCHANGED <<dispatched, pushing, synth, nPushed, worker, running, main, eofNext>>
  BY DEF Handle, dispatcherVars, mainVars
<1> HIDE DEF m, x, c1, c2, pass0, pass1, one
<1>11. count' = [count EXCEPT ![k] =
                    [owner |-> @.owner + (IF m.owner THEN 1 ELSE 0),
                     halo |-> @.halo + (IF m.owner THEN 0 ELSE 1),
                     pass0 |-> @.pass0 + (IF pass0 THEN 1 ELSE 0),
                     pass1 |-> @.pass1 + (IF pass1 THEN 1 ELSE 0)]]
  BY <1>8, <1>9, <1>10
<1> QED  BY <1>1, <1>2, <1>3, <1>4, <1>6, <1>10, <1>11 DEF m, x, c1, c2, pass0, pass1

LEMMA TypesHandle ==
    ASSUME TypeOK, NEW k \in Shard, Handle(k)
    PROVE  TypeOK'
<1> DEFINE m == Head(queue[k])
           x == dispatched[m.event]
           c1 == Pooled(x)
           c2 == Pooled(c1)
           pass0 == m.owner /\ Passes(tdrop0[k][c1])
           pass1 == pass0 /\ Passes(tdrop1[k][c2])
           E == Event
<1>1. /\ queue[k] \in Seq(Message) /\ queue[k] # << >> /\ m.event \in Event
      /\ queue' = [queue EXCEPT ![k] = Tail(@)]
      /\ s0done' = [s0done EXCEPT ![k] = Append(@, m.event)]
      /\ tdrop0' = IF m.owner THEN [tdrop0 EXCEPT ![k] = Counted(@, c1)] ELSE tdrop0
      /\ s1done' = IF pass0 THEN [s1done EXCEPT ![k] = Append(@, m.event)] ELSE s1done
      /\ tdrop1' = IF pass0 THEN [tdrop1 EXCEPT ![k] = Counted(@, c2)] ELSE tdrop1
      /\ survived' = IF pass1 THEN survived \cup {m.event} ELSE survived
      /\ count' = [count EXCEPT ![k] =
             [owner |-> @.owner + (IF m.owner THEN 1 ELSE 0),
              halo |-> @.halo + (IF m.owner THEN 0 ELSE 1),
              pass0 |-> @.pass0 + (IF pass0 THEN 1 ELSE 0),
              pass1 |-> @.pass1 + (IF pass1 THEN 1 ELSE 0)]]
      /\ UNCHANGED <<dispatched, pushing, synth, nPushed, worker, running, main, eofNext>>
  BY HandleIs
<1>2. Event' = Event /\ Message' = Message
  BY <1>1 DEF Event, Message
<1> DEFINE e == m.event
           own == m.owner
<1> HIDE DEF c1, c2, pass0, pass1, e, own
<1>3. queue' \in [Shard -> Seq(Message)]
  <2>1. queue \in [Shard -> Seq(Message)] /\ Tail(queue[k]) \in Seq(Message)
    BY <1>1 DEF TypeOK
  <2> QED  BY <1>1, <2>1
<1>4. /\ s0done \in [Shard -> Seq(Event)] /\ s1done \in [Shard -> Seq(Event)]
      /\ tdrop0 \in [Shard -> [Column -> 0 .. CounterSize - 1]]
      /\ tdrop1 \in [Shard -> [Column -> 0 .. CounterSize - 1]]
      /\ count \in [Shard -> [owner : Nat, halo : Nat, pass0 : Nat, pass1 : Nat]]
      /\ survived \subseteq Event
  BY DEF TypeOK
<1>5. e \in Event
  BY <1>1 DEF e
<1>6. s0done' \in [Shard -> Seq(Event)]
  <2>1. Append(s0done[k], e) \in Seq(Event)
    BY <1>4, <1>5
  <2> QED  BY <1>1, <1>4, <2>1 DEF e
<1>7. s1done' \in [Shard -> Seq(Event)]
  <2>1. Append(s1done[k], e) \in Seq(Event)
    BY <1>4, <1>5
  <2> QED  BY <1>1, <1>4, <2>1 DEF e
<1>8. tdrop0' \in [Shard -> [Column -> 0 .. CounterSize - 1]]
  <2>1. Counted(tdrop0[k], c1) \in [Column -> 0 .. CounterSize - 1]
    BY <1>4, OneCounted
  <2> QED  BY <1>1, <1>4, <2>1
<1>9. tdrop1' \in [Shard -> [Column -> 0 .. CounterSize - 1]]
  <2>1. Counted(tdrop1[k], c2) \in [Column -> 0 .. CounterSize - 1]
    BY <1>4, OneCounted
  <2> QED  BY <1>1, <1>4, <2>1
<1>10. survived' \subseteq Event
  BY <1>1, <1>4
<1>11. count' \in [Shard -> [owner : Nat, halo : Nat, pass0 : Nat, pass1 : Nat]]
  <2> DEFINE C == [owner : Nat, halo : Nat, pass0 : Nat, pass1 : Nat]
             a == count[k].owner + (IF own THEN 1 ELSE 0)
             b == count[k].halo + (IF own THEN 0 ELSE 1)
             c == count[k].pass0 + (IF pass0 THEN 1 ELSE 0)
             d == count[k].pass1 + (IF pass1 THEN 1 ELSE 0)
  <2>1. a \in Nat /\ b \in Nat /\ c \in Nat /\ d \in Nat
    BY <1>4
  <2>2. count' = [count EXCEPT ![k] = [owner |-> a, halo |-> b, pass0 |-> c, pass1 |-> d]]
    BY <1>1 DEF own
  <2> HIDE DEF a, b, c, d
  <2>3. [owner |-> a, halo |-> b, pass0 |-> c, pass1 |-> d] \in C
    BY <2>1
  <2>4. \A r \in C : [count EXCEPT ![k] = r] \in [Shard -> C]
    BY <1>4
  <2> QED  BY <2>2, <2>3, <2>4
<1> QED  BY <1>1, <1>2, <1>3, <1>6, <1>7, <1>8, <1>9, <1>10, <1>11 DEF TypeOK

LEMMA TypesStep ==
    ASSUME TypeOK, [Next]_vars
    PROVE  TypeOK'
<1>1. /\ queue \in [Shard -> Seq(Message)] /\ worker \in [Shard -> {"loop", "returned"}]
      /\ synth \in {"off", "loop", "exited"} /\ running \in BOOLEAN /\ eofNext \in 0 .. N
      /\ main \in {"ready", "running", "stopping", "closing", "joining", "done"}
  BY DEF TypeOK
<1>2. ASSUME NEW x \in Column, Generate(x) PROVE TypeOK'
  BY <1>2, TypesGenerate
<1>3. ASSUME PushNext PROVE TypeOK'
  BY <1>3, TypesPush
<1>4. ASSUME NEW k \in Shard, Handle(k) PROVE TypeOK'
  BY <1>4, TypesHandle
<1>5. ASSUME NEW k \in Shard, TakeEof(k) PROVE TypeOK'
  <2>1. Tail(queue[k]) \in Seq(Message)
    BY <1>1, <1>5 DEF TakeEof
  <2>2. queue' = [queue EXCEPT ![k] = Tail(@)] /\ worker' = [worker EXCEPT ![k] = "returned"]
        /\ UNCHANGED <<dispatched, pushing, nPushed, s0done, s1done, tdrop0, tdrop1, count,
                       survived, synth, running, eofNext, main>>
    BY <1>5 DEF TakeEof, dispatcherVars, mainVars
  <2> QED  BY <1>1, <2>1, <2>2, TypesKept
<1>6. ASSUME SendEof PROVE TypeOK'
  <2>1. eofNext \in Shard /\ eofNext + 1 \in 0 .. N
    BY <1>1, <1>6, Sizes DEF SendEof, AllSent, Shard
  <2>2. Append(queue[eofNext], Eof) \in Seq(Message)
    <3>1. queue[eofNext] \in Seq(Message) /\ Eof \in Message
      BY <1>1, <2>1 DEF Message
    <3> QED  BY <3>1
  <2>3. queue' = [queue EXCEPT ![eofNext] = Append(@, Eof)] /\ eofNext' = eofNext + 1
        /\ UNCHANGED <<dispatched, pushing, nPushed, s0done, s1done, tdrop0, tdrop1, count,
                       survived, synth, running, worker, main>>
    BY <1>6 DEF SendEof, dispatcherVars, shardVars
  <2> QED  BY <1>1, <2>1, <2>2, <2>3, TypesKept
<1>7. ASSUME \/ SynthExit \/ Start \/ Stop \/ JoinSynth \/ BeginJoin \/ JoinWorkers
             \/ UNCHANGED vars
      PROVE  TypeOK'
  <2>1. UNCHANGED <<dispatched, pushing, nPushed, s0done, s1done, tdrop0, tdrop1, count,
                    survived, queue, worker, eofNext>>
    BY <1>7 DEF SynthExit, Start, Stop, JoinSynth, BeginJoin, JoinWorkers, vars, dispatcherVars,
       shardVars, mainVars
  <2>2. synth' \in {"off", "loop", "exited"} /\ running' \in BOOLEAN
        /\ main' \in {"ready", "running", "stopping", "closing", "joining", "done"}
    BY <1>1, <1>7 DEF SynthExit, Start, Stop, JoinSynth, BeginJoin, JoinWorkers, vars,
       dispatcherVars, shardVars, mainVars
  <2> QED  BY <1>1, <2>1, <2>2, TypesKept
<1>8. ShardStep
  BY ShardSteps
<1> QED  BY <1>2, <1>3, <1>4, <1>5, <1>6, <1>7, <1>8 DEF ShardStep

(* The variables keep their types, whatever the sizes.                     *)
THEOREM TypeCorrect == Spec => []TypeOK
<1>1. Init => TypeOK
  BY TypesInit
<1>2. TypeOK /\ [Next]_vars => TypeOK'
  BY TypesStep
<1> QED  BY <1>1, <1>2, PTL DEF Spec

-----------------------------------------------------------------------------
(* A shard's line: what its stage 0 has processed, then what waits for it. *)
Rising(s) == \A i, j \in 1 .. Len(s) : i < j => s[i] < s[j]

Waiting(q) == {q[i].event : i \in {j \in 1 .. Len(q) : q[j] # Eof}}

HasEof(q) == \E i \in 1 .. Len(q) : q[i] = Eof

\* The queue's messages are in order, an eof only at its end.
InOrder(q) ==
    \A i, j \in 1 .. Len(q) : i < j => q[i] # Eof /\ (q[j] # Eof => q[i].event < q[j].event)

Line(done, q, sent) ==
    /\ Rising(done) /\ InOrder(q)
    /\ \A e \in Elements(done) : \A n \in Waiting(q) : e < n
    /\ Elements(done) \cup Waiting(q) = sent

LEMMA ElementsAppend ==
    ASSUME NEW S, NEW s \in Seq(S), NEW e \in S
    PROVE  Elements(Append(s, e)) = Elements(s) \cup {e}
<1> DEFINE t == Append(s, e)
<1>1. /\ Len(s) \in Nat /\ Len(t) = Len(s) + 1 /\ t[Len(s) + 1] = e
      /\ \A i \in 1 .. Len(s) : t[i] = s[i]
  OBVIOUS
<1> HIDE DEF t
<1>2. Elements(t) \subseteq Elements(s) \cup {e}
  BY <1>1 DEF Elements
<1>3. e \in Elements(t)
  BY <1>1 DEF Elements
<1>4. Elements(s) \subseteq Elements(t)
  BY <1>1 DEF Elements
<1> QED  BY <1>2, <1>3, <1>4 DEF t

LEMMA RisingAppend ==
    ASSUME NEW S, S \subseteq Nat, NEW s \in Seq(S), NEW e \in S, Rising(s),
           \A n \in Elements(s) : n < e
    PROVE  Rising(Append(s, e))
<1> DEFINE t == Append(s, e)
<1>1. /\ Len(s) \in Nat /\ Len(t) = Len(s) + 1 /\ t[Len(s) + 1] = e
      /\ \A i \in 1 .. Len(s) : t[i] = s[i]
  OBVIOUS
<1>2. \A i \in 1 .. Len(s) : s[i] < e
  BY DEF Elements
<1> HIDE DEF t
<1>3. ASSUME NEW i \in 1 .. Len(t), NEW j \in 1 .. Len(t), i < j PROVE t[i] < t[j]
  <2>1. i \in 1 .. Len(s)
    BY <1>1, <1>3
  <2>2. CASE j = Len(s) + 1
    BY <1>1, <1>2, <2>1, <2>2
  <2>3. CASE j # Len(s) + 1
    <3>1. j \in 1 .. Len(s)
      BY <1>1, <2>3
    <3> QED  BY <1>1, <1>3, <2>1, <3>1 DEF Rising
  <2> QED  BY <2>2, <2>3
<1> QED  BY <1>3 DEF Rising, t

LEMMA TailIs ==
    ASSUME NEW M, NEW q \in Seq(M), q # << >>
    PROVE  /\ Len(q) \in Nat \ {0} /\ Len(Tail(q)) = Len(q) - 1 /\ Head(q) = q[1]
           /\ \A i \in 1 .. Len(Tail(q)) : Tail(q)[i] = q[i + 1]
OBVIOUS

\* Taking the oldest message leaves the rest in order, all of them later.
LEMMA TailInOrder ==
    ASSUME NEW M, NEW q \in Seq(M), q # << >>, InOrder(q)
    PROVE  /\ InOrder(Tail(q))
           /\ Head(q) = Eof => Tail(q) = << >> /\ Waiting(q) = {}
           /\ Head(q) # Eof => /\ Waiting(q) = {Head(q).event} \cup Waiting(Tail(q))
                               /\ \A n \in Waiting(Tail(q)) : Head(q).event < n
           /\ HasEof(Tail(q)) => HasEof(q)
<1> DEFINE t == Tail(q)
<1>1. /\ Len(q) \in Nat \ {0} /\ Len(t) = Len(q) - 1 /\ Head(q) = q[1]
      /\ \A i \in 1 .. Len(t) : t[i] = q[i + 1]
  BY TailIs
<1>2. t \in Seq(M)
  OBVIOUS
<1> HIDE DEF t
<1>3. \A i \in 1 .. Len(t) : i + 1 \in 1 .. Len(q) /\ 1 < i + 1
  BY <1>1
<1>4. InOrder(t)
  <2>1. ASSUME NEW i \in 1 .. Len(t), NEW j \in 1 .. Len(t), i < j
        PROVE  t[i] # Eof /\ (t[j] # Eof => t[i].event < t[j].event)
    <3>1. i + 1 \in 1 .. Len(q) /\ j + 1 \in 1 .. Len(q) /\ i + 1 < j + 1
      BY <1>1, <2>1
    <3>2. q[i + 1] # Eof /\ (q[j + 1] # Eof => q[i + 1].event < q[j + 1].event)
      BY <3>1 DEF InOrder
    <3> QED  BY <1>1, <3>2
  <2> QED  BY <2>1 DEF InOrder
<1>5. 1 \in 1 .. Len(q)
  BY <1>1
<1>6. Waiting(q) \subseteq (IF Head(q) # Eof THEN {Head(q).event} ELSE {}) \cup Waiting(t)
  <2> SUFFICES ASSUME NEW i \in 1 .. Len(q), q[i] # Eof
               PROVE  q[i].event \in (IF Head(q) # Eof THEN {Head(q).event} ELSE {}) \cup Waiting(t)
    BY DEF Waiting
  <2>1. CASE i = 1
    BY <1>1, <2>1
  <2>2. CASE i # 1
    <3>1. i - 1 \in 1 .. Len(t) /\ (i - 1) + 1 = i
      BY <1>1, <2>2
    <3>2. t[i - 1] = q[i]
      BY <1>1, <3>1
    <3> QED  BY <3>1, <3>2 DEF Waiting
  <2> QED  BY <2>1, <2>2
<1>7. Waiting(t) \subseteq Waiting(q)
  BY <1>1, <1>3 DEF Waiting
<1>8. Head(q) # Eof => Head(q).event \in Waiting(q)
  BY <1>1, <1>5 DEF Waiting
<1>9. Head(q) = Eof => t = << >> /\ Waiting(q) = {}
  <2> SUFFICES ASSUME Head(q) = Eof PROVE t = << >> /\ Waiting(q) = {}
    OBVIOUS
  <2>1. Len(t) = 0
    <3> SUFFICES ASSUME Len(t) # 0 PROVE FALSE
      OBVIOUS
    <3>1. 2 \in 1 .. Len(q) /\ 1 < 2
      BY <1>1
    <3> QED  BY <1>1, <1>5, <3>1 DEF InOrder
  <2>2. Len(q) = 1 /\ t = << >>
    BY <1>1, <1>2, <2>1
  <2>3. \A i \in 1 .. Len(q) : q[i] = Eof
    BY <1>1, <2>2
  <2> QED  BY <2>2, <2>3 DEF Waiting
<1>10. Head(q) # Eof => \A n \in Waiting(t) : Head(q).event < n
  BY <1>1, <1>3, <1>5 DEF InOrder, Waiting
<1>11. HasEof(t) => HasEof(q)
  BY <1>1, <1>3 DEF HasEof
<1> QED  BY <1>4, <1>6, <1>7, <1>8, <1>9, <1>10, <1>11 DEF t

LEMMA AppendInOrder ==
    ASSUME NEW M, NEW q \in Seq(M), NEW m \in M, InOrder(q), ~HasEof(q),
           m # Eof => \A n \in Waiting(q) : n < m.event
    PROVE  /\ InOrder(Append(q, m))
           /\ Waiting(Append(q, m)) = Waiting(q) \cup (IF m # Eof THEN {m.event} ELSE {})
           /\ HasEof(Append(q, m)) => m = Eof
<1> DEFINE t == Append(q, m)
<1>1. /\ Len(q) \in Nat /\ Len(t) = Len(q) + 1 /\ t[Len(q) + 1] = m
      /\ \A i \in 1 .. Len(q) : t[i] = q[i]
  OBVIOUS
<1> HIDE DEF t
<1>2. \A i \in 1 .. Len(q) : q[i] # Eof /\ q[i].event \in Waiting(q)
  BY DEF HasEof, Waiting
<1>3. InOrder(t)
  <2>1. ASSUME NEW i \in 1 .. Len(t), NEW j \in 1 .. Len(t), i < j
        PROVE  t[i] # Eof /\ (t[j] # Eof => t[i].event < t[j].event)
    <3>1. i \in 1 .. Len(q)
      BY <1>1, <2>1
    <3>2. CASE j = Len(q) + 1
      BY <1>1, <1>2, <3>1, <3>2
    <3>3. CASE j # Len(q) + 1
      <4>1. j \in 1 .. Len(q)
        BY <1>1, <3>3
      <4> QED  BY <1>1, <2>1, <3>1, <4>1 DEF InOrder
    <3> QED  BY <3>2, <3>3
  <2> QED  BY <2>1 DEF InOrder
<1>4. \A i \in 1 .. Len(t) : i \in 1 .. Len(q) \/ i = Len(q) + 1
  BY <1>1
<1>5. Len(q) + 1 \in 1 .. Len(t) /\ 1 .. Len(q) \subseteq 1 .. Len(t)
  BY <1>1
<1>6. Waiting(t) = Waiting(q) \cup (IF m # Eof THEN {m.event} ELSE {})
  <2>1. Waiting(t) \subseteq Waiting(q) \cup (IF m # Eof THEN {m.event} ELSE {})
    BY <1>1, <1>2, <1>4 DEF Waiting
  <2>2. Waiting(q) \subseteq Waiting(t)
    BY <1>1, <1>5 DEF Waiting
  <2>3. m # Eof => m.event \in Waiting(t)
    BY <1>1, <1>5 DEF Waiting
  <2> QED  BY <2>1, <2>2, <2>3
<1>7. HasEof(t) => m = Eof
  BY <1>1, <1>2, <1>4 DEF HasEof
<1> QED  BY <1>3, <1>6, <1>7 DEF t

\* The worker handles its oldest message.
LEMMA LineHandled ==
    ASSUME NEW E, E \subseteq Nat, NEW done \in Seq(E), NEW M, NEW q \in Seq(M), NEW sent,
           q # << >>, Head(q) # Eof, Head(q).event \in E, Line(done, q, sent)
    PROVE  /\ Line(Append(done, Head(q).event), Tail(q), sent)
           /\ Elements(Append(done, Head(q).event)) = Elements(done) \cup {Head(q).event}
           /\ \A n \in Elements(done) : n < Head(q).event
<1> DEFINE e == Head(q).event
<1>1. InOrder(Tail(q)) /\ Waiting(q) = {e} \cup Waiting(Tail(q)) /\ \A n \in Waiting(Tail(q)) : e < n
  BY TailInOrder DEF Line
<1>2. e \in E
  OBVIOUS
<1> HIDE DEF e
<1>3. \A n \in Elements(done) : n < e
  BY <1>1 DEF Line
<1>4. Rising(Append(done, e))
  BY <1>2, <1>3, RisingAppend DEF Line
<1>5. Elements(Append(done, e)) = Elements(done) \cup {e}
  BY <1>2, ElementsAppend
<1>6. \A n \in Elements(Append(done, e)) : \A l \in Waiting(Tail(q)) : n < l
  BY <1>1, <1>5 DEF Line
<1>7. Elements(Append(done, e)) \cup Waiting(Tail(q)) = sent
  BY <1>1, <1>5 DEF Line
<1>8. Line(Append(done, e), Tail(q), sent)
  BY <1>1, <1>4, <1>6, <1>7 DEF Line
<1> QED  BY <1>3, <1>5, <1>8 DEF e

\* The dispatcher pushes an event later than all it has sent this shard.
LEMMA LinePushed ==
    ASSUME NEW done, NEW M, NEW q \in Seq(M), NEW sent, NEW m \in M, m # Eof, ~HasEof(q),
           Line(done, q, sent), \A n \in sent : n < m.event
    PROVE  Line(done, Append(q, m), sent \cup {m.event}) /\ ~HasEof(Append(q, m))
<1>1. \A n \in Waiting(q) : n < m.event
  BY DEF Line
<1>2. /\ InOrder(Append(q, m)) /\ Waiting(Append(q, m)) = Waiting(q) \cup {m.event}
      /\ ~HasEof(Append(q, m))
  BY <1>1, AppendInOrder DEF Line
<1> QED  BY <1>2 DEF Line

\* The main thread appends eof; the worker takes it.
LEMMA LineEnded ==
    ASSUME NEW done, NEW M, NEW q \in Seq(M), NEW sent, Line(done, q, sent), Eof \in M
    PROVE  /\ ~HasEof(q) => Line(done, Append(q, Eof), sent)
           /\ q # << >> /\ Head(q) = Eof => Tail(q) = << >> /\ Line(done, Tail(q), sent)
<1>1. ASSUME ~HasEof(q) PROVE Line(done, Append(q, Eof), sent)
  <2>1. InOrder(Append(q, Eof)) /\ Waiting(Append(q, Eof)) = Waiting(q)
    BY <1>1, AppendInOrder DEF Line
  <2> QED  BY <2>1 DEF Line
<1>2. ASSUME q # << >>, Head(q) = Eof PROVE Tail(q) = << >> /\ Line(done, Tail(q), sent)
  <2>1. InOrder(Tail(q)) /\ Tail(q) = << >> /\ Waiting(q) = {}
    BY <1>2, TailInOrder DEF Line
  <2>2. Waiting(<< >>) = {}
    <3>1. \A i : i \notin 1 .. Len(<< >>)
      OBVIOUS
    <3> QED  BY <3>1 DEF Waiting
  <2> QED  BY <2>1, <2>2 DEF Line
<1> QED  BY <1>1, <1>2

-----------------------------------------------------------------------------
(* The inductive invariant of the flow: a shard's line holds exactly the   *)
(* events that reach it and were sent to it.                               *)
Closing == {"closing", "joining", "done"}

\* Of the events d, with the dispatcher at p, those shard k has been sent.
Sent(k, d, p) ==
    {e \in 1 .. Len(d) : /\ Reaches(k, d[e])
                         /\ e = p.event => k < (d[e] \div StripW) + p.dk}

\* An owner flag is set exactly in the messages to the owner.
Flags(k, q, d) ==
    \A i \in 1 .. Len(q) : q[i] # Eof => (q[i].owner <=> OwnerOf(d[q[i].event]) = k)

\* A shard that returned, or has its eof, was sent it by the main thread.
Ends(k, q, returned, at, n) ==
    /\ returned => q = << >>
    /\ returned \/ HasEof(q) => at \in Closing /\ k < n

Control ==
    /\ pushing.event = 0 => pushing = Idle
    /\ pushing.event # 0 => pushing.event = Len(dispatched) /\ synth = "loop"
    /\ main \in Closing => synth = "exited"
    /\ main = "ready" => synth = "off"
    /\ main \notin Closing => eofNext = 0
    /\ main = "done" => \A k \in Shard : worker[k] = "returned"
    /\ nPushed = Len(dispatched) - (IF pushing.event = 0 THEN 0 ELSE 1)

Lines == \A k \in Shard : Line(s0done[k], queue[k], Sent(k, dispatched, pushing))
AllFlags == \A k \in Shard : Flags(k, queue[k], dispatched)
AllEnds == \A k \in Shard : Ends(k, queue[k], worker[k] = "returned", main, eofNext)

FlowInv == TypeOK /\ Control /\ Lines /\ AllFlags /\ AllEnds

LEMMA SentGenerated ==
    ASSUME NEW d \in Seq(Column), NEW x \in Column, NEW k \in Shard
    PROVE  Sent(k, Append(d, x), [event |-> Len(Append(d, x)), dk |-> -1]) = Sent(k, d, Idle)
<1> DEFINE e == Append(d, x)
           p == [event |-> Len(e), dk |-> -1]
<1>1. /\ Len(d) \in Nat /\ Len(e) = Len(d) + 1 /\ e[Len(d) + 1] = x
      /\ \A i \in 1 .. Len(d) : e[i] = d[i]
  OBVIOUS
<1>2. p.event = Len(e) /\ p.dk = -1 /\ Idle.event = 0
  BY DEF Idle
<1>3. x \div StripW \in Int /\ k \in Int
  BY OwnerIs DEF Shard
<1>4. Reaches(k, x) => ~(k < (x \div StripW) + (-1))
  <2>1. Reaches(k, x) => k - (x \div StripW) \in -1 .. 1
    BY ReachIs
  <2> QED  BY <1>3, <2>1
<1> HIDE DEF e, p
<1>5. Sent(k, e, p) \subseteq Sent(k, d, Idle)
  <2> SUFFICES ASSUME NEW i \in Sent(k, e, p) PROVE i \in Sent(k, d, Idle)
    OBVIOUS
  <2>1. i \in 1 .. Len(e) /\ Reaches(k, e[i]) /\ (i = p.event => k < (e[i] \div StripW) + p.dk)
    BY DEF Sent
  <2>2. i # Len(d) + 1
    BY <1>1, <1>2, <1>4, <2>1
  <2>3. i \in 1 .. Len(d) /\ i # 0
    BY <1>1, <2>1, <2>2
  <2>4. e[i] = d[i]
    BY <1>1, <2>3
  <2> QED  BY <1>2, <2>1, <2>3, <2>4 DEF Sent
<1>6. Sent(k, d, Idle) \subseteq Sent(k, e, p)
  <2> SUFFICES ASSUME NEW i \in Sent(k, d, Idle) PROVE i \in Sent(k, e, p)
    OBVIOUS
  <2>1. i \in 1 .. Len(d) /\ Reaches(k, d[i])
    BY DEF Sent
  <2>2. i \in 1 .. Len(e) /\ i # Len(e) /\ e[i] = d[i]
    BY <1>1, <2>1
  <2> QED  BY <1>2, <2>1, <2>2 DEF Sent
<1> QED  BY <1>5, <1>6 DEF e, p

\* One round of the loop over dk: at most the shard it looks at is sent the event.
LEMMA SentPushed ==
    ASSUME NEW d \in Seq(Column), NEW k \in Shard, NEW i \in 1 .. Len(d), NEW dk \in -1 .. 1,
           NEW p, p.event = i, p.dk = dk,
           NEW r, IF dk < 1 THEN r.event = i /\ r.dk = dk + 1 ELSE r.event = 0
    PROVE  /\ Sent(k, d, r) = IF k = (d[i] \div StripW) + dk /\ Reaches(k, d[i])
                              THEN Sent(k, d, p) \cup {i} ELSE Sent(k, d, p)
           /\ k = (d[i] \div StripW) + dk => i \notin Sent(k, d, p)
<1>1. d[i] \in Column
  OBVIOUS
<1> DEFINE b == d[i] \div StripW
<1>2. b \in Int /\ k \in Int /\ dk \in Int
  BY <1>1, OwnerIs DEF Shard
<1>3. Reaches(k, d[i]) => k - b \in -1 .. 1
  BY <1>1, ReachIs
<1> HIDE DEF b
<1>4. \A n \in 1 .. Len(d) : n # i => (n \in Sent(k, d, r) <=> n \in Sent(k, d, p))
  BY DEF Sent
<1>5. i \in Sent(k, d, p) <=> Reaches(k, d[i]) /\ k < b + dk
  BY DEF Sent, b
<1>6. i \in Sent(k, d, r) <=> Reaches(k, d[i]) /\ (k < b + dk \/ k = b + dk)
  <2>1. CASE dk < 1
    <3>1. i \in Sent(k, d, r) <=> Reaches(k, d[i]) /\ k < b + (dk + 1)
      BY <2>1 DEF Sent, b
    <3>2. k < b + (dk + 1) <=> (k < b + dk \/ k = b + dk)
      BY <1>2
    <3> QED  BY <3>1, <3>2
  <2>2. CASE ~(dk < 1)
    <3>1. i \in Sent(k, d, r) <=> Reaches(k, d[i])
      BY <2>2 DEF Sent
    <3>2. dk = 1 /\ (k - b \in -1 .. 1 => (k < b + dk \/ k = b + dk))
      BY <1>2, <2>2
    <3> QED  BY <1>3, <3>1, <3>2
  <2> QED  BY <2>1, <2>2
<1>7. Sent(k, d, p) \subseteq 1 .. Len(d) /\ Sent(k, d, r) \subseteq 1 .. Len(d)
  BY DEF Sent
<1>8. k = b + dk => i \notin Sent(k, d, p)
  BY <1>2, <1>5
<1>9. CASE k = b + dk /\ Reaches(k, d[i])
  <2>1. Sent(k, d, r) = Sent(k, d, p) \cup {i}
    BY <1>4, <1>6, <1>7, <1>9
  <2> QED  BY <1>8, <1>9, <2>1 DEF b
<1>10. CASE ~(k = b + dk /\ Reaches(k, d[i]))
  <2>1. i \in Sent(k, d, r) <=> i \in Sent(k, d, p)
    BY <1>5, <1>6, <1>10
  <2>2. \A n \in 1 .. Len(d) : n \in Sent(k, d, r) <=> n \in Sent(k, d, p)
    BY <1>4, <2>1
  <2>3. Sent(k, d, r) = Sent(k, d, p)
    BY <1>7, <2>2, Zenon
  <2> QED  BY <1>8, <1>10, <2>3 DEF b
<1> QED  BY <1>9, <1>10

LEMMA FlowInit == Init => FlowInv
<1> SUFFICES ASSUME Init PROVE FlowInv
  OBVIOUS
<1>1. TypeOK
  BY TypesInit
<1>2. /\ dispatched = << >> /\ pushing = Idle /\ synth = "off" /\ nPushed = 0 /\ main = "ready"
      /\ eofNext = 0
      /\ \A k \in Shard : queue[k] = << >> /\ s0done[k] = << >> /\ worker[k] = "loop"
  BY DEF Init
<1>3. Len(<< >>) = 0 /\ \A i : i \notin 1 .. Len(<< >>)
  OBVIOUS
<1>4. Control
  BY <1>2, <1>3 DEF Control, Idle, Closing
<1>5. /\ Rising(<< >>) /\ InOrder(<< >>) /\ Waiting(<< >>) = {} /\ Elements(<< >>) = {}
      /\ ~HasEof(<< >>)
  BY <1>3 DEF Rising, InOrder, Waiting, Elements, HasEof
<1>6. \A k : Sent(k, << >>, Idle) = {}
  BY <1>3 DEF Sent
<1>7. Line(<< >>, << >>, {})
  BY <1>5 DEF Line
<1>8. Lines
  BY <1>2, <1>6, <1>7 DEF Lines
<1>9. AllFlags
  BY <1>2, <1>3 DEF AllFlags, Flags
<1>10. AllEnds
  BY <1>2, <1>5 DEF AllEnds, Ends
<1> QED  BY <1>1, <1>4, <1>8, <1>9, <1>10 DEF FlowInv

LEMMA FlowKept ==
    ASSUME FlowInv, TypeOK', Control', UNCHANGED <<s0done, queue, dispatched, pushing, worker>>,
           \A k \in Shard : k < eofNext => k < eofNext', main \in Closing => main' \in Closing
    PROVE  FlowInv'
<1>1. Lines'
  BY DEF FlowInv, Lines
<1>2. AllFlags'
  BY DEF FlowInv, AllFlags
<1>3. AllEnds'
  BY DEF FlowInv, AllEnds, Ends
<1> QED  BY <1>1, <1>2, <1>3 DEF FlowInv

LEMMA FlowGenerate ==
    ASSUME FlowInv, NEW x \in Column, Generate(x)
    PROVE  FlowInv'
<1>1. TypeOK /\ Control /\ Lines /\ AllFlags /\ AllEnds
  BY DEF FlowInv
<1>2. TypeOK' /\ Len(dispatched') = Len(dispatched) + 1
      /\ \A e \in Event : dispatched'[e] = dispatched[e]
  BY <1>1, TypesGenerate
<1>3. /\ synth = "loop" /\ pushing = Idle /\ dispatched' = Append(dispatched, x)
      /\ pushing' = [event |-> Len(dispatched'), dk |-> -1]
      /\ UNCHANGED <<synth, nPushed, queue, worker, s0done, running, main, eofNext>>
  BY DEF Generate, shardVars, mainVars
<1>4. dispatched \in Seq(Column) /\ Len(dispatched) \in Nat
      /\ queue \in [Shard -> Seq(Message)]
  BY <1>1 DEF TypeOK
<1>5. pushing'.event = Len(dispatched) + 1 /\ pushing.event = 0
  BY <1>2, <1>3 DEF Idle
<1>6. Control'
  BY <1>1, <1>2, <1>3, <1>4, <1>5 DEF Control
<1>7. Lines'
  <2> SUFFICES ASSUME NEW k \in Shard
               PROVE  Line(s0done[k], queue[k], Sent(k, dispatched, pushing))'
    BY DEF Lines
  <2>1. Sent(k, dispatched', pushing') = Sent(k, dispatched, Idle)
    BY <1>3, <1>4, SentGenerated
  <2> QED  BY <1>1, <1>3, <2>1 DEF Lines
<1>8. AllFlags'
  <2>1. ASSUME NEW k \in Shard, NEW i \in 1 .. Len(queue[k]), queue[k][i] # Eof
        PROVE  dispatched'[queue[k][i].event] = dispatched[queue[k][i].event]
    <3>1. queue[k][i] \in Message
      BY <1>4
    <3>2. queue[k][i].event \in Event
      BY <2>1, <3>1 DEF Message
    <3> QED  BY <1>2, <3>2
  <2> SUFFICES ASSUME NEW k \in Shard PROVE Flags(k, queue[k], dispatched')
    BY <1>3 DEF AllFlags
  <2>2. Flags(k, queue[k], dispatched)
    BY <1>1 DEF AllFlags
  <2> QED  BY <2>1, <2>2 DEF Flags
<1>9. AllEnds'
  BY <1>1, <1>3 DEF AllEnds
<1> QED  BY <1>2, <1>6, <1>7, <1>8, <1>9 DEF FlowInv

LEMMA FlowPush ==
    ASSUME FlowInv, PushNext
    PROVE  FlowInv'
<1> DEFINE i == pushing.event
           dk == pushing.dk
           x == dispatched[i]
           h == (x \div StripW) + dk
           m == [event |-> i, owner |-> IsOwner(h, x)]
<1>1. TypeOK /\ Control /\ Lines /\ AllFlags /\ AllEnds
  BY DEF FlowInv
<1>2. TypeOK'
  BY <1>1, TypesPush
<1>3. /\ i # 0
      /\ IF Reaches(h, x) THEN queue' = [queue EXCEPT ![h] = Append(@, m)] ELSE UNCHANGED queue
      /\ IF dk < 1 THEN pushing' = [pushing EXCEPT !.dk = @ + 1] /\ UNCHANGED nPushed
         ELSE pushing' = Idle /\ nPushed' = nPushed + 1
      /\ UNCHANGED <<dispatched, synth, worker, s0done, running, main, eofNext>>
  BY DEF PushNext, shardVars, mainVars
<1>4. /\ dispatched \in Seq(Column) /\ Len(dispatched) \in Nat /\ nPushed \in Nat
      /\ queue \in [Shard -> Seq(Message)] /\ pushing \in [event : Event \cup {0}, dk : -1 .. 1]
  BY <1>1 DEF TypeOK
<1>5. i \in Event /\ i = Len(dispatched) /\ dk \in -1 .. 1 /\ x \in Column
      /\ synth = "loop" /\ main \notin Closing
  BY <1>1, <1>3, <1>4 DEF Control, Event
<1>6. IF dk < 1 THEN pushing'.event = i /\ pushing'.dk = dk + 1
      ELSE pushing'.event = 0
  BY <1>3, <1>4 DEF Idle
<1>7. Control'
  BY <1>1, <1>3, <1>4, <1>5 DEF Control, Idle
<1>8. m # Eof /\ m.event = i /\ (m.owner <=> OwnerOf(x) = h)
  BY <1>3 DEF Eof, IsOwner
<1>9. m \in Message
  BY <1>5 DEF Message, IsOwner
<1> HIDE DEF i, dk, x, h, m
<1>10. \A k \in Shard : ~HasEof(queue[k])
  BY <1>1, <1>5 DEF AllEnds, Ends
<1>11. ASSUME NEW k \in Shard
       PROVE  /\ Line(s0done[k], queue'[k], Sent(k, dispatched, pushing'))
              /\ ~HasEof(queue'[k]) /\ Flags(k, queue'[k], dispatched)
  <2>1. /\ Line(s0done[k], queue[k], Sent(k, dispatched, pushing)) /\ queue[k] \in Seq(Message)
        /\ Flags(k, queue[k], dispatched)
    BY <1>1, <1>4 DEF Lines, AllFlags
  <2>2. /\ Sent(k, dispatched, pushing') =
              IF k = h /\ Reaches(k, x) THEN Sent(k, dispatched, pushing) \cup {i}
              ELSE Sent(k, dispatched, pushing)
        /\ k = h => i \notin Sent(k, dispatched, pushing)
    <3>1. pushing.event = i /\ pushing.dk = dk /\ i \in 1 .. Len(dispatched)
      BY <1>5 DEF i, dk, Event
    <3> QED  BY <1>4, <1>5, <1>6, <3>1, SentPushed DEF h, x
  <2>3. CASE k = h /\ Reaches(k, x)
    <3>1. \A n \in Sent(k, dispatched, pushing) : n < i
      BY <1>4, <1>5, <2>2, <2>3 DEF Sent
    <3>2. queue'[k] = Append(queue[k], m)
      BY <1>3, <1>4, <2>3
    <3>3. Line(s0done[k], Append(queue[k], m), Sent(k, dispatched, pushing) \cup {m.event})
          /\ ~HasEof(Append(queue[k], m))
      BY <1>8, <1>9, <1>10, <2>1, <3>1, LinePushed
    <3>4. Flags(k, Append(queue[k], m), dispatched)
      <4> DEFINE q == queue[k]
                 t == Append(q, m)
      <4>1. /\ Len(q) \in Nat /\ Len(t) = Len(q) + 1 /\ t[Len(q) + 1] = m
            /\ \A j \in 1 .. Len(q) : t[j] = q[j]
        BY <1>9, <2>1
      <4>2. m.owner <=> OwnerOf(dispatched[m.event]) = k
        BY <1>8, <2>3 DEF x
      <4> HIDE DEF q, t
      <4>3. \A j \in 1 .. Len(t) : j \in 1 .. Len(q) \/ j = Len(q) + 1
        BY <4>1
      <4>4. Flags(k, q, dispatched)
        BY <2>1 DEF q
      <4>5. Flags(k, t, dispatched)
        BY <4>1, <4>2, <4>3, <4>4 DEF Flags
      <4> QED  BY <4>5 DEF t, q
    <3> QED  BY <1>8, <2>2, <2>3, <3>2, <3>3, <3>4
  <2>4. CASE ~(k = h /\ Reaches(k, x))
    <3>1. queue'[k] = queue[k]
      BY <1>3, <1>4, <2>4
    <3> QED  BY <1>10, <2>1, <2>2, <2>4, <3>1
  <2> QED  BY <2>3, <2>4
<1>12. Lines'
  BY <1>3, <1>11 DEF Lines
<1>13. AllFlags'
  BY <1>3, <1>11 DEF AllFlags
<1>14. AllEnds'
  <2>1. \A k \in Shard : worker[k] # "returned"
    BY <1>1, <1>5 DEF AllEnds, Ends
  <2> QED  BY <1>3, <1>11, <2>1 DEF AllEnds, Ends
<1> QED  BY <1>2, <1>7, <1>12, <1>13, <1>14 DEF FlowInv

LEMMA FlowHandle ==
    ASSUME FlowInv, NEW k \in Shard, Handle(k)
    PROVE  /\ FlowInv'
           /\ Elements(s0done'[k]) = Elements(s0done[k]) \cup {Head(queue[k]).event}
           /\ \A n \in Elements(s0done[k]) : n < Head(queue[k]).event
           /\ Head(queue[k]).owner <=> OwnerOf(dispatched[Head(queue[k]).event]) = k
<1> DEFINE m == Head(queue[k])
           e == m.event
           q == queue[k]
<1>1. TypeOK /\ Control /\ Lines /\ AllFlags /\ AllEnds
  BY DEF FlowInv
<1>2. TypeOK'
  BY <1>1, TypesHandle
<1>3. /\ q \in Seq(Message) /\ q # << >> /\ m # Eof /\ e \in Event
      /\ queue' = [queue EXCEPT ![k] = Tail(@)]
      /\ s0done' = [s0done EXCEPT ![k] = Append(@, m.event)]
      /\ UNCHANGED <<dispatched, pushing, synth, nPushed, worker, running, main, eofNext>>
  BY <1>1, HandleIs
<1>4. s0done \in [Shard -> Seq(Event)] /\ queue \in [Shard -> Seq(Message)]
  BY <1>1 DEF TypeOK
<1>5. Line(s0done[k], q, Sent(k, dispatched, pushing)) /\ Flags(k, q, dispatched)
      /\ Ends(k, q, worker[k] = "returned", main, eofNext) /\ s0done[k] \in Seq(Event)
  BY <1>1, <1>4 DEF Lines, AllFlags, AllEnds
<1>6. Event \subseteq Nat
  BY DEF Event
<1>7. s0done'[k] = Append(s0done[k], e) /\ queue'[k] = Tail(q)
      /\ \A j \in Shard : j # k => s0done'[j] = s0done[j] /\ queue'[j] = queue[j]
  BY <1>3, <1>4
<1>8. /\ Line(Append(s0done[k], e), Tail(q), Sent(k, dispatched, pushing))
      /\ Elements(Append(s0done[k], e)) = Elements(s0done[k]) \cup {e}
      /\ \A n \in Elements(s0done[k]) : n < e
  BY <1>3, <1>5, <1>6, LineHandled
<1>9. /\ Len(q) \in Nat \ {0} /\ Len(Tail(q)) = Len(q) - 1 /\ m = q[1]
      /\ \A i \in 1 .. Len(Tail(q)) : Tail(q)[i] = q[i + 1]
  BY <1>3, TailIs
<1>10. m.owner <=> OwnerOf(dispatched[e]) = k
  <2>1. 1 \in 1 .. Len(q)
    BY <1>9
  <2> QED  BY <1>3, <1>5, <1>9, <2>1 DEF Flags
<1>11. HasEof(Tail(q)) => HasEof(q)
  BY <1>3, <1>5, TailInOrder DEF Line
<1>12. Flags(k, Tail(q), dispatched)
  <2>1. \A i \in 1 .. Len(Tail(q)) : i + 1 \in 1 .. Len(q)
    BY <1>9
  <2> HIDE DEF q, m, e
  <2> QED  BY <1>5, <1>9, <2>1 DEF Flags
<1>13. Ends(k, Tail(q), worker[k] = "returned", main, eofNext)
  BY <1>3, <1>5, <1>11 DEF Ends
<1> HIDE DEF q, m, e
<1>14. Control'
  BY <1>1, <1>3 DEF Control
<1>15. Lines'
  BY <1>1, <1>3, <1>7, <1>8 DEF Lines
<1>16. AllFlags'
  BY <1>1, <1>3, <1>7, <1>12 DEF AllFlags
<1>17. AllEnds'
  BY <1>1, <1>3, <1>7, <1>13 DEF AllEnds
<1>18. FlowInv'
  BY <1>2, <1>14, <1>15, <1>16, <1>17 DEF FlowInv
<1> QED  BY <1>7, <1>8, <1>10, <1>18 DEF e, m

LEMMA FlowTakeEof ==
    ASSUME FlowInv, TypeOK', NEW k \in Shard, TakeEof(k)
    PROVE  FlowInv'
<1>1. TypeOK /\ Control /\ Lines /\ AllFlags /\ AllEnds
  BY DEF FlowInv
<1>2. /\ queue \in [Shard -> Seq(Message)] /\ worker \in [Shard -> {"loop", "returned"}]
  BY <1>1 DEF TypeOK
<1>3. /\ queue[k] # << >> /\ Head(queue[k]) = Eof /\ queue' = [queue EXCEPT ![k] = Tail(@)]
      /\ worker' = [worker EXCEPT ![k] = "returned"]
      /\ UNCHANGED <<dispatched, pushing, synth, nPushed, s0done, running, main, eofNext>>
  BY DEF TakeEof, dispatcherVars, mainVars
<1>4. Eof \in Message /\ queue[k] \in Seq(Message)
  BY <1>2 DEF Message
<1>5. Line(s0done[k], queue[k], Sent(k, dispatched, pushing))
  BY <1>1 DEF Lines
<1>6. Tail(queue[k]) = << >> /\ Line(s0done[k], Tail(queue[k]), Sent(k, dispatched, pushing))
  BY <1>3, <1>4, <1>5, LineEnded
<1>7. /\ queue'[k] = << >> /\ worker'[k] = "returned"
      /\ \A j \in Shard : j # k => queue'[j] = queue[j] /\ worker'[j] = worker[j]
  BY <1>2, <1>3, <1>6
<1>8. \A i : i \notin 1 .. Len(<< >>)
  OBVIOUS
<1>9. Control'
  BY <1>1, <1>2, <1>3, <1>7 DEF Control
<1>10. Lines'
  BY <1>1, <1>3, <1>6, <1>7 DEF Lines
<1>11. AllFlags'
  <2>1. Flags(k, << >>, dispatched)
    BY <1>8 DEF Flags
  <2> QED  BY <1>1, <1>3, <1>7, <2>1 DEF AllFlags
<1>12. AllEnds'
  <2>1. HasEof(queue[k])
    <3>1. Len(queue[k]) \in Nat \ {0} /\ Head(queue[k]) = queue[k][1]
      BY <1>3, <1>4, TailIs
    <3>2. 1 \in 1 .. Len(queue[k])
      BY <3>1
    <3> QED  BY <1>3, <3>1, <3>2 DEF HasEof
  <2>2. main \in Closing /\ k < eofNext
    BY <1>1, <2>1 DEF AllEnds, Ends
  <2>3. Ends(k, << >>, TRUE, main, eofNext)
    BY <2>2 DEF Ends
  <2> SUFFICES ASSUME NEW j \in Shard
               PROVE  Ends(j, queue'[j], worker'[j] = "returned", main, eofNext)
    BY <1>3 DEF AllEnds
  <2>4. CASE j = k
    BY <1>7, <2>2, <2>4 DEF Ends
  <2>5. CASE j # k
    BY <1>1, <1>7, <2>5 DEF AllEnds
  <2> QED  BY <2>4, <2>5
<1> QED  BY <1>9, <1>10, <1>11, <1>12 DEF FlowInv

LEMMA FlowSendEof ==
    ASSUME FlowInv, TypeOK', SendEof
    PROVE  FlowInv'
<1> DEFINE k == eofNext
<1>1. TypeOK /\ Control /\ Lines /\ AllFlags /\ AllEnds
  BY DEF FlowInv
<1>2. queue \in [Shard -> Seq(Message)] /\ eofNext \in 0 .. N
  BY <1>1 DEF TypeOK
<1>3. /\ main = "closing" /\ eofNext # N /\ eofNext' = eofNext + 1
      /\ queue' = [queue EXCEPT ![k] = Append(@, Eof)]
      /\ UNCHANGED <<dispatched, pushing, synth, nPushed, s0done, worker, running, main>>
  BY DEF SendEof, AllSent, dispatcherVars, shardVars
<1>4. k \in Shard
  BY <1>2, <1>3, Sizes DEF Shard
<1>5. Eof \in Message /\ queue[k] \in Seq(Message)
  BY <1>2, <1>4 DEF Message
<1>6. ~HasEof(queue[k]) /\ worker[k] # "returned"
  BY <1>1, <1>2, <1>4 DEF AllEnds, Ends
<1>7. Line(s0done[k], Append(queue[k], Eof), Sent(k, dispatched, pushing))
  BY <1>1, <1>4, <1>5, <1>6, LineEnded DEF Lines
<1>8. Flags(k, Append(queue[k], Eof), dispatched)
  <2> DEFINE q == queue[k]
             t == Append(q, Eof)
  <2>1. /\ Len(q) \in Nat /\ Len(t) = Len(q) + 1 /\ t[Len(q) + 1] = Eof
        /\ \A j \in 1 .. Len(q) : t[j] = q[j]
    BY <1>5
  <2>2. Flags(k, q, dispatched)
    BY <1>1, <1>4 DEF AllFlags
  <2> HIDE DEF q, t
  <2>3. \A j \in 1 .. Len(t) : j \in 1 .. Len(q) \/ j = Len(q) + 1
    BY <2>1
  <2>4. Flags(k, t, dispatched)
    BY <2>1, <2>2, <2>3 DEF Flags
  <2> QED  BY <2>4 DEF t, q
<1>9. queue'[k] = Append(queue[k], Eof) /\ \A j \in Shard : j # k => queue'[j] = queue[j]
  BY <1>2, <1>3, <1>4
<1>10. \A j \in Shard : (j < eofNext \/ j = k) <=> j < eofNext'
  BY <1>2, <1>3 DEF Shard
<1> HIDE DEF k
<1>11. Control'
  BY <1>1, <1>3 DEF Control, Closing
<1>12. Lines'
  BY <1>1, <1>3, <1>7, <1>9 DEF Lines
<1>13. AllFlags'
  BY <1>1, <1>3, <1>8, <1>9 DEF AllFlags
<1>14. AllEnds'
  <2> SUFFICES ASSUME NEW j \in Shard
               PROVE  Ends(j, queue'[j], worker[j] = "returned", main, eofNext')
    BY <1>3 DEF AllEnds
  <2>1. main \in Closing
    BY <1>3 DEF Closing
  <2>2. CASE j = k
    BY <1>6, <1>10, <2>1, <2>2 DEF Ends
  <2>3. CASE j # k
    <3>1. Ends(j, queue[j], worker[j] = "returned", main, eofNext)
      BY <1>1 DEF AllEnds
    <3> QED  BY <1>9, <1>10, <2>3, <3>1 DEF Ends
  <2> QED  BY <2>2, <2>3
<1> QED  BY <1>11, <1>12, <1>13, <1>14 DEF FlowInv

LEMMA FlowStep ==
    ASSUME FlowInv, [Next]_vars
    PROVE  FlowInv'
<1>1. TypeOK'
  BY TypesStep DEF FlowInv
<1>2. ASSUME NEW x \in Column, Generate(x) PROVE FlowInv'
  BY <1>2, FlowGenerate
<1>3. ASSUME PushNext PROVE FlowInv'
  BY <1>3, FlowPush
<1>4. ASSUME NEW k \in Shard, Handle(k) PROVE FlowInv'
  BY <1>4, FlowHandle
<1>5. ASSUME NEW k \in Shard, TakeEof(k) PROVE FlowInv'
  BY <1>1, <1>5, FlowTakeEof
<1>6. ASSUME SendEof PROVE FlowInv'
  BY <1>1, <1>6, FlowSendEof
<1>7. ASSUME \/ SynthExit \/ Start \/ Stop \/ JoinSynth \/ BeginJoin \/ JoinWorkers
             \/ UNCHANGED vars
      PROVE  FlowInv'
  <2>1. UNCHANGED <<dispatched, pushing, nPushed, s0done, queue, worker, eofNext>>
    BY <1>7 DEF SynthExit, Start, Stop, JoinSynth, BeginJoin, JoinWorkers, vars, dispatcherVars,
       shardVars, mainVars
  <2>2. Control'
    BY <1>7, <2>1 DEF FlowInv, Control, Closing, Idle, SynthExit, Start, Stop, JoinSynth,
       BeginJoin, JoinWorkers, vars, dispatcherVars, mainVars
  <2>3. main \in Closing => main' \in Closing
    BY <1>7 DEF Closing, SynthExit, Start, Stop, JoinSynth, BeginJoin, JoinWorkers, vars,
       mainVars
  <2> QED  BY <1>1, <2>1, <2>2, <2>3, FlowKept
<1>8. ShardStep
  BY ShardSteps
<1> QED  BY <1>2, <1>3, <1>4, <1>5, <1>6, <1>7, <1>8 DEF ShardStep

-----------------------------------------------------------------------------
(* What the flow says of an event a shard owns: what concerns it came first. *)
LEMMA EarlierDone ==
    ASSUME FlowInv, NEW k \in Shard, NEW e \in Elements(s0done[k]), NEW n \in 1 .. e,
           Reaches(k, dispatched[n])
    PROVE  n \in Elements(s0done[k]) /\ e \in Event
<1>1. /\ Line(s0done[k], queue[k], Sent(k, dispatched, pushing)) /\ Len(dispatched) \in Nat
      /\ Control /\ queue[k] \in Seq(Message)
  BY DEF FlowInv, Lines, TypeOK
<1>2. e \in Sent(k, dispatched, pushing)
  BY <1>1 DEF Line
<1>3. e \in Event /\ n \in Event
  BY <1>1, <1>2 DEF Sent, Event
<1>4. n = e \/ n # pushing.event
  BY <1>1, <1>3 DEF Control, Event
<1>5. n \in Sent(k, dispatched, pushing)
  BY <1>2, <1>3, <1>4 DEF Sent, Event
<1>6. n \notin Waiting(queue[k])
  BY <1>1, <1>3 DEF Line, Event
<1> QED  BY <1>1, <1>3, <1>5, <1>6 DEF Line

LEMMA FlowGivesExact ==
    ASSUME FlowInv, Halo >= 2
    PROVE  S0Exact
<1> SUFFICES ASSUME NEW k \in Shard, NEW i \in 1 .. Len(s0done[k]),
                    OwnerOf(dispatched[s0done[k][i]]) = k
             PROVE  LET done == s0done[k]
                        near == {j \in 1 .. i : Near(done[i], done[j], 2)}
                    IN  /\ {done[j] : j \in near} = {n \in 1 .. done[i] : Near(done[i], n, 2)}
                        /\ \A j, l \in near : j < l => done[j] < done[l]
  BY DEF S0Exact
<1> DEFINE done == s0done[k]
           e == done[i]
           near == {j \in 1 .. i : Near(e, done[j], 2)}
<1>1. done \in Seq(Event) /\ Rising(done) /\ dispatched \in Seq(Column)
  BY DEF FlowInv, TypeOK, Lines, Line
<1>2. Len(done) \in Nat /\ e \in Elements(done) /\ \A j \in 1 .. Len(done) : done[j] \in Event
  BY <1>1 DEF Elements
<1>3. Event \subseteq Nat /\ \A n \in Event : n >= 1 /\ dispatched[n] \in Column
  BY <1>1 DEF Event
<1>4. OwnerOf(dispatched[e]) = k
  OBVIOUS
<1> HIDE DEF done, e
<1>5. \A j \in 1 .. i : j \in 1 .. Len(done) /\ done[j] <= e /\ done[j] \in 1 .. e
  <2> SUFFICES ASSUME NEW j \in 1 .. i
               PROVE  j \in 1 .. Len(done) /\ done[j] <= e /\ done[j] \in 1 .. e
    OBVIOUS
  <2>1. i \in 1 .. Len(done) /\ e = done[i]
    BY DEF done, e
  <2>2. j \in 1 .. Len(done)
    BY <1>2, <2>1
  <2>3. done[j] \in Nat /\ e \in Nat /\ done[j] >= 1
    BY <1>2, <1>3, <2>1, <2>2
  <2>4. j < i \/ j = i
    BY <2>1
  <2>5. done[j] <= e
    BY <1>1, <2>1, <2>2, <2>3, <2>4 DEF Rising
  <2> QED  BY <2>2, <2>3, <2>5
<1>6. {done[j] : j \in near} \subseteq {n \in 1 .. e : Near(e, n, 2)}
  BY <1>5
<1>7. ASSUME NEW n \in 1 .. e, Near(e, n, 2) PROVE n \in {done[j] : j \in near}
  <2>1. i \in 1 .. Len(done) /\ e = done[i]
    BY DEF done, e
  <2>2. e \in Event /\ n \in Event
    BY <1>2, <2>1 DEF Event
  <2>3. Reaches(k, dispatched[n])
    <3>1. dispatched[e] - dispatched[n] \in -2 .. 2
      BY <1>7 DEF Near
    <3> QED  BY <1>3, <1>4, <2>2, <3>1, NearReaches
  <2>4. n \in Elements(done)
    BY <1>2, <2>3, EarlierDone DEF done
  <2>5. PICK j \in 1 .. Len(done) : n = done[j]
    BY <2>4 DEF Elements
  <2>6. j <= i
    <3> SUFFICES ASSUME i < j PROVE FALSE
      BY <1>2, <2>1, <2>5
    <3>1. e < n
      BY <1>1, <2>1, <2>5 DEF Rising
    <3> QED  BY <2>2, <3>1, <1>3
  <2>7. j \in 1 .. i
    BY <1>2, <2>1, <2>5, <2>6
  <2> QED  BY <1>7, <2>5, <2>7
<1>8. \A j, l \in near : j < l => done[j] < done[l]
  BY <1>1, <1>5 DEF Rising
<1>9. {done[j] : j \in near} = {n \in 1 .. e : Near(e, n, 2)}
  BY <1>6, <1>7
<1> QED  BY <1>8, <1>9 DEF done, e

(* With a halo of at least two columns, what a shard has processed around  *)
(* an event it owns is what one thread alone would have, in order.         *)
THEOREM S0ExactCorrect == ASSUME Halo >= 2 PROVE Spec => []S0Exact
<1>1. Init => FlowInv
  BY FlowInit
<1>2. FlowInv /\ [Next]_vars => FlowInv'
  BY FlowStep
<1>3. FlowInv => S0Exact
  BY FlowGivesExact
<1> QED  BY <1>1, <1>2, <1>3, PTL DEF Spec

-----------------------------------------------------------------------------
(* A tdrop stage: of the events M it has seen, it let P through; its       *)
(* counters hold how often each cell was seen, modulo CounterSize.         *)
Cells1(d) == [n \in 1 .. Len(d) |-> Pooled(d[n])]
Cells2(d) == [n \in 1 .. Len(d) |-> Pooled(Pooled(d[n]))]

Alike(M, cell, c) == {n \in M : cell[n] = c}
Older(M, cell, e) == {n \in M : n < e /\ cell[n] = cell[e]}

Stage(M, P, counter, cell) ==
    /\ \A c \in Column : counter[c] = Cardinality(Alike(M, cell, c)) % CounterSize
    /\ P \subseteq M
    /\ \A n \in M : n \in P <=> Passes(Cardinality(Older(M, cell, n)) % CounterSize)

LEMMA StageCounts ==
    ASSUME NEW M \in SUBSET Nat, IsFiniteSet(M), NEW P, NEW cell,
           NEW counter \in [Column -> 0 .. CounterSize - 1],
           NEW e \in Nat, \A n \in M : n < e, cell[e] \in Column, Stage(M, P, counter, cell)
    PROVE  Stage(M \cup {e}, IF Passes(counter[cell[e]]) THEN P \cup {e} ELSE P,
                 Counted(counter, cell[e]), cell)
<1> DEFINE N1 == M \cup {e}
           b == cell[e]
           after == Counted(counter, b)
           Q == IF Passes(counter[b]) THEN P \cup {e} ELSE P
<1>1. e \notin M
  OBVIOUS
<1>2. after = [counter EXCEPT ![b] = (@ + 1) % CounterSize]
  BY DEF Counted
<1>3. \A c \in Column : after[c] = IF c = b THEN (counter[c] + 1) % CounterSize ELSE counter[c]
  BY <1>2
<1>4. b \in Column
  OBVIOUS
<1> HIDE DEF after
<1>5. ASSUME NEW c \in Column
      PROVE  after[c] = Cardinality(Alike(N1, cell, c)) % CounterSize
  <2> DEFINE A == Alike(M, cell, c)
  <2>1. IsFiniteSet(A)
    <3>1. A \in SUBSET M
      BY DEF Alike
    <3> QED  BY <3>1, FS_Subset
  <2>2. Cardinality(A) \in Nat /\ CounterSize \in Nat \ {0}
    BY <2>1, FS_CardinalityType, Sizes
  <2>3. counter[c] = Cardinality(A) % CounterSize
    BY DEF Stage
  <2>4. e \notin A
    BY <1>1 DEF Alike
  <2>5. CASE c = b
    <3>1. Alike(N1, cell, c) = A \cup {e}
      BY <2>5 DEF Alike
    <3>2. Cardinality(A \cup {e}) = Cardinality(A) + 1
      BY <2>1, <2>4, FS_AddElement
    <3> HIDE DEF A
    <3>3. ((Cardinality(A) % CounterSize) + 1) % CounterSize = (Cardinality(A) + 1) % CounterSize
      BY <2>2, NextRemainder
    <3> QED  BY <1>3, <2>3, <2>5, <3>1, <3>2, <3>3
  <2>6. CASE c # b
    <3>1. Alike(N1, cell, c) = A
      BY <2>6 DEF Alike
    <3> QED  BY <1>3, <2>3, <2>6, <3>1
  <2> QED  BY <2>5, <2>6
<1>6. Q \subseteq N1
  BY DEF Stage
<1>7. ASSUME NEW n \in M
      PROVE  n \in Q <=> Passes(Cardinality(Older(N1, cell, n)) % CounterSize)
  <2>1. n # e /\ ~(e < n) /\ n \in Nat
    BY <1>1
  <2>2. Older(N1, cell, n) = Older(M, cell, n)
    BY <2>1 DEF Older
  <2>3. n \in Q <=> n \in P
    BY <2>1
  <2>4. n \in P <=> Passes(Cardinality(Older(M, cell, n)) % CounterSize)
    BY DEF Stage
  <2> QED  BY <2>2, <2>3, <2>4
<1>8. e \in Q <=> Passes(Cardinality(Older(N1, cell, e)) % CounterSize)
  <2>1. Older(N1, cell, e) = Alike(M, cell, b)
    <3>1. ~(e < e) /\ \A n \in N1 : n # e => n \in M
      OBVIOUS
    <3>2. \A n \in N1 : n < e <=> n \in M
      BY <1>1, <3>1
    <3>3. M \subseteq N1
      OBVIOUS
    <3> HIDE DEF N1, b
    <3> QED  BY <3>2, <3>3 DEF Older, Alike, b
  <2>2. counter[b] = Cardinality(Alike(M, cell, b)) % CounterSize
    BY <1>4 DEF Stage
  <2>3. e \notin P
    BY <1>1 DEF Stage
  <2> QED  BY <2>1, <2>2, <2>3
<1>9. \A n \in N1 : n \in Q <=> Passes(Cardinality(Older(N1, cell, n)) % CounterSize)
  BY <1>7, <1>8
<1> QED  BY <1>5, <1>6, <1>9 DEF Stage, after

LEMMA StageSame ==
    ASSUME NEW M, NEW P, NEW counter, NEW cell, NEW other, \A n \in M : cell[n] = other[n],
           Stage(M, P, counter, cell)
    PROVE  Stage(M, P, counter, other)
<1>1. \A c : Alike(M, cell, c) = Alike(M, other, c)
  BY DEF Alike
<1>2. ASSUME NEW n \in M PROVE Older(M, cell, n) = Older(M, other, n)
  BY DEF Older
<1> QED  BY <1>1, <1>2 DEF Stage

\* Of the events s a shard has processed, those it owns.
OwnedOf(k, s, d) == {e \in Elements(s) : OwnerOf(d[e]) = k}

\* The two stages of a shard and its counts: D done, M of them owned, P passed the
\* first tdrop, S (of all shards) the second.
Drops(D, M, P, S, t0, t1, n, d) ==
    /\ Stage(M, P, t0, Cells1(d)) /\ Stage(P, S \cap M, t1, Cells2(d))
    /\ n.owner = Cardinality(M) /\ n.owner + n.halo = Cardinality(D)
    /\ n.pass1 = Cardinality(S \cap M)

AllDrops ==
    \A k \in Shard :
        Drops(Elements(s0done[k]), OwnedOf(k, s0done[k], dispatched), Elements(s1done[k]),
              survived, tdrop0[k], tdrop1[k], count[k], dispatched)

Survivors ==
    \A e \in survived :
        \E k \in Shard : OwnerOf(dispatched[e]) = k /\ e \in OwnedOf(k, s0done[k], dispatched)

ShardInv == FlowInv /\ AllDrops /\ Survivors

LEMMA ElementsIn ==
    ASSUME NEW n \in Nat, NEW s \in Seq(1 .. n)
    PROVE  Elements(s) \subseteq 1 .. n /\ IsFiniteSet(Elements(s)) /\ IsFiniteSet(1 .. n)
<1>1. Elements(s) \in SUBSET (1 .. n)
  BY DEF Elements
<1>2. IsFiniteSet(1 .. n)
  BY FS_Interval
<1> QED  BY <1>1, <1>2, FS_Subset

LEMMA DropsInit == Init => AllDrops /\ Survivors
<1> SUFFICES ASSUME Init PROVE AllDrops /\ Survivors
  OBVIOUS
<1>1. /\ dispatched = << >> /\ survived = {}
      /\ \A k \in Shard : /\ s0done[k] = << >> /\ s1done[k] = << >>
                          /\ \A c \in Column : tdrop0[k][c] = 0 /\ tdrop1[k][c] = 0
                          /\ count[k].owner = 0 /\ count[k].halo = 0 /\ count[k].pass1 = 0
  BY DEF Init
<1>2. Elements(<< >>) = {}
  <2>1. \A i : i \notin 1 .. Len(<< >>)
    OBVIOUS
  <2> QED  BY <2>1 DEF Elements
<1>3. Cardinality({}) = 0
  BY FS_EmptySet
<1>4. 0 % CounterSize = 0
  BY Sizes
<1>5. \A cell, c : Alike({}, cell, c) = {}
  BY DEF Alike
<1>6. ASSUME NEW counter, NEW cell, \A c \in Column : counter[c] = 0
      PROVE  Stage({}, {}, counter, cell)
  BY <1>3, <1>4, <1>5, <1>6 DEF Stage
<1>7. \A k : OwnedOf(k, << >>, << >>) = {}
  BY <1>2 DEF OwnedOf
<1>8. ASSUME NEW k \in Shard
      PROVE  Drops({}, {}, {}, {}, tdrop0[k], tdrop1[k], count[k], << >>)
  <2>1. Stage({}, {}, tdrop0[k], Cells1(<< >>)) /\ Stage({}, {}, tdrop1[k], Cells2(<< >>))
    BY <1>1, <1>6
  <2>2. {} \cap {} = {}
    OBVIOUS
  <2> QED  BY <1>1, <1>3, <2>1, <2>2 DEF Drops
<1>9. AllDrops
  BY <1>1, <1>2, <1>7, <1>8 DEF AllDrops
<1> QED  BY <1>1, <1>9 DEF Survivors

LEMMA DropsGenerate ==
    ASSUME ShardInv, NEW x \in Column, Generate(x)
    PROVE  AllDrops' /\ Survivors'
<1>1. /\ TypeOK /\ AllDrops /\ Survivors
  BY DEF ShardInv, FlowInv
<1>2. \A e \in Event : dispatched'[e] = dispatched[e] /\ e \in Event'
  BY <1>1, TypesGenerate
<1>3. UNCHANGED <<s0done, s1done, survived, tdrop0, tdrop1, count>>
  BY DEF Generate, shardVars
<1>4. /\ s0done \in [Shard -> Seq(Event)] /\ s1done \in [Shard -> Seq(Event)]
      /\ survived \subseteq Event
  BY <1>1 DEF TypeOK
<1> DEFINE d == dispatched
           f == dispatched'
<1>5. \A e \in Event : /\ Cells1(f)[e] = Cells1(d)[e] /\ Cells2(f)[e] = Cells2(d)[e]
                       /\ f[e] = d[e]
  <2>1. \A e \in 1 .. Len(d) : f[e] = d[e] /\ e \in 1 .. Len(f)
    BY <1>2 DEF Event
  <2> HIDE DEF d, f
  <2>2. \A e \in 1 .. Len(d) : /\ Cells1(f)[e] = Cells1(d)[e] /\ Cells2(f)[e] = Cells2(d)[e]
                               /\ f[e] = d[e]
    BY <2>1 DEF Cells1, Cells2
  <2> QED  BY <2>2 DEF Event, d, f
<1> HIDE DEF d, f
<1>6. ASSUME NEW k \in Shard
      PROVE  /\ OwnedOf(k, s0done[k], f) = OwnedOf(k, s0done[k], d)
             /\ Drops(Elements(s0done[k]), OwnedOf(k, s0done[k], d), Elements(s1done[k]),
                      survived, tdrop0[k], tdrop1[k], count[k], f)
  <2>1. Elements(s0done[k]) \subseteq Event /\ Elements(s1done[k]) \subseteq Event
    BY <1>4 DEF Elements
  <2>2. OwnedOf(k, s0done[k], f) = OwnedOf(k, s0done[k], d)
    BY <1>5, <2>1 DEF OwnedOf
  <2> DEFINE M == OwnedOf(k, s0done[k], d)
             P == Elements(s1done[k])
  <2>3. M \subseteq Event
    BY <2>1 DEF OwnedOf
  <2>4. Drops(Elements(s0done[k]), M, P, survived, tdrop0[k], tdrop1[k], count[k], d)
    BY <1>1 DEF AllDrops, d
  <2> HIDE DEF M, P
  <2>5. Stage(M, P, tdrop0[k], Cells1(f))
    BY <1>5, <2>3, <2>4, StageSame DEF Drops
  <2>6. P \subseteq Event
    BY <2>1 DEF P
  <2>7. Stage(P, survived \cap M, tdrop1[k], Cells2(f))
    BY <1>5, <2>4, <2>6, StageSame DEF Drops
  <2>8. Drops(Elements(s0done[k]), M, P, survived, tdrop0[k], tdrop1[k], count[k], f)
    BY <2>4, <2>5, <2>7 DEF Drops
  <2> QED  BY <2>2, <2>8 DEF M, P
<1>7. AllDrops'
  BY <1>3, <1>6 DEF AllDrops, d, f
<1>8. Survivors'
  BY <1>1, <1>3, <1>4, <1>5, <1>6 DEF Survivors, d, f
<1> QED  BY <1>7, <1>8

LEMMA DropsKept ==
    ASSUME ShardInv, UNCHANGED <<dispatched, s0done, s1done, survived, tdrop0, tdrop1, count>>
    PROVE  AllDrops' /\ Survivors'
<1>1. AllDrops'
  BY DEF ShardInv, AllDrops
<1>2. Survivors'
  BY DEF ShardInv, Survivors
<1> QED  BY <1>1, <1>2

LEMMA DropsHandle ==
    ASSUME ShardInv, NEW k \in Shard, Handle(k)
    PROVE  AllDrops' /\ Survivors'
<1> DEFINE m == Head(queue[k])
           e == m.event
           d == dispatched
           c1 == Pooled(d[e])
           c2 == Pooled(c1)
           pass0 == m.owner /\ Passes(tdrop0[k][c1])
           pass1 == pass0 /\ Passes(tdrop1[k][c2])
           D == Elements(s0done[k])
           M == OwnedOf(k, s0done[k], d)
           P == Elements(s1done[k])
<1>1. FlowInv /\ TypeOK /\ AllDrops /\ Survivors
  BY DEF ShardInv, FlowInv
<1>2. /\ e \in Event /\ m.owner \in BOOLEAN /\ d[e] \in Column /\ c1 \in Column /\ c2 \in Column
      /\ s0done' = [s0done EXCEPT ![k] = Append(@, e)]
      /\ tdrop0' = IF m.owner THEN [tdrop0 EXCEPT ![k] = Counted(@, c1)] ELSE tdrop0
      /\ s1done' = IF pass0 THEN [s1done EXCEPT ![k] = Append(@, e)] ELSE s1done
      /\ tdrop1' = IF pass0 THEN [tdrop1 EXCEPT ![k] = Counted(@, c2)] ELSE tdrop1
      /\ survived' = IF pass1 THEN survived \cup {e} ELSE survived
      /\ count' = [count EXCEPT ![k] =
             [owner |-> @.owner + (IF m.owner THEN 1 ELSE 0),
              halo |-> @.halo + (IF m.owner THEN 0 ELSE 1),
              pass0 |-> @.pass0 + (IF pass0 THEN 1 ELSE 0),
              pass1 |-> @.pass1 + (IF pass1 THEN 1 ELSE 0)]]
      /\ UNCHANGED dispatched
  BY <1>1, HandleIs
<1>3. /\ s0done \in [Shard -> Seq(Event)] /\ s1done \in [Shard -> Seq(Event)]
      /\ tdrop0 \in [Shard -> [Column -> 0 .. CounterSize - 1]]
      /\ tdrop1 \in [Shard -> [Column -> 0 .. CounterSize - 1]]
      /\ count \in [Shard -> [owner : Nat, halo : Nat, pass0 : Nat, pass1 : Nat]]
      /\ Len(dispatched) \in Nat /\ Event = 1 .. Len(dispatched)
  <2>1. /\ s0done \in [Shard -> Seq(Event)] /\ s1done \in [Shard -> Seq(Event)]
        /\ tdrop0 \in [Shard -> [Column -> 0 .. CounterSize - 1]]
        /\ tdrop1 \in [Shard -> [Column -> 0 .. CounterSize - 1]]
        /\ count \in [Shard -> [owner : Nat, halo : Nat, pass0 : Nat, pass1 : Nat]]
        /\ dispatched \in Seq(Column)
    BY <1>1 DEF TypeOK
  <2>2. Len(dispatched) \in Nat
    BY <2>1
  <2> QED  BY <2>1, <2>2 DEF Event
<1>4. /\ Elements(s0done'[k]) = D \cup {e} /\ \A n \in D : n < e
      /\ m.owner <=> OwnerOf(d[e]) = k
  BY <1>1, FlowHandle
<1>5. Cells1(d)[e] = c1 /\ Cells2(d)[e] = c2
  BY <1>2, <1>3 DEF Cells1, Cells2
<1>6. D \in SUBSET Nat /\ IsFiniteSet(D) /\ P \subseteq Event
  <2>1. s0done[k] \in Seq(1 .. Len(dispatched)) /\ s1done[k] \in Seq(1 .. Len(dispatched))
    BY <1>3
  <2> QED  BY <1>3, <2>1, ElementsIn
<1>7. Drops(D, M, P, survived, tdrop0[k], tdrop1[k], count[k], d)
  BY <1>1 DEF AllDrops
<1>8. M \subseteq D /\ OwnedOf(k, s0done'[k], d) = IF m.owner THEN M \cup {e} ELSE M
  BY <1>4 DEF OwnedOf
<1>9. e \notin D /\ e \in Nat
  <2>1. e \in Event
    BY <1>2
  <2> HIDE DEF e, D
  <2>2. e \in Nat
    BY <1>3, <2>1
  <2> QED  BY <1>4, <2>2
<1>10. m.owner => e \notin survived
  <2> SUFFICES ASSUME m.owner, e \in survived PROVE FALSE
    OBVIOUS
  <2>1. PICK j \in Shard : OwnerOf(dispatched[e]) = j /\ e \in OwnedOf(j, s0done[j], dispatched)
    BY <1>1 DEF Survivors
  <2>2. e \in D
    BY <1>4, <2>1 DEF OwnedOf
  <2> QED  BY <1>9, <2>2
<1>11. IsFiniteSet(M) /\ IsFiniteSet(P) /\ P \in SUBSET Nat /\ \A n \in M \cup P : n < e
       /\ survived \cap M \subseteq P
  <2>1. M \in SUBSET D /\ P \subseteq M /\ survived \cap M \subseteq P
    BY <1>7, <1>8 DEF Drops, Stage
  <2>2. P \in SUBSET D
    BY <2>1
  <2>3. IsFiniteSet(M) /\ IsFiniteSet(P)
    BY <1>6, <2>1, <2>2, FS_Subset
  <2>4. P \in SUBSET Nat /\ \A n \in M \cup P : n < e
    BY <1>4, <1>6, <2>1, <2>2
  <2> QED  BY <2>1, <2>3, <2>4
<1> DEFINE T == survived \cap M
           S == survived'
           t0 == tdrop0'[k]
           t1 == tdrop1'[k]
           own == m.owner
           M1 == IF own THEN M \cup {e} ELSE M
           P1 == IF pass0 THEN P \cup {e} ELSE P
           T1 == IF pass1 THEN T \cup {e} ELSE T
<1>12. S \cap M1 = T1
  <2>1. S = (IF pass1 THEN survived \cup {e} ELSE survived) /\ (pass1 => own)
    BY <1>2
  <2>2. own => e \notin survived
    BY <1>10
  <2>3. e \notin M
    BY <1>8, <1>9
  <2> HIDE DEF S, pass1, own, M, e
  <2>4. CASE pass1
    BY <2>1, <2>4 DEF T1, M1
  <2>5. CASE ~pass1
    BY <2>1, <2>2, <2>5 DEF T1, M1
  <2> QED  BY <2>4, <2>5
<1>13. Elements(s1done'[k]) = P1
  <2> HIDE DEF pass0
  <2>1. Elements(Append(s1done[k], e)) = P \cup {e}
    <3>1. s1done[k] \in Seq(Event) /\ e \in Event
      BY <1>2, <1>3
    <3> HIDE DEF e
    <3> QED  BY <3>1, ElementsAppend
  <2>2. s1done'[k] = IF pass0 THEN Append(s1done[k], e) ELSE s1done[k]
    BY <1>2, <1>3
  <2> QED  BY <2>1, <2>2
<1>14. /\ t0 = (IF own THEN Counted(tdrop0[k], c1) ELSE tdrop0[k])
       /\ t1 = (IF pass0 THEN Counted(tdrop1[k], c2) ELSE tdrop1[k])
  BY <1>2, <1>3
<1>15. \A j \in Shard : j # k =>
           s0done'[j] = s0done[j] /\ s1done'[j] = s1done[j] /\ tdrop0'[j] = tdrop0[j]
           /\ tdrop1'[j] = tdrop1[j] /\ count'[j] = count[j]
  BY <1>2, <1>3
<1>16. /\ count'[k].owner = count[k].owner + (IF own THEN 1 ELSE 0)
       /\ count'[k].halo = count[k].halo + (IF own THEN 0 ELSE 1)
       /\ count'[k].pass1 = count[k].pass1 + (IF pass1 THEN 1 ELSE 0)
  BY <1>2, <1>3
<1>17. S = (IF pass1 THEN survived \cup {e} ELSE survived) /\ UNCHANGED dispatched
       /\ own \in BOOLEAN /\ (pass1 => pass0) /\ (pass0 => own)
  BY <1>2
<1>18. (pass0 <=> own /\ Passes(tdrop0[k][c1])) /\ (pass1 <=> pass0 /\ Passes(tdrop1[k][c2]))
  OBVIOUS
<1>19. count[k].owner \in Nat /\ count[k].halo \in Nat /\ count[k].pass1 \in Nat
  BY <1>3
<1>20. own <=> OwnerOf(d[e]) = k
  BY <1>4
<1>21. tdrop0[k] \in [Column -> 0 .. CounterSize - 1] /\ tdrop1[k] \in [Column -> 0 .. CounterSize - 1]
  BY <1>3
<1>22. /\ Stage(M, P, tdrop0[k], Cells1(d)) /\ Stage(P, T, tdrop1[k], Cells2(d))
       /\ count[k].owner = Cardinality(M) /\ count[k].owner + count[k].halo = Cardinality(D)
       /\ count[k].pass1 = Cardinality(T)
  BY <1>7 DEF Drops
<1>23. e \notin M /\ e \notin P /\ e \notin T /\ M \in SUBSET Nat
  BY <1>6, <1>8, <1>9, <1>11
<1>24. c1 \in Column /\ c2 \in Column
  BY <1>2
<1>25. Elements(s0done'[k]) = D \cup {e}
  BY <1>4
<1>26. OwnedOf(k, s0done'[k], d) = M1
  BY <1>8
<1> HIDE DEF m, e, c1, c2, pass0, pass1, M, P, D, T, S, t0, t1, own
<1>27. Stage(M1, P1, t0, Cells1(d))
  <2>1. CASE own
    <3>1. Stage(M \cup {e}, IF Passes(tdrop0[k][c1]) THEN P \cup {e} ELSE P,
                Counted(tdrop0[k], c1), Cells1(d))
      BY <1>5, <1>9, <1>11, <1>21, <1>22, <1>23, <1>24, StageCounts
    <3> QED  BY <1>14, <1>18, <2>1, <3>1
  <2>2. CASE ~own
    BY <1>14, <1>17, <1>22, <2>2
  <2> QED  BY <2>1, <2>2
<1>28. Stage(P1, T1, t1, Cells2(d))
  <2>1. CASE pass0
    <3>1. Stage(P \cup {e}, IF Passes(tdrop1[k][c2]) THEN T \cup {e} ELSE T,
                Counted(tdrop1[k], c2), Cells2(d))
      BY <1>5, <1>9, <1>11, <1>21, <1>22, <1>23, <1>24, StageCounts
    <3> QED  BY <1>14, <1>18, <2>1, <3>1
  <2>2. CASE ~pass0
    BY <1>14, <1>17, <1>22, <2>2
  <2> QED  BY <2>1, <2>2
<1>29. /\ count'[k].owner = Cardinality(M1)
       /\ count'[k].owner + count'[k].halo = Cardinality(D \cup {e})
       /\ count'[k].pass1 = Cardinality(T1)
  <2>1. Cardinality(M \cup {e}) = Cardinality(M) + 1 /\ Cardinality(D \cup {e}) = Cardinality(D) + 1
    BY <1>6, <1>9, <1>11, <1>23, FS_AddElement
  <2>2. IsFiniteSet(T)
    <3>1. T \in SUBSET P
      BY <1>11 DEF T
    <3> QED  BY <1>11, <3>1, FS_Subset
  <2>3. Cardinality(T \cup {e}) = Cardinality(T) + 1
    BY <1>23, <2>2, FS_AddElement
  <2>4. count'[k].owner = Cardinality(M1)
    <3>1. CASE own
      BY <1>16, <1>22, <2>1, <3>1
    <3>2. CASE ~own
      BY <1>16, <1>19, <1>22, <3>2
    <3> QED  BY <3>1, <3>2
  <2>5. count'[k].owner + count'[k].halo = Cardinality(D \cup {e})
    BY <1>16, <1>19, <1>22, <2>1
  <2>6. count'[k].pass1 = Cardinality(T1)
    <3>1. CASE pass1
      BY <1>16, <1>22, <2>3, <3>1
    <3>2. CASE ~pass1
      BY <1>16, <1>19, <1>22, <3>2
    <3> QED  BY <3>1, <3>2
  <2> QED  BY <2>4, <2>5, <2>6
<1>30. Drops(Elements(s0done'[k]), OwnedOf(k, s0done'[k], d), Elements(s1done'[k]), S, t0, t1,
             count'[k], d)
  BY <1>12, <1>13, <1>25, <1>26, <1>27, <1>28, <1>29 DEF Drops
<1>31. ASSUME NEW j \in Shard, j # k
       PROVE  Drops(Elements(s0done'[j]), OwnedOf(j, s0done'[j], d), Elements(s1done'[j]), S,
                    tdrop0'[j], tdrop1'[j], count'[j], d)
  <2> DEFINE Mj == OwnedOf(j, s0done[j], d)
  <2>1. Drops(Elements(s0done[j]), Mj, Elements(s1done[j]), survived, tdrop0[j], tdrop1[j],
              count[j], d)
    BY <1>1 DEF AllDrops
  <2>2. own => e \notin Mj
    BY <1>20, <1>31 DEF OwnedOf
  <2> HIDE DEF Mj
  <2>3. S \cap Mj = survived \cap Mj
    BY <1>17, <2>2
  <2>4. Drops(Elements(s0done[j]), Mj, Elements(s1done[j]), S, tdrop0[j], tdrop1[j], count[j], d)
    BY <2>1, <2>3 DEF Drops
  <2> QED  BY <1>15, <1>31, <2>4 DEF Mj
<1>32. AllDrops'
  BY <1>17, <1>30, <1>31 DEF AllDrops, S, t0, t1
<1>33. Survivors'
  <2> SUFFICES ASSUME NEW n \in S
               PROVE  \E j \in Shard : OwnerOf(d[n]) = j /\ n \in OwnedOf(j, s0done'[j], d)
    BY <1>17 DEF Survivors, S
  <2>1. CASE n \in survived
    <3>1. PICK j \in Shard : OwnerOf(d[n]) = j /\ n \in OwnedOf(j, s0done[j], d)
      BY <1>1, <2>1 DEF Survivors
    <3>2. n \in OwnedOf(j, s0done'[j], d)
      <4>1. CASE j = k
        BY <1>26, <3>1, <4>1 DEF M
      <4>2. CASE j # k
        BY <1>15, <3>1, <4>2
      <4> QED  BY <4>1, <4>2
    <3> QED  BY <3>1, <3>2
  <2>2. CASE n \notin survived
    <3>1. n = e /\ own
      BY <1>17, <2>2
    <3>2. n \in OwnedOf(k, s0done'[k], d)
      BY <1>26, <3>1
    <3> QED  BY <1>20, <3>1, <3>2
  <2> QED  BY <2>1, <2>2
<1> QED  BY <1>32, <1>33

LEMMA ShardInit == Init => ShardInv
BY FlowInit, DropsInit DEF ShardInv

LEMMA ShardStepKeeps ==
    ASSUME ShardInv, [Next]_vars
    PROVE  ShardInv'
<1>1. FlowInv'
  BY FlowStep DEF ShardInv
<1>2. ASSUME NEW x \in Column, Generate(x) PROVE AllDrops' /\ Survivors'
  BY <1>2, DropsGenerate
<1>3. ASSUME NEW k \in Shard, Handle(k) PROVE AllDrops' /\ Survivors'
  BY <1>3, DropsHandle
<1>4. ASSUME NEW k \in Shard, TakeEof(k) PROVE AllDrops' /\ Survivors'
  BY <1>4, DropsKept DEF TakeEof, dispatcherVars
<1>5. ASSUME \/ PushNext \/ SynthExit \/ Start \/ Stop \/ JoinSynth \/ SendEof \/ BeginJoin
             \/ JoinWorkers \/ UNCHANGED vars
      PROVE  AllDrops' /\ Survivors'
  <2>1. UNCHANGED <<dispatched, s0done, s1done, survived, tdrop0, tdrop1, count>>
    BY <1>5 DEF PushNext, SynthExit, Start, Stop, JoinSynth, SendEof, BeginJoin, JoinWorkers,
       vars, dispatcherVars, shardVars
  <2> QED  BY <2>1, DropsKept
<1>6. ShardStep
  BY ShardSteps
<1>7. AllDrops' /\ Survivors'
  BY <1>2, <1>3, <1>4, <1>5, <1>6 DEF ShardStep
<1> QED  BY <1>1, <1>7 DEF ShardInv

-----------------------------------------------------------------------------
(* The tdrop of one thread.                                                *)

\* A counter that wraps at a multiple of the window passes the same events.
LEMMA PassesWrapped ==
    ASSUME Window <= 1 \/ CounterSize % Window = 0, NEW n \in Nat
    PROVE  Passes(n % CounterSize) <=> Passes(n)
<1>1. Window \in Nat \ {0} /\ CounterSize \in Nat \ {0}
  BY Sizes
<1>2. CASE Window <= 1
  BY <1>2 DEF Passes
<1>3. CASE CounterSize % Window = 0
  <2>1. \A r : r = n % CounterSize => r % Window = n % Window
    BY <1>1, <1>3, RemainderOfRemainder
  <2>2. (n % CounterSize) % Window = n % Window
    BY <2>1
  <2> QED  BY <2>2 DEF Passes
<1> QED  BY <1>2, <1>3

\* Earlier events of an undivided cell were handled by the shard that owns it.
LEMMA CellMates ==
    ASSUME FlowInv, NEW k \in Shard, NEW e \in OwnedOf(k, s0done[k], dispatched), CellUndivided(e),
           NEW n \in 1 .. e, Cell2(n) = Cell2(e)
    PROVE  n \in OwnedOf(k, s0done[k], dispatched) /\ CellUndivided(n) /\ n \in Nat /\ e \in Event
           /\ n \in Event
<1>1. dispatched \in Seq(Column) /\ s0done[k] \in Seq(Event) /\ e \in Elements(s0done[k])
      /\ OwnerOf(dispatched[e]) = k
  BY DEF FlowInv, TypeOK, OwnedOf
<1>2. e \in Event /\ n \in Event /\ n \in Nat
  BY <1>1 DEF Elements, Event
<1>3. dispatched[n] \in Column
  BY <1>1, <1>2 DEF Event
<1>4. OwnerOf(dispatched[n]) = k
  BY <1>1, <1>3 DEF CellUndivided, Cell2, Cell1
<1>5. Reaches(k, dispatched[n])
  BY <1>3, <1>4, ReachIs
<1>6. n \in Elements(s0done[k])
  BY <1>1, <1>5, EarlierDone
<1>7. CellUndivided(n)
  BY <1>1, <1>4 DEF CellUndivided
<1> QED  BY <1>2, <1>4, <1>6, <1>7 DEF OwnedOf

LEMMA FirstTdrop ==
    ASSUME ShardInv, Window <= 1 \/ CounterSize % Window = 0, NEW k \in Shard,
           NEW e \in OwnedOf(k, s0done[k], dispatched), CellUndivided(e)
    PROVE  e \in Elements(s1done[k]) <=> RefPass0(e)
<1> DEFINE M == OwnedOf(k, s0done[k], dispatched)
           P == Elements(s1done[k])
           cell == Cells1(dispatched)
<1>1. FlowInv /\ Stage(M, P, tdrop0[k], cell)
  BY DEF ShardInv, AllDrops, Drops
<1>2. M \subseteq Event /\ e \in Event
  <2>1. s0done[k] \in Seq(Event)
    BY <1>1 DEF FlowInv, TypeOK
  <2> QED  BY <2>1 DEF OwnedOf, Elements
<1>3. \A n \in Event : cell[n] = Cell1(n)
  BY DEF Cells1, Cell1, Event
<1> DEFINE A == Older(M, cell, e)
           B == {n \in Earlier(e) : Cell1(n) = Cell1(e)}
<1>4. A \subseteq B
  BY <1>2, <1>3 DEF Older, Earlier, Event
<1>5. B \subseteq A
  <2> SUFFICES ASSUME NEW n \in Earlier(e), Cell1(n) = Cell1(e) PROVE n \in A
    OBVIOUS
  <2>1. n \in 1 .. e /\ n < e
    BY <1>2 DEF Earlier, Event
  <2>2. Cell2(n) = Cell2(e)
    BY DEF Cell2
  <2>3. n \in M /\ n \in Event
    BY <1>1, <2>1, <2>2, CellMates
  <2> QED  BY <1>2, <1>3, <2>1, <2>3 DEF Older
<1>6. A = B
  BY <1>4, <1>5
<1>7. Cardinality(B) \in Nat
  <2>1. B \in SUBSET (1 .. e - 1) /\ e - 1 \in Int
    BY <1>2 DEF Earlier, Event
  <2>2. IsFiniteSet(1 .. e - 1)
    BY <2>1, FS_Interval
  <2> HIDE DEF B
  <2>3. IsFiniteSet(B)
    BY <2>1, <2>2, FS_Subset
  <2> QED  BY <2>3, FS_CardinalityType
<1>8. e \in P <=> Passes(Cardinality(A) % CounterSize)
  BY <1>1 DEF Stage
<1>9. RefPass0(e) <=> Passes(Cardinality(B))
  BY DEF RefPass0
<1> HIDE DEF A, B, M, P
<1>10. Passes(Cardinality(B) % CounterSize) <=> Passes(Cardinality(B))
  BY <1>7, PassesWrapped
<1> QED  BY <1>6, <1>8, <1>9, <1>10 DEF P

LEMMA SecondTdrop ==
    ASSUME ShardInv, Window <= 1 \/ CounterSize % Window = 0, NEW k \in Shard,
           NEW e \in OwnedOf(k, s0done[k], dispatched), CellUndivided(e)
    PROVE  e \in survived <=> RefPass1(e)
<1> DEFINE M == OwnedOf(k, s0done[k], dispatched)
           P == Elements(s1done[k])
           cell == Cells2(dispatched)
<1>1. FlowInv /\ Stage(P, survived \cap M, tdrop1[k], cell) /\ P \subseteq M
  BY DEF ShardInv, AllDrops, Drops, Stage
<1>2. M \subseteq Event /\ e \in Event /\ e \in M
  <2>1. s0done[k] \in Seq(Event)
    BY <1>1 DEF FlowInv, TypeOK
  <2> QED  BY <2>1 DEF OwnedOf, Elements
<1>3. \A n \in Event : cell[n] = Cell2(n)
  BY DEF Cells2, Cell2, Cell1, Event
<1>4. e \in P <=> RefPass0(e)
  BY FirstTdrop
<1> DEFINE A == Older(P, cell, e)
           B == {n \in Earlier(e) : RefPass0(n) /\ Cell2(n) = Cell2(e)}
<1>5. ASSUME NEW n \in Event, n < e, Cell2(n) = Cell2(e)
      PROVE  n \in P <=> RefPass0(n)
  <2>1. n \in 1 .. e
    BY <1>2, <1>5 DEF Event
  <2>2. n \in M /\ CellUndivided(n)
    BY <1>1, <1>5, <2>1, CellMates
  <2> QED  BY <2>2, FirstTdrop
<1>6. A \subseteq B
  <2> SUFFICES ASSUME NEW n \in P, n < e, cell[n] = cell[e] PROVE n \in B
    BY DEF Older
  <2>1. n \in Event /\ Cell2(n) = Cell2(e)
    BY <1>1, <1>2, <1>3
  <2>2. n \in Earlier(e)
    BY <1>2, <2>1 DEF Earlier, Event
  <2> QED  BY <1>5, <2>1, <2>2
<1>7. B \subseteq A
  <2> SUFFICES ASSUME NEW n \in Earlier(e), RefPass0(n), Cell2(n) = Cell2(e) PROVE n \in A
    OBVIOUS
  <2>1. n \in Event /\ n < e
    BY <1>2 DEF Earlier, Event
  <2>2. n \in P /\ cell[n] = cell[e]
    BY <1>2, <1>3, <1>5, <2>1
  <2> QED  BY <2>1, <2>2 DEF Older
<1>8. A = B
  BY <1>6, <1>7
<1>9. Cardinality(B) \in Nat
  <2>1. B \in SUBSET (1 .. e - 1) /\ e - 1 \in Int
    BY <1>2 DEF Earlier, Event
  <2>2. IsFiniteSet(1 .. e - 1)
    BY <2>1, FS_Interval
  <2> HIDE DEF B
  <2>3. IsFiniteSet(B)
    BY <2>1, <2>2, FS_Subset
  <2> QED  BY <2>3, FS_CardinalityType
<1>10. e \in P => (e \in survived <=> Passes(Cardinality(A) % CounterSize))
  BY <1>1, <1>2 DEF Stage
<1>11. e \in survived => e \in P
  BY <1>1, <1>2 DEF Stage
<1>12. RefPass1(e) <=> RefPass0(e) /\ Passes(Cardinality(B))
  BY DEF RefPass1
<1> HIDE DEF A, B, M, P
<1>13. Passes(Cardinality(B) % CounterSize) <=> Passes(Cardinality(B))
  BY <1>9, PassesWrapped
<1> QED  BY <1>4, <1>8, <1>10, <1>11, <1>12, <1>13

(* When the counters wrap at a multiple of the window (256 and 4 do), an   *)
(* event of an undivided cell passes both tdrops exactly as in one thread. *)
THEOREM TdropCorrect ==
    ASSUME Window <= 1 \/ CounterSize % Window = 0
    PROVE  Spec => []TdropAsReference
<1>1. Init => ShardInv
  BY ShardInit
<1>2. ShardInv /\ [Next]_vars => ShardInv'
  BY ShardStepKeeps
<1>3. ShardInv => TdropAsReference
  <2> SUFFICES ASSUME ShardInv, NEW k \in Shard, NEW e \in Owned(k), CellUndivided(e)
               PROVE  (e \in Elements(s1done[k]) <=> RefPass0(e)) /\ (e \in survived <=> RefPass1(e))
    BY DEF TdropAsReference
  <2>1. e \in OwnedOf(k, s0done[k], dispatched)
    BY DEF Owned, OwnedOf
  <2> QED  BY <2>1, FirstTdrop, SecondTdrop
<1> QED  BY <1>1, <1>2, <1>3, PTL DEF Spec

(* When the main thread is done the shards are empty and the counts add up. *)
THEOREM DrainedCorrect == Spec => []Drained
<1>1. Init => ShardInv
  BY ShardInit
<1>2. ShardInv /\ [Next]_vars => ShardInv'
  BY ShardStepKeeps
<1>3. ShardInv => Drained
  <2> SUFFICES ASSUME ShardInv, main = "done" PROVE Drained
    BY DEF Drained
  <2>1. FlowInv /\ Control /\ TypeOK /\ Lines /\ AllEnds /\ AllDrops
    BY DEF ShardInv, FlowInv
  <2>2. Len(dispatched) \in Nat /\ dispatched \in Seq(Column)
    BY <2>1 DEF TypeOK
  <2>3. pushing.event = 0 /\ nPushed = Len(dispatched)
    BY <2>1, <2>2 DEF Control, Closing
  <2>4. \A k \in Shard : queue[k] = << >>
    BY <2>1 DEF Control, AllEnds, Ends
  <2>5. ASSUME NEW k \in Shard
        PROVE  /\ count[k].owner = Cardinality({e \in Event : OwnerOf(dispatched[e]) = k})
               /\ count[k].owner + count[k].halo =
                      Cardinality({e \in Event : Reaches(k, dispatched[e])})
               /\ count[k].pass1 = Cardinality(survived \cap Owned(k))
    <3>1. Waiting(queue[k]) = {}
      <4>1. \A i : i \notin 1 .. Len(<< >>)
        OBVIOUS
      <4> QED  BY <2>4, <4>1 DEF Waiting
    <3>2. Sent(k, dispatched, pushing) = {e \in Event : Reaches(k, dispatched[e])}
      BY <2>3 DEF Sent, Event
    <3>3. Elements(s0done[k]) = {e \in Event : Reaches(k, dispatched[e])}
      BY <2>1, <3>1, <3>2 DEF Lines, Line
    <3>4. \A e \in Event : dispatched[e] \in Column
      BY <2>2 DEF Event
    <3>5. \A e \in Event : OwnerOf(dispatched[e]) = k => Reaches(k, dispatched[e])
      BY <3>4, ReachIs
    <3>6. OwnedOf(k, s0done[k], dispatched) = {e \in Event : OwnerOf(dispatched[e]) = k}
      BY <3>3, <3>5 DEF OwnedOf
    <3>7. Owned(k) = OwnedOf(k, s0done[k], dispatched)
      BY DEF Owned, OwnedOf
    <3>8. /\ count[k].owner = Cardinality(OwnedOf(k, s0done[k], dispatched))
          /\ count[k].owner + count[k].halo = Cardinality(Elements(s0done[k]))
          /\ count[k].pass1 = Cardinality(survived \cap OwnedOf(k, s0done[k], dispatched))
      BY <2>1 DEF AllDrops, Drops
    <3> QED  BY <3>3, <3>6, <3>7, <3>8
  <2> QED  BY <2>3, <2>4, <2>5 DEF Drained
<1> QED  BY <1>1, <1>2, <1>3, PTL DEF Spec

-----------------------------------------------------------------------------
(* When strips are a multiple of four columns wide no strip boundary       *)
(* divides a stage-2 cell.                                                 *)
THEOREM WholeCells ==
    ASSUME StripW % 4 = 0, NEW x \in Column, NEW y \in Column,
           Pooled(Pooled(x)) = Pooled(Pooled(y))
    PROVE  OwnerOf(x) = OwnerOf(y)
<1> DEFINE s == StripW \div 4
           c == Pooled(Pooled(x))
<1>1. s \in Nat \ {0} /\ StripW = 4 * s
  BY StripWidth
<1>2. ASSUME NEW z \in Column, Pooled(Pooled(z)) = c
      PROVE  /\ OwnerOf(z) \in Nat /\ c \in Nat
             /\ OwnerOf(z) * s <= c /\ c < (OwnerOf(z) + 1) * s
  <2> DEFINE i == OwnerOf(z)
  <2>1. i \in Nat /\ i * StripW <= z /\ z < (i + 1) * StripW /\ z \in Nat
    BY OwnerIs, Sizes DEF Shard, Column
  <2>2. c \in Nat /\ 4 * c <= z /\ z < 4 * c + 4
    <3>1. (z \div 2) \in Nat /\ 2 * (z \div 2) <= z /\ z < 2 * (z \div 2) + 2
      BY <2>1
    <3> DEFINE h == z \div 2
    <3>2. (h \div 2) \in Nat /\ 2 * (h \div 2) <= h /\ h < 2 * (h \div 2) + 2
      BY <3>1
    <3>3. c = h \div 2
      BY <1>2 DEF Pooled
    <3> HIDE DEF h, c
    <3> QED  BY <2>1, <3>1, <3>2, <3>3 DEF h
  <2> HIDE DEF i, c, s
  <2>3. i * StripW = 4 * (i * s) /\ (i + 1) * StripW = 4 * ((i + 1) * s)
        /\ i * s \in Nat /\ (i + 1) * s \in Nat
    BY <1>1, <2>1
  <2>4. i * s <= c /\ c < (i + 1) * s
    BY <2>1, <2>2, <2>3
  <2> QED  BY <2>1, <2>2, <2>4 DEF i
<1> DEFINE i == OwnerOf(x)
           j == OwnerOf(y)
<1>3. i \in Nat /\ c \in Nat /\ i * s <= c /\ c < (i + 1) * s
  BY <1>2
<1>4. j \in Nat /\ j * s <= c /\ c < (j + 1) * s
  BY <1>2
<1> HIDE DEF i, j, c, s
<1>5. i + 1 \in Nat /\ j + 1 \in Nat
  BY <1>3, <1>4
<1>6. i < j + 1
  BY <1>1, <1>3, <1>4, <1>5, QuotientBelow
<1>7. j < i + 1
  BY <1>1, <1>3, <1>4, <1>5, QuotientBelow
<1> QED  BY <1>3, <1>4, <1>6, <1>7 DEF i, j

(* With such strips every event, at the boundaries too, goes to stage 1    *)
(* and to the GPU exactly when it would with one thread.                   *)
THEOREM TdropWholeCorrect ==
    ASSUME Window <= 1 \/ CounterSize % Window = 0, StripW % 4 = 0
    PROVE  Spec => [](\A k \in Shard : \A e \in Owned(k) :
                          /\ e \in Elements(s1done[k]) <=> RefPass0(e)
                          /\ e \in survived <=> RefPass1(e))
<1>1. TypeOK /\ TdropAsReference => \A k \in Shard : \A e \in Owned(k) :
                                        /\ e \in Elements(s1done[k]) <=> RefPass0(e)
                                        /\ e \in survived <=> RefPass1(e)
  <2> SUFFICES ASSUME TypeOK, TdropAsReference, NEW k \in Shard, NEW e \in Owned(k)
               PROVE  (e \in Elements(s1done[k]) <=> RefPass0(e)) /\ (e \in survived <=> RefPass1(e))
    OBVIOUS
  <2>1. dispatched \in Seq(Column) /\ s0done[k] \in Seq(Event) /\ e \in Elements(s0done[k])
    BY DEF TypeOK, Owned
  <2>2. e \in 1 .. Len(dispatched)
    BY <2>1 DEF Elements, Event
  <2>3. dispatched[e] \in Column
    BY <2>1, <2>2
  <2>4. CellUndivided(e)
    BY <2>3, WholeCells DEF CellUndivided, Cell2, Cell1
  <2> QED  BY <2>4 DEF TdropAsReference
<1>2. Spec => []TypeOK
  BY TypeCorrect
<1>3. Spec => []TdropAsReference
  BY TdropCorrect
<1> QED  BY <1>1, <1>2, <1>3, PTL
=============================================================================

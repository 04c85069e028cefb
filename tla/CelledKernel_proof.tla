------------------------- MODULE CelledKernel_proof -------------------------
(***************************************************************************)
(* The partition of the cells among the nine warps of a block, for grids   *)
(* of every size: a patch has one cell of each warp, and in no reachable   *)
(* state do two warps have the same cell in hand.  Then what the partition *)
(* is for: a batch taken by nine warps, each at its own pace, leaves the   *)
(* counters, hidden states, sums and predictions that the oracle leaves    *)
(* when it takes the events one at a time.                                 *)
(***************************************************************************)
EXTENDS CelledKernel, InductionFacts, TLAPS, SequenceTheorems, FiniteSetTheorems

USE SequentialKernelAssumption, CelledKernelAssumption

-----------------------------------------------------------------------------
(* Arithmetic modulo 3.                                                    *)

(* The offset is one of a patch, and takes a coordinate to the remainder   *)
(* before the warp's own.                                                  *)
LEMMA OffsetRemainder ==
    ASSUME NEW own \in 0 .. 2, NEW v \in Int
    PROVE  /\ Offset(own, v) \in -1 .. 1
           /\ (v + Offset(own, v)) % 3 = (own + 2) % 3
BY DEF Offset

(* A coordinate of a patch is the one some warp row, or column, aims at.   *)
LEMMA OffsetOnto ==
    ASSUME NEW v \in Int, NEW u \in Int, u - v \in -1 .. 1
    PROVE  v + Offset((u + 1) % 3, v) = u
BY DEF Offset

(* A warp is its row and its column.                                       *)
LEMMA WarpOfResidue ==
    /\ \A w \in Warps : w \div 3 \in 0 .. 2 /\ w % 3 \in 0 .. 2
    /\ \A v, w \in Warps : v \div 3 = w \div 3 /\ v % 3 = w % 3 => v = w
    /\ \A i, j \in 0 .. 2 : 3 * i + j \in Warps /\ (3 * i + j) \div 3 = i
                            /\ (3 * i + j) % 3 = j
BY DEF Warps

-----------------------------------------------------------------------------
(* The partition.                                                          *)

SlotTyped == slot \in [Slots -> [x : 0 .. W2 - 1, y : 0 .. H2 - 1, owner : BOOLEAN]]

LEMMA SlotInt ==
    ASSUME SlotTyped, NEW e \in Slots
    PROVE  slot[e].x \in Int /\ slot[e].y \in Int
BY DEF SlotTyped

(* "For any event the 3x3 patch around it touches 9 cells: exactly one     *)
(* warp per cell": the nine targets of an event are its nine cells.        *)
THEOREM PatchPartition ==
    ASSUME SlotTyped, NEW e \in Slots, NEW c \in [x : Int, y : Int]
    PROVE  (\E w \in Warps : Target(w, e) = c)
              <=> c.x - slot[e].x \in -1 .. 1 /\ c.y - slot[e].y \in -1 .. 1
<1>1. slot[e].x \in Int /\ slot[e].y \in Int
  BY SlotInt
<1>2. ASSUME NEW w \in Warps, Target(w, e) = c
      PROVE  c.x - slot[e].x \in -1 .. 1 /\ c.y - slot[e].y \in -1 .. 1
  <2>1. w \div 3 \in 0 .. 2 /\ w % 3 \in 0 .. 2
    BY WarpOfResidue
  <2>2. /\ Offset(w % 3, slot[e].x) \in -1 .. 1
        /\ Offset(w \div 3, slot[e].y) \in -1 .. 1
    BY <1>1, <2>1, OffsetRemainder
  <2>3. /\ c.x = slot[e].x + Offset(w % 3, slot[e].x)
        /\ c.y = slot[e].y + Offset(w \div 3, slot[e].y)
    BY <1>2 DEF Target
  <2> QED
    BY <1>1, <2>2, <2>3
<1>3. ASSUME c.x - slot[e].x \in -1 .. 1, c.y - slot[e].y \in -1 .. 1
      PROVE  \E w \in Warps : Target(w, e) = c
  <2> DEFINE i == (c.y + 1) % 3
             j == (c.x + 1) % 3
             w == 3 * i + j
  <2>1. c.x \in Int /\ c.y \in Int
    OBVIOUS
  <2>2. i \in 0 .. 2 /\ j \in 0 .. 2
    BY <2>1
  <2>3. w \in Warps /\ w \div 3 = i /\ w % 3 = j
    <3> HIDE DEF i, j
    <3> QED BY <2>2, WarpOfResidue
  <2>4. /\ slot[e].x + Offset(j, slot[e].x) = c.x
        /\ slot[e].y + Offset(i, slot[e].y) = c.y
    BY <1>1, <1>3, <2>1, OffsetOnto
  <2>5. Target(w, e) = [x |-> c.x, y |-> c.y]
    <3> HIDE DEF i, j, w
    <3> QED BY <2>3, <2>4 DEF Target
  <2> QED
    BY <2>3, <2>5
<1> QED
  BY <1>2, <1>3

(* Two warps never aim at one cell, whichever events they are at.          *)
LEMMA TargetsDiffer ==
    ASSUME SlotTyped, NEW v \in Warps, NEW w \in Warps,
           NEW d \in Slots, NEW e \in Slots, Target(v, d) = Target(w, e)
    PROVE  v = w
<1>1. /\ slot[d].x \in Int /\ slot[d].y \in Int
      /\ slot[e].x \in Int /\ slot[e].y \in Int
  BY SlotInt
<1>2. /\ v \div 3 \in 0 .. 2 /\ v % 3 \in 0 .. 2
      /\ w \div 3 \in 0 .. 2 /\ w % 3 \in 0 .. 2
  BY WarpOfResidue
<1>3. /\ slot[d].x + Offset(v % 3, slot[d].x) = slot[e].x + Offset(w % 3, slot[e].x)
      /\ slot[d].y + Offset(v \div 3, slot[d].y)
            = slot[e].y + Offset(w \div 3, slot[e].y)
  BY DEF Target
<1>4. /\ ((v % 3) + 2) % 3 = ((w % 3) + 2) % 3
      /\ ((v \div 3) + 2) % 3 = ((w \div 3) + 2) % 3
  BY <1>1, <1>2, <1>3, OffsetRemainder
<1>5. \A a, b \in 0 .. 2 : (a + 2) % 3 = (b + 2) % 3 => a = b
  OBVIOUS
<1>6. v % 3 = w % 3 /\ v \div 3 = w \div 3
  BY <1>2, <1>4, <1>5
<1> QED
  BY <1>6, WarpOfResidue

(* A warp in the middle of a step is at an event of the batch.             *)
LEMMA HoldsSlot ==
    ASSUME IndInv, NEW w \in Warps, wpc[w] # "walk"
    PROVE  /\ at[w] \in 1 .. size /\ at[w] \in Slots
           /\ at[w] + 1 \in 1 .. Batch + 1
<1>1. size \in 0 .. Batch /\ at \in [Warps -> 1 .. Batch + 1]
  BY DEF IndInv, TypeOK
<1>2. at[w] \in 1 .. Batch + 1
  BY <1>1
<1>3. at[w] <= size
  BY DEF IndInv, Holding
<1>4. Batch \in Nat
  BY CelledKernelAssumption
<1> QED
  BY <1>1, <1>2, <1>3, <1>4 DEF Slots

(* The invariant has the property in it.                                   *)
LEMMA HoldingDiffers ==
    ASSUME IndInv
    PROVE  OneWarpPerCell
<1> SUFFICES ASSUME NEW v \in Warps, NEW w \in Warps, v # w,
                    wpc[v] = "loaded", wpc[w] = "loaded",
                    InHand(v) = InHand(w)
             PROVE  FALSE
  BY DEF OneWarpPerCell
<1>1. SlotTyped
  BY DEF IndInv, TypeOK, SlotTyped
<1>2. at[v] \in Slots /\ at[w] \in Slots
  <2>1. wpc[v] # "walk" /\ wpc[w] # "walk"
    OBVIOUS
  <2> QED
    BY <2>1, HoldsSlot
<1>3. CASE phase.kind = "layer"
  BY <1>1, <1>2, <1>3, TargetsDiffer DEF InHand
<1>4. CASE phase.kind = "tdrop"
  <2>1. HasCenter(v, at[v]) /\ HasCenter(w, at[w])
    BY <1>4 DEF IndInv, Holding
  <2>2. Cell(at[v]) = Cell(at[w])
    BY <1>4 DEF InHand
  <2> QED
    BY <2>1, <2>2, WarpOfResidue DEF HasCenter, Cell
<1> QED
  BY <1>3, <1>4 DEF IndInv, Holding

-----------------------------------------------------------------------------
(* The invariant is inductive.                                             *)

LEMMA PhaseKinds ==
    ASSUME phase \in Phases
    PROVE  /\ phase.kind = "tdrop" <=> phase \in {Tdrop(2), Tdrop(3)}
           /\ phase.kind = "layer" <=> \E layer \in Layers : phase = Layer(layer)
           /\ phase.kind = "tdrop" => phase.of \in Stages
           /\ phase.kind = "layer" => phase.of \in Layers
           /\ phase = InHead => phase.kind = "head"
           /\ phase = Pop => phase.kind = "pop"
BY DEF Phases, Tdrop, Layer, InHead, Pop, Stages, Layers

(* In a tdrop, the cell of an event has a counter.                         *)
LEMMA CellHasCounter ==
    ASSUME IndInv, phase.kind = "tdrop", NEW e \in 1 .. size
    PROVE  Cell(e) \in Cells(phase.of)
<1>1. e \in Slots /\ phase \in {Tdrop(2), Tdrop(3)}
  BY PhaseKinds DEF IndInv, TypeOK, Slots
<1>2. CASE phase = Tdrop(2)
  <2>1. slot[e].x \in 0 .. W2 - 1 /\ slot[e].y \in 0 .. H2 - 1
    BY <1>1 DEF IndInv, TypeOK
  <2> QED
    BY <1>2, <2>1 DEF Cells, Cell, Tdrop
<1>3. CASE phase = Tdrop(3)
  BY <1>3 DEF IndInv, Pooled, Tdrop
<1> QED
  BY <1>1, <1>2, <1>3

LEMMA InitIndInv == Init => IndInv
<1> SUFFICES ASSUME Init PROVE IndInv
  OBVIOUS
<1>1. TypeOK
  <2>1. phase \in Phases /\ size \in 0 .. Batch /\ size <= Len(stream)
    BY EmptySeq DEF Init, Phases
  <2>2. slot \in [Slots -> [x : 0 .. W2 - 1, y : 0 .. H2 - 1, owner : BOOLEAN]]
    BY DEF Init
  <2>3. /\ feat \in [Slots -> 3 .. 7] /\ pass \in [Stages -> [Slots -> BOOLEAN]]
        /\ at \in [Warps -> 1 .. Batch + 1] /\ wpc \in [Warps -> Step]
        /\ number \in [Warps -> Nat]
        /\ preds \in [OwnedS3 -> [box : Nat, class : Nat]]
        /\ version \in [OwnedS3 -> Nat] /\ shared \subseteq OwnedS3
    BY DEF Init, Step
  <2>4. DOMAIN td = Stages /\ DOMAIN hidden = Layers
    BY DEF Init
  <2>5. \A stage \in Stages :
          td[stage] \in [Cells(stage) -> 0 .. CounterRange - 1]
    BY DEF Init, CounterRange
  <2>6. << >> \in Updates /\ << >> \in Seq(Cells(2))
    BY EmptySeq DEF Updates
  <2>7. \A layer \in Layers :
          hidden[layer] \in [Cells(StageOf(layer)) -> Updates]
    BY <2>6 DEF Init
  <2>8. updates \in [Warps -> Updates] /\ stream \in Seq(Cells(2))
    BY <2>6 DEF Init
  <2> QED
    BY <2>1, <2>2, <2>3, <2>4, <2>5, <2>7, <2>8 DEF TypeOK
<1>2. Pooled
  BY DEF Init, Pooled, Pop, Tdrop, Layer, InHead
<1>3. Holding
  BY DEF Init, Holding
<1> QED
  BY <1>1, <1>2, <1>3 DEF IndInv

(* Between batches every warp is walking.                                  *)
LEMMA WalkingAtPop ==
    ASSUME IndInv, phase = Pop, NEW w \in Warps
    PROVE  wpc[w] = "walk"
BY DEF IndInv, TypeOK, Holding, Step, Pop, InHead

LEMMA LoadBatchKeeps ==
    ASSUME IndInv, NEW n \in Slots, NEW events \in [1 .. n -> EventCells],
           LoadBatch(events)
    PROVE  IndInv'
<1> USE DEF LoadBatch
<1>1. events \in Seq(Cells(2)) /\ Len(events) = n
  <2>1. n \in Nat /\ events \in [1 .. n -> Cells(2)]
    BY DEF Slots
  <2>2. events \in Seq(Cells(2))
    <3> DEFINE S == Cells(2)
    <3>1. Seq(S) = UNION {[1 .. m -> S] : m \in Nat}
      BY SeqDef
    <3>2. events \in [1 .. n -> S]
      BY <2>1
    <3> HIDE DEF S
    <3> QED BY <2>1, <3>1, <3>2
  <2>3. Len(events) \in Nat /\ 1 .. Len(events) = 1 .. n
    BY <2>1, <2>2, LenProperties
  <2>4. n \in 1 .. Len(events) /\ (Len(events) = 0 \/ Len(events) \in 1 .. n)
    BY <2>1, <2>3 DEF Slots
  <2> QED
    BY <2>1, <2>2, <2>3, <2>4
<1>2. stream \in Seq(Cells(2))
  BY DEF IndInv, TypeOK
<1>3. /\ stream' \in Seq(Cells(2))
      /\ Len(stream') = Len(stream) + n
      /\ Len(stream) \in Nat
  BY <1>1, <1>2, ConcatProperties, LenProperties
<1>4. size' = n /\ size' \in 0 .. Batch /\ size' <= Len(stream')
  BY <1>1, <1>3 DEF Slots
<1>5. slot' \in [Slots -> [x : 0 .. W2 - 1, y : 0 .. H2 - 1, owner : BOOLEAN]]
  <2>1. ASSUME NEW e \in Slots, e <= Len(events)
        PROVE  events[e].x \in 0 .. W2 - 1 /\ events[e].y \in 0 .. H2 - 1
    <3>1. events[e] \in Cells(2)
      BY <1>1, <2>1 DEF Slots
    <3> QED
      BY <3>1 DEF Cells
  <2>2. slot \in [Slots -> [x : 0 .. W2 - 1, y : 0 .. H2 - 1, owner : BOOLEAN]]
    BY DEF IndInv, TypeOK
  <2> QED
    BY <2>1, <2>2
<1>6. feat' \in [Slots -> 3 .. 7]
  BY DEF IndInv, TypeOK
<1>7. at' \in [Warps -> 1 .. Batch + 1]
  OBVIOUS
<1>8. TypeOK'
  BY <1>3, <1>4, <1>5, <1>6, <1>7 DEF IndInv, TypeOK, cells, Phases
<1>9. Pooled'
  BY DEF Pooled, Tdrop, Layer, InHead
<1>10. Holding'
  BY WalkingAtPop DEF Holding
<1> QED
  BY <1>8, <1>9, <1>10 DEF IndInv

(* A barrier at which every warp has arrived.                              *)
LEMMA EnterKeeps ==
    ASSUME IndInv, NEW next \in Phases, Enter(next),
           slot' \in [Slots -> [x : 0 .. W2 - 1, y : 0 .. H2 - 1, owner : BOOLEAN]],
           feat' \in [Slots -> 3 .. 7],
           shared' \subseteq OwnedS3,
           Pooled'
    PROVE  IndInv'
<1>1. /\ phase' \in Phases
      /\ at' \in [Warps -> 1 .. Batch + 1] /\ wpc' \in [Warps -> Step]
  BY DEF Enter, Step
<1>2. TypeOK'
  BY <1>1 DEF IndInv, TypeOK, Enter, cells
<1>3. Holding'
  BY DEF Enter, Holding
<1> QED
  BY <1>2, <1>3 DEF IndInv

LEMMA GatheredTyped ==
    ASSUME TypeOK, phase.kind = "layer"
    PROVE  Gathered \in [Slots -> 3 .. 7]
<1>1. phase.of \in 3 .. 7
  BY PhaseKinds DEF TypeOK, Layers
<1> QED
  BY <1>1 DEF TypeOK, Gathered

(* Pooling takes every cell of the s2 grid to one of the s3 grid: this is  *)
(* where the extents must be even.                                         *)
LEMMA HalfOnGrid ==
    ASSUME NEW x \in 0 .. W2 - 1, NEW y \in 0 .. H2 - 1
    PROVE  /\ x \div 2 \in 0 .. W2 - 1 /\ y \div 2 \in 0 .. H2 - 1
           /\ [x |-> x \div 2, y |-> y \div 2] \in Cells(3)
<1>1. x \div 2 \in 0 .. (W2 \div 2) - 1 /\ y \div 2 \in 0 .. (H2 \div 2) - 1
  OBVIOUS
<1>2. x \div 2 \in 0 .. W2 - 1 /\ y \div 2 \in 0 .. H2 - 1
  OBVIOUS
<1> QED
  BY <1>1, <1>2 DEF Cells

LEMMA BarrierKeeps ==
    ASSUME IndInv, Barrier
    PROVE  IndInv'
<1>0. TypeOK /\ Pooled
  BY DEF IndInv
<1>1. CASE EndTdrop
  <2>1. phase \in {Tdrop(2), Tdrop(3)}
    BY <1>0, <1>1, PhaseKinds DEF EndTdrop, TypeOK
  <2>2. Enter(Layer(IF phase.of = 2 THEN 4 ELSE 6))
    BY <1>1 DEF EndTdrop
  <2>3. Pooled'
    BY <1>0, <1>1, <2>1, <2>2
       DEF EndTdrop, Pooled, Enter, Layer, Tdrop, InHead, Cell
  <2>4. Layer(IF phase.of = 2 THEN 4 ELSE 6) \in Phases
    BY DEF Phases, Layers
  <2> QED
    BY <1>0, <1>1, <2>2, <2>3, <2>4, EnterKeeps DEF EndTdrop, TypeOK
<1>2. CASE EndFirstLayer
  <2>1. Enter(Layer(phase.of + 1))
    BY <1>2 DEF EndFirstLayer
  <2>2. phase \in {Layer(4), Layer(6)} /\ phase.kind = "layer"
    BY <1>2 DEF EndFirstLayer, Layer
  <2>3. Layer(phase.of + 1) \in Phases
    BY <2>2 DEF Phases, Layers, Layer
  <2>4. Pooled'
    BY <1>0, <1>2, <2>1, <2>2
       DEF EndFirstLayer, Pooled, Enter, Layer, Tdrop, InHead, Cell
  <2>5. feat' \in [Slots -> 3 .. 7]
    BY <1>0, <1>2, <2>2, GatheredTyped DEF EndFirstLayer
  <2> QED
    BY <1>0, <1>2, <2>1, <2>3, <2>4, <2>5, EnterKeeps DEF EndFirstLayer, TypeOK
<1>3. CASE EndStage2
  <2>1. Enter(Tdrop(3)) /\ Tdrop(3) \in Phases /\ phase.kind = "layer"
    BY <1>3 DEF EndStage2, Phases, Layer
  <2>2. ASSUME NEW e \in Slots
        PROVE  slot[e] \in [x : 0 .. W2 - 1, y : 0 .. H2 - 1, owner : BOOLEAN]
    BY <1>0 DEF TypeOK
  <2>3. ASSUME NEW e \in Slots
        PROVE  slot'[e] \in [x : 0 .. W2 - 1, y : 0 .. H2 - 1, owner : BOOLEAN]
    <3>1. slot[e].x \in 0 .. W2 - 1 /\ slot[e].y \in 0 .. H2 - 1
      BY <2>2
    <3>2. slot[e].x \div 2 \in 0 .. W2 - 1 /\ slot[e].y \div 2 \in 0 .. H2 - 1
      BY <3>1, HalfOnGrid
    <3> QED
      BY <1>3, <2>2, <3>2 DEF EndStage2
  <2>4. slot' \in [Slots -> [x : 0 .. W2 - 1, y : 0 .. H2 - 1, owner : BOOLEAN]]
    BY <1>3, <2>3 DEF EndStage2
  <2>5. Pooled'
    <3>1. ASSUME NEW e \in 1 .. size
          PROVE  Cell(e)' \in Cells(3)
      <4>1. e \in Slots
        BY <1>0 DEF TypeOK, Slots
      <4>2. slot[e].x \in 0 .. W2 - 1 /\ slot[e].y \in 0 .. H2 - 1
        BY <2>2, <4>1
      <4>3. /\ slot'[e].x = slot[e].x \div 2
            /\ slot'[e].y = slot[e].y \div 2
        <5>1. e <= size /\ slot[e] \in [x : 0 .. W2 - 1, y : 0 .. H2 - 1,
                                       owner : BOOLEAN]
          BY <1>0, <2>2, <4>1 DEF TypeOK
        <5>2. slot'[e] = [slot[e] EXCEPT !.x = @ \div 2, !.y = @ \div 2]
          BY <1>3, <4>1, <5>1 DEF EndStage2
        <5> QED
          BY <5>1, <5>2
      <4> QED
        BY <4>2, <4>3, HalfOnGrid DEF Cell
    <3>2. size' = size
      BY <2>1 DEF Enter
    <3> QED
      BY <3>1, <3>2 DEF Pooled
  <2>6. feat' \in [Slots -> 3 .. 7]
    BY <1>0, <1>3, <2>1, GatheredTyped DEF EndStage2
  <2> QED
    BY <1>0, <1>3, <2>1, <2>4, <2>5, <2>6, EnterKeeps DEF EndStage2, TypeOK
<1>4. CASE EndStage3
  <2>1. Enter(InHead) /\ InHead \in Phases /\ phase.kind = "layer"
    BY <1>4 DEF EndStage3, Phases, Layer
  <2>2. Pooled'
    BY <1>0, <1>4, <2>1 DEF EndStage3, Pooled, Enter, Cell
  <2>3. feat' \in [Slots -> 3 .. 7]
    BY <1>0, <1>4, <2>1, GatheredTyped DEF EndStage3
  <2> QED
    BY <1>0, <1>4, <2>1, <2>2, <2>3, EnterKeeps DEF EndStage3, TypeOK
<1>5. CASE EndHead
  <2>1. Enter(Pop) /\ Pop \in Phases
    BY <1>5 DEF EndHead, Phases
  <2>2. Pooled'
    BY <2>1 DEF Enter, Pooled, Pop, Tdrop, Layer, InHead
  <2>3. shared' \subseteq OwnedS3
    BY <1>0, <1>5 DEF EndHead, TypeOK, Predicts
  <2> QED
    BY <1>0, <1>5, <2>1, <2>2, <2>3, EnterKeeps DEF EndHead, TypeOK
<1> QED
  BY <1>1, <1>2, <1>3, <1>4, <1>5 DEF Barrier

(* A step of one warp disturbs neither the pooled coordinates nor what the *)
(* other warps hold.                                                       *)
LEMMA OthersKeep ==
    ASSUME IndInv, NEW w \in Warps, NEW e \in Slots, NEW pc \in Step,
           UNCHANGED <<phase, size, slot>>,
           at' = [at EXCEPT ![w] = e],
           wpc' = [wpc EXCEPT ![w] = pc],
           pc # "walk" => e <= size,
           pc = "loaded" => \/ phase.kind = "layer"
                            \/ phase.kind = "tdrop" /\ HasCenter(w, e),
           pc \in {"box", "class", "version"} =>
              phase = InHead /\ Cell(e) \in OwnedS3
    PROVE  /\ Pooled' /\ Holding'
           /\ at' \in [Warps -> 1 .. Batch + 1] /\ wpc' \in [Warps -> Step]
<1>1. at \in [Warps -> 1 .. Batch + 1] /\ wpc \in [Warps -> Step]
  BY DEF IndInv, TypeOK
<1>2. at' \in [Warps -> 1 .. Batch + 1] /\ wpc' \in [Warps -> Step]
  BY <1>1 DEF Slots
<1>3. Pooled'
  BY DEF IndInv, Pooled, Cell
<1>4. Holding'
  <2> SUFFICES ASSUME NEW v \in Warps
               PROVE  /\ wpc'[v] # "walk" => at'[v] <= size
                      /\ wpc'[v] = "loaded" =>
                            \/ phase.kind = "layer"
                            \/ phase.kind = "tdrop" /\ HasCenter(v, at'[v])
                      /\ wpc'[v] \in {"box", "class", "version"} =>
                            phase = InHead /\ Cell(at'[v]) \in OwnedS3
    BY DEF Holding, HasCenter, Cell
  <2>1. CASE v = w
    <3>1. at'[v] = e /\ wpc'[v] = pc
      BY <1>1, <2>1
    <3> QED
      BY <2>1, <3>1
  <2>2. CASE v # w
    <3>1. at'[v] = at[v] /\ wpc'[v] = wpc[v]
      BY <1>1, <2>2
    <3> QED
      BY <3>1 DEF IndInv, Holding
  <2> QED
    BY <2>1, <2>2
<1> QED
  BY <1>2, <1>3, <1>4

(* The same of a warp that walks on.                                       *)
LEMMA WalkersKeep ==
    ASSUME IndInv, NEW w \in Warps, UNCHANGED <<phase, size, slot>>,
           NEW e \in 1 .. Batch + 1,
           at' = [at EXCEPT ![w] = e],
           wpc' = [wpc EXCEPT ![w] = "walk"]
    PROVE  /\ Pooled' /\ Holding'
           /\ at' \in [Warps -> 1 .. Batch + 1] /\ wpc' \in [Warps -> Step]
<1>1. at \in [Warps -> 1 .. Batch + 1] /\ wpc \in [Warps -> Step]
  BY DEF IndInv, TypeOK
<1>2. at' \in [Warps -> 1 .. Batch + 1] /\ wpc' \in [Warps -> Step]
  BY <1>1 DEF Step
<1>3. Pooled'
  BY DEF IndInv, Pooled, Cell
<1>4. Holding'
  <2> SUFFICES ASSUME NEW v \in Warps, wpc'[v] # "walk"
               PROVE  /\ at'[v] <= size
                      /\ wpc'[v] = "loaded" =>
                            \/ phase.kind = "layer"
                            \/ phase.kind = "tdrop" /\ HasCenter(v, at'[v])
                      /\ wpc'[v] \in {"box", "class", "version"} =>
                            phase = InHead /\ Cell(at'[v]) \in OwnedS3
    BY DEF Holding, HasCenter, Cell
  <2>1. v # w /\ at'[v] = at[v] /\ wpc'[v] = wpc[v]
    BY <1>1
  <2> QED
    BY <2>1 DEF IndInv, Holding
<1> QED
  BY <1>2, <1>3, <1>4

LEMMA ComesToSlot ==
    ASSUME IndInv, NEW w \in Warps, NEW e \in Slots, ComesTo(w, e)
    PROVE  e \in 1 .. size /\ HasTask(w, e) /\ wpc[w] = "walk"
BY DEF ComesTo, IndInv, TypeOK, Slots


LEMMA MaskOutKeeps ==
    ASSUME IndInv, NEW w \in Warps, NEW e \in Slots, MaskOut(w, e)
    PROVE  IndInv'
<1>1. e \in 1 .. size /\ wpc[w] = "walk" /\ e + 1 \in 1 .. Batch + 1
  BY ComesToSlot DEF MaskOut, Slots
<1>2. wpc' = [wpc EXCEPT ![w] = "walk"]
  BY <1>1 DEF MaskOut, IndInv, TypeOK
<1>3. /\ Pooled' /\ Holding'
      /\ at' \in [Warps -> 1 .. Batch + 1] /\ wpc' \in [Warps -> Step]
  BY <1>1, <1>2, WalkersKeep DEF MaskOut
<1>4. pass' \in [Stages -> [Slots -> BOOLEAN]]
  BY PhaseKinds DEF MaskOut, IndInv, TypeOK
<1>5. TypeOK'
  BY <1>3, <1>4 DEF MaskOut, IndInv, TypeOK, cells
<1> QED
  BY <1>3, <1>5 DEF IndInv

LEMMA LoadCounterKeeps ==
    ASSUME IndInv, NEW w \in Warps, NEW e \in Slots, LoadCounter(w, e)
    PROVE  IndInv'
<1>1. e \in 1 .. size /\ HasTask(w, e) /\ phase.kind = "tdrop"
  BY ComesToSlot DEF LoadCounter
<1>2. HasCenter(w, e)
  BY <1>1 DEF LoadCounter, HasTask
<1>3. /\ Pooled' /\ Holding'
      /\ at' \in [Warps -> 1 .. Batch + 1] /\ wpc' \in [Warps -> Step]
  <2>1. "loaded" \in Step /\ e <= size
    BY <1>1 DEF Step, IndInv, TypeOK
  <2> QED
    BY <1>1, <1>2, <2>1, OthersKeep DEF LoadCounter, Stop, block
<1>4. number' \in [Warps -> Nat]
  <2>1. phase.of \in Stages /\ Cell(e) \in Cells(phase.of)
    BY <1>1, PhaseKinds, CellHasCounter DEF IndInv, TypeOK
  <2>2. td[phase.of][Cell(e)] \in Nat
    <3>1. td[phase.of] \in [Cells(phase.of) -> 0 .. CounterRange - 1]
      BY <2>1 DEF IndInv, TypeOK
    <3>2. td[phase.of][Cell(e)] \in 0 .. CounterRange - 1
      BY <2>1, <3>1
    <3> QED
      BY <3>2 DEF CounterRange
  <2> QED
    BY <2>2 DEF LoadCounter, IndInv, TypeOK
<1>5. TypeOK'
  BY <1>3, <1>4 DEF LoadCounter, IndInv, TypeOK, block, cells
<1> QED
  BY <1>3, <1>5 DEF IndInv

LEMMA StoreCounterKeeps ==
    ASSUME IndInv, NEW w \in Warps, StoreCounter(w)
    PROVE  IndInv'
<1>1. /\ at[w] \in 1 .. size /\ at[w] \in Slots
      /\ at[w] + 1 \in 1 .. Batch + 1
  BY HoldsSlot DEF StoreCounter
<1>2. /\ Pooled' /\ Holding'
      /\ at' \in [Warps -> 1 .. Batch + 1] /\ wpc' \in [Warps -> Step]
  BY <1>1, WalkersKeep DEF StoreCounter, WalkOn, IndInv, TypeOK
<1>3. phase.of \in Stages
  BY PhaseKinds DEF StoreCounter, IndInv, TypeOK
<1>4. pass' \in [Stages -> [Slots -> BOOLEAN]]
  BY <1>1, <1>3 DEF StoreCounter, Lets, IndInv, TypeOK
<1>5. number' \in [Warps -> Nat] /\ number[w] \in Nat
  BY DEF StoreCounter, IndInv, TypeOK
<1>6. Increment(number[w]) \in 0 .. CounterRange - 1
  BY <1>5 DEF Increment, CounterRange
<1>7. /\ DOMAIN td' = Stages
      /\ \A stage \in Stages :
            td'[stage] \in [Cells(stage) -> 0 .. CounterRange - 1]
  BY <1>3, <1>6 DEF StoreCounter, IndInv, TypeOK
<1>8. TypeOK'
  BY <1>2, <1>4, <1>5, <1>7 DEF StoreCounter, IndInv, TypeOK
<1> QED
  BY <1>2, <1>8 DEF IndInv

LEMMA LoadCellKeeps ==
    ASSUME IndInv, NEW w \in Warps, NEW e \in Slots, LoadCell(w, e)
    PROVE  IndInv'
<1>1. e \in 1 .. size /\ HasTask(w, e) /\ phase.kind = "layer"
  BY ComesToSlot DEF LoadCell
<1>2. /\ Pooled' /\ Holding'
      /\ at' \in [Warps -> 1 .. Batch + 1] /\ wpc' \in [Warps -> Step]
  <2>1. "loaded" \in Step /\ e <= size
    BY <1>1 DEF Step, IndInv, TypeOK
  <2> QED
    BY <1>1, <2>1, OthersKeep DEF LoadCell, Stop, block
<1>3. updates' \in [Warps -> Updates]
  <2>1. phase.of \in Layers /\ Target(w, e) \in Cells(StageOf(phase.of))
    BY <1>1, PhaseKinds DEF HasTask, IndInv, TypeOK
  <2>2. hidden[phase.of][Target(w, e)] \in Updates
    BY <2>1 DEF IndInv, TypeOK
  <2>3. [event |-> Number(e), from |-> feat[e]] \in [event : Nat, from : 3 .. 7]
    <3>1. stream \in Seq(Cells(2)) /\ size \in Nat /\ size <= Len(stream)
          /\ feat[e] \in 3 .. 7
      BY DEF IndInv, TypeOK
    <3>2. Len(stream) \in Nat
      BY <3>1, LenProperties
    <3>3. Number(e) \in Nat
      BY <1>1, <3>1, <3>2 DEF Number
    <3> QED
      BY <3>1, <3>3
  <2>4. Append(hidden[phase.of][Target(w, e)],
               [event |-> Number(e), from |-> feat[e]]) \in Updates
    BY <2>2, <2>3, AppendProperties DEF Updates
  <2> QED
    BY <2>4 DEF LoadCell, IndInv, TypeOK
<1>4. TypeOK'
  BY <1>2, <1>3 DEF LoadCell, IndInv, TypeOK, block, cells
<1> QED
  BY <1>2, <1>4 DEF IndInv

LEMMA StoreCellKeeps ==
    ASSUME IndInv, NEW w \in Warps, StoreCell(w)
    PROVE  IndInv'
<1>1. /\ at[w] \in 1 .. size /\ at[w] \in Slots
      /\ at[w] + 1 \in 1 .. Batch + 1
  BY HoldsSlot DEF StoreCell
<1>2. /\ Pooled' /\ Holding'
      /\ at' \in [Warps -> 1 .. Batch + 1] /\ wpc' \in [Warps -> Step]
  BY <1>1, WalkersKeep DEF StoreCell, WalkOn, IndInv, TypeOK
<1>3. phase.of \in Layers
  BY PhaseKinds DEF StoreCell, IndInv, TypeOK
<1>4. updates[w] \in Updates
  BY DEF IndInv, TypeOK
<1>5. updates' \in [Warps -> Updates]
  <2>1. << >> \in Updates
    BY EmptySeq DEF Updates
  <2> QED
    BY <2>1 DEF StoreCell, IndInv, TypeOK
<1>6. /\ DOMAIN hidden' = Layers
      /\ \A layer \in Layers :
            hidden'[layer] \in [Cells(StageOf(layer)) -> Updates]
  BY <1>3, <1>4 DEF StoreCell, IndInv, TypeOK
<1>7. TypeOK'
  BY <1>2, <1>5, <1>6 DEF StoreCell, IndInv, TypeOK
<1> QED
  BY <1>2, <1>7 DEF IndInv

LEMMA WriteBoxKeeps ==
    ASSUME IndInv, NEW w \in Warps, NEW e \in Slots, WriteBox(w, e)
    PROVE  IndInv'
<1>1. e \in 1 .. size /\ HasTask(w, e) /\ phase = InHead
  BY ComesToSlot DEF WriteBox
<1>2. Cell(e) \in OwnedS3
  BY <1>1 DEF HasTask, Predicts, InHead
<1>3. /\ Pooled' /\ Holding'
      /\ at' \in [Warps -> 1 .. Batch + 1] /\ wpc' \in [Warps -> Step]
  <2>1. "box" \in Step /\ e <= size
    BY <1>1 DEF Step, IndInv, TypeOK
  <2> QED
    BY <1>1, <1>2, <2>1, OthersKeep DEF WriteBox, Stop, block
<1>4. Number(e) \in Nat
  <2>1. stream \in Seq(Cells(2)) /\ size \in Nat /\ size <= Len(stream)
    BY DEF IndInv, TypeOK
  <2>2. Len(stream) \in Nat
    BY <2>1, LenProperties
  <2> QED
    BY <1>1, <2>1, <2>2 DEF Number
<1>5. preds' \in [OwnedS3 -> [box : Nat, class : Nat]]
  BY <1>2, <1>4 DEF WriteBox, IndInv, TypeOK
<1>6. TypeOK'
  BY <1>3, <1>5 DEF WriteBox, IndInv, TypeOK, block
<1> QED
  BY <1>3, <1>6 DEF IndInv

(* In the middle of the head a warp is at a prediction cell of the strip.  *)
LEMMA InTheHead ==
    ASSUME IndInv, NEW w \in Warps, wpc[w] \in {"box", "class", "version"}
    PROVE  /\ phase = InHead /\ Cell(at[w]) \in OwnedS3
           /\ at[w] \in 1 .. size /\ at[w] \in Slots /\ at[w] <= size
           /\ at[w] + 1 \in 1 .. Batch + 1
<1>1. wpc[w] # "walk"
  OBVIOUS
<1> QED
  BY <1>1, HoldsSlot DEF IndInv, Holding

LEMMA WriteClassKeeps ==
    ASSUME IndInv, NEW w \in Warps, WriteClass(w)
    PROVE  IndInv'
<1>1. /\ phase = InHead /\ Cell(at[w]) \in OwnedS3
      /\ at[w] \in 1 .. size /\ at[w] \in Slots /\ at[w] <= size
  BY InTheHead DEF WriteClass
<1>2. /\ Pooled' /\ Holding'
      /\ at' \in [Warps -> 1 .. Batch + 1] /\ wpc' \in [Warps -> Step]
  <2>1. "class" \in Step
    BY DEF Step
  <2> QED
    BY <1>1, <2>1, OthersKeep DEF WriteClass, Stop, block
<1>3. Number(at[w]) \in Nat
  <2>1. stream \in Seq(Cells(2)) /\ size \in Nat /\ size <= Len(stream)
    BY DEF IndInv, TypeOK
  <2>2. Len(stream) \in Nat
    BY <2>1, LenProperties
  <2> QED
    BY <1>1, <2>1, <2>2 DEF Number
<1>4. preds' \in [OwnedS3 -> [box : Nat, class : Nat]]
  BY <1>1, <1>3 DEF WriteClass, IndInv, TypeOK
<1>5. TypeOK'
  BY <1>2, <1>4 DEF WriteClass, IndInv, TypeOK, block
<1> QED
  BY <1>2, <1>5 DEF IndInv

LEMMA LoadVersionKeeps ==
    ASSUME IndInv, NEW w \in Warps, LoadVersion(w)
    PROVE  IndInv'
<1>1. /\ phase = InHead /\ Cell(at[w]) \in OwnedS3
      /\ at[w] \in 1 .. size /\ at[w] \in Slots /\ at[w] <= size
  BY InTheHead DEF LoadVersion
<1>2. /\ Pooled' /\ Holding'
      /\ at' \in [Warps -> 1 .. Batch + 1] /\ wpc' \in [Warps -> Step]
  <2>1. "version" \in Step
    BY DEF Step
  <2> QED
    BY <1>1, <2>1, OthersKeep DEF LoadVersion, Stop, block
<1>3. number' \in [Warps -> Nat]
  BY <1>1 DEF LoadVersion, IndInv, TypeOK
<1>4. TypeOK'
  BY <1>2, <1>3 DEF LoadVersion, IndInv, TypeOK, block, cells
<1> QED
  BY <1>2, <1>4 DEF IndInv

LEMMA StoreVersionKeeps ==
    ASSUME IndInv, NEW w \in Warps, StoreVersion(w)
    PROVE  IndInv'
<1>1. at[w] + 1 \in 1 .. Batch + 1
  BY InTheHead DEF StoreVersion
<1>2. /\ Pooled' /\ Holding'
      /\ at' \in [Warps -> 1 .. Batch + 1] /\ wpc' \in [Warps -> Step]
  BY <1>1, WalkersKeep DEF StoreVersion, WalkOn, block, IndInv, TypeOK
<1>3. number' \in [Warps -> Nat] /\ version' \in [OwnedS3 -> Nat]
  <2>1. number \in [Warps -> Nat] /\ version \in [OwnedS3 -> Nat]
    BY DEF IndInv, TypeOK
  <2>2. number[w] + 1 \in Nat
    BY <2>1
  <2> QED
    BY <2>1, <2>2 DEF StoreVersion
<1>4. TypeOK'
  BY <1>2, <1>3 DEF StoreVersion, IndInv, TypeOK, block
<1> QED
  BY <1>2, <1>4 DEF IndInv

LEMMA StutterKeeps ==
    ASSUME IndInv, UNCHANGED vars
    PROVE  IndInv'
<1>1. TypeOK'
  BY DEF vars, block, cells, warps, IndInv, TypeOK
<1>2. Pooled'
  BY DEF vars, block, cells, warps, IndInv, Pooled, Cell
<1>3. Holding'
  BY DEF vars, block, cells, warps, IndInv, Holding, HasCenter, Cell
<1> QED
  BY <1>1, <1>2, <1>3 DEF IndInv

LEMMA NextKeeps ==
    ASSUME IndInv, [Next]_vars
    PROVE  IndInv'
<1>1. ASSUME NEW n \in Slots, NEW events \in [1 .. n -> EventCells],
             LoadBatch(events)
      PROVE  IndInv'
  BY <1>1, LoadBatchKeeps
<1>2. ASSUME NEW w \in Warps, WarpStep(w)
      PROVE  IndInv'
  BY <1>2, MaskOutKeeps, LoadCounterKeeps, StoreCounterKeeps, LoadCellKeeps,
     StoreCellKeeps, WriteBoxKeeps, WriteClassKeeps, LoadVersionKeeps,
     StoreVersionKeeps DEF WarpStep
<1>3. CASE Barrier
  BY <1>3, BarrierKeeps
<1>4. CASE UNCHANGED vars
  BY <1>4, StutterKeeps
<1> QED
  BY <1>1, <1>2, <1>3, <1>4 DEF Next

-----------------------------------------------------------------------------
(* The invariant holds of every reachable state: counters stay bytes,      *)
(* pooled coordinates stay on the s3 grid, and a warp in the middle of a   *)
(* step has what is its own.                                               *)
THEOREM Inductive == Spec => []IndInv
<1>1. Init => IndInv
  BY InitIndInv
<1>2. IndInv /\ [Next]_vars => IndInv'
  BY NextKeeps
<1> QED
  BY <1>1, <1>2, PTL DEF Spec

(* No two warps ever have the same hidden state or counter between their   *)
(* load and their store, on grids, strips and batches of every size.       *)
THEOREM WarpsDisjoint == Spec => []OneWarpPerCell
<1>1. IndInv => OneWarpPerCell
  BY HoldingDiffers
<1> QED
  BY <1>1, Inductive, PTL

-----------------------------------------------------------------------------
(* The batch taken as a whole.  The oracle: what one more event adds to a  *)
(* history and to a count.                                                 *)

(* The history of a cell, event by event.                                  *)
LEMMA HistorySteps ==
    ASSUME NEW s, NEW c, NEW layer \in Layers
    PROVE  /\ History(s, 0, c, layer) = << >>
           /\ \A n \in Nat :
                 /\ History(s, n, c, layer) \in Updates
                 /\ History(s, n + 1, c, layer) =
                       IF Touches(s, n + 1, c, layer)
                       THEN Append(History(s, n, c, layer), Update(n + 1, layer))
                       ELSE History(s, n, c, layer)
<1> DEFINE F(g) == [m \in Nat |->
                IF m = 0 THEN << >>
                ELSE IF Touches(s, m, c, layer)
                     THEN Append(g[m - 1], Update(m, layer))
                     ELSE g[m - 1]]
           H == CHOOSE g : g = F(g)
           step == [a \in Updates \X Nat |->
                      IF Touches(s, a[2] + 1, c, layer)
                      THEN Append(a[1], Update(a[2] + 1, layer)) ELSE a[1]]
<1>1. \A n \in Nat : History(s, n, c, layer) = H[n]
  BY DEF History
<1>2. << >> \in Updates
  BY EmptySeq DEF Updates
<1>3. step \in Steps(Updates)
  <2> SUFFICES ASSUME NEW u \in Updates, NEW n \in Nat
               PROVE  Append(u, Update(n + 1, layer)) \in Updates
    BY DEF Steps
  <2>1. Update(n + 1, layer) \in [event : Nat, from : 3 .. 7]
    BY DEF Update, Layers
  <2> QED  BY <2>1, AppendProperties DEF Updates
<1> HIDE DEF step
<1>4. PICK f : Follows(f, Updates, << >>, step)
  BY <1>2, <1>3, Recursion
<1>5. \A n \in Nat : f[n + 1] = IF Touches(s, n + 1, c, layer)
                                THEN Append(f[n], Update(n + 1, layer)) ELSE f[n]
  BY <1>4 DEF step, Follows
<1>6. f = F(f)
  <2>1. \A m \in Nat : m = 0 \/ (m - 1 \in Nat /\ (m - 1) + 1 = m)
    OBVIOUS
  <2>2. \A m \in Nat : f[m] = IF m = 0 THEN << >>
                               ELSE IF Touches(s, m, c, layer)
                                    THEN Append(f[m - 1], Update(m, layer))
                                    ELSE f[m - 1]
    BY <1>4, <1>5, <2>1 DEF Follows
  <2>3. f = [m \in Nat |-> f[m]]
    BY <1>4 DEF Follows
  <2> QED  BY <2>2, <2>3
<1>7. H = F(H)
  <2> HIDE DEF F
  <2> QED  BY <1>6
<1> HIDE DEF H
<1>8. H[0] = << >>
  <2>1. H[0] = F(H)[0]
    <3> HIDE DEF F
    <3> QED  BY <1>7
  <2> QED  BY <2>1
<1>9. \A n \in Nat : H[n + 1] = IF Touches(s, n + 1, c, layer)
                                THEN Append(H[n], Update(n + 1, layer)) ELSE H[n]
  <2>1. \A n \in Nat : n + 1 \in Nat /\ n + 1 # 0 /\ (n + 1) - 1 = n
    OBVIOUS
  <2>2. \A m : H[m] = F(H)[m]
    <3> HIDE DEF F
    <3> QED  BY <1>7
  <2> QED  BY <2>1, <2>2
<1>10. \A n \in Nat : H[n] \in Updates
  <2> DEFINE T == {n \in Nat : H[n] \in Updates}
  <2>1. 0 \in T
    BY <1>2, <1>8
  <2>2. \A n \in Nat : n \in T => n + 1 \in T
    <3> SUFFICES ASSUME NEW n \in Nat, H[n] \in Updates PROVE H[n + 1] \in Updates
      OBVIOUS
    <3>1. Update(n + 1, layer) \in [event : Nat, from : 3 .. 7]
      BY DEF Update, Layers
    <3>2. Append(H[n], Update(n + 1, layer)) \in Updates
      BY <3>1, AppendProperties DEF Updates
    <3> QED  BY <1>9, <3>2
  <2>3. Nat \subseteq T
    <3> HIDE DEF T
    <3> QED  BY <2>1, <2>2, SetInduction
  <2> QED  BY <2>3
<1>11. History(s, 0, c, layer) = << >>
  BY <1>1, <1>8
<1>12. ASSUME NEW n \in Nat
       PROVE  /\ History(s, n, c, layer) \in Updates
              /\ History(s, n + 1, c, layer) =
                       IF Touches(s, n + 1, c, layer)
                       THEN Append(History(s, n, c, layer), Update(n + 1, layer))
                       ELSE History(s, n, c, layer)
  <2>1. n + 1 \in Nat
    OBVIOUS
  <2>2. History(s, n, c, layer) = H[n] /\ History(s, n + 1, c, layer) = H[n + 1]
    BY <1>1, <2>1
  <2> QED  BY <1>9, <1>10, <2>2
<1> QED  BY <1>11, <1>12

(* The same, of one event and the event before.                            *)
LEMMA HistoryOf ==
    ASSUME NEW s, NEW c, NEW layer \in Layers, NEW n \in Nat, NEW m, m = n + 1
    PROVE  /\ History(s, n, c, layer) \in Updates
           /\ Touches(s, m, c, layer) =>
                 History(s, m, c, layer) = Append(History(s, n, c, layer), Update(m, layer))
           /\ ~ Touches(s, m, c, layer) =>
                 History(s, m, c, layer) = History(s, n, c, layer)
BY HistorySteps

(* Events that do not touch a cell leave its history as it is.             *)
LEMMA HistorySkip ==
    ASSUME NEW s, NEW c, NEW layer \in Layers, NEW a \in Nat, NEW b \in Nat, a <= b,
           \A m \in a + 1 .. b : ~ Touches(s, m, c, layer)
    PROVE  History(s, b, c, layer) = History(s, a, c, layer)
<1> DEFINE T == {d \in Nat : a + d <= b =>
                    History(s, a + d, c, layer) = History(s, a, c, layer)}
<1>1. 0 \in T
  OBVIOUS
<1>2. ASSUME NEW d \in Nat, d \in T PROVE d + 1 \in T
  <2> SUFFICES ASSUME a + (d + 1) <= b
               PROVE  History(s, a + (d + 1), c, layer) = History(s, a, c, layer)
    OBVIOUS
  <2>1. a + d \in Nat /\ (a + d) + 1 \in a + 1 .. b /\ a + (d + 1) = (a + d) + 1
        /\ a + d <= b
    OBVIOUS
  <2>2. History(s, (a + d) + 1, c, layer) = History(s, a + d, c, layer)
    BY <2>1, HistoryOf
  <2> QED  BY <1>2, <2>1, <2>2
<1>3. Nat \subseteq T
  <2> HIDE DEF T
  <2> QED  BY <1>1, <1>2, SetInduction
<1>4. b - a \in Nat /\ a + (b - a) = b
  OBVIOUS
<1> QED  BY <1>3, <1>4

(* The events counted on a cell, one by one.                               *)
LEMMA CountedNone ==
    ASSUME NEW s, NEW c, NEW stage
    PROVE  Counted(s, 1, c, stage) = 0
<1>1. {m \in Earlier(s, 1, c, stage) : Enters(s, m, stage)} = {}
  BY DEF Earlier
<1> QED  BY <1>1, FS_EmptySet DEF Counted

LEMMA CountedOf ==
    ASSUME NEW s, NEW c, NEW stage, NEW n \in Nat \ {0}, NEW m, m = n + 1
    PROVE  /\ Counted(s, n, c, stage) \in Nat
           /\ Counted(s, m, c, stage) =
                 Counted(s, n, c, stage)
                 + (IF Center(s[n], stage) = c /\ Enters(s, n, stage) THEN 1 ELSE 0)
<1> DEFINE C(k) == {d \in Earlier(s, k, c, stage) : Enters(s, d, stage)}
<1>1. Counted(s, n, c, stage) = Cardinality(C(n)) /\ Counted(s, m, c, stage) = Cardinality(C(m))
  BY DEF Counted
<1>2. IsFiniteSet(C(n))
  <2>1. C(n) \subseteq 1 .. n - 1
    BY DEF Earlier
  <2>2. IsFiniteSet(1 .. n - 1)
    BY FS_Interval
  <2> QED  BY <2>1, <2>2, FS_Subset
<1>3. 1 .. m - 1 = (1 .. n - 1) \cup {n} /\ n \notin 1 .. n - 1
  OBVIOUS
<1>4. Cardinality(C(n)) \in Nat
  BY <1>2, FS_CardinalityType
<1>5. CASE Center(s[n], stage) = c /\ Enters(s, n, stage)
  <2>1. C(m) = C(n) \cup {n} /\ n \notin C(n)
    BY <1>3, <1>5 DEF Earlier
  <2> HIDE DEF C
  <2>2. Cardinality(C(n) \cup {n}) = Cardinality(C(n)) + 1
    BY <1>2, <2>1, FS_AddElement
  <2> QED  BY <1>1, <1>4, <1>5, <2>1, <2>2
<1>6. CASE ~ (Center(s[n], stage) = c /\ Enters(s, n, stage))
  <2>1. C(m) = C(n)
    BY <1>3, <1>6 DEF Earlier
  <2> HIDE DEF C
  <2> QED  BY <1>1, <1>4, <1>6, <2>1
<1> QED  BY <1>5, <1>6

LEMMA CountedSkip ==
    ASSUME NEW s, NEW c, NEW stage, NEW a \in Nat, NEW b \in Nat, a <= b,
           \A m \in a + 1 .. b : ~ (Center(s[m], stage) = c /\ Enters(s, m, stage))
    PROVE  Counted(s, b + 1, c, stage) = Counted(s, a + 1, c, stage)
<1> DEFINE T == {d \in Nat : a + d <= b =>
                    Counted(s, (a + d) + 1, c, stage) = Counted(s, a + 1, c, stage)}
<1>1. 0 \in T
  OBVIOUS
<1>2. ASSUME NEW d \in Nat, d \in T PROVE d + 1 \in T
  <2> SUFFICES ASSUME a + (d + 1) <= b
               PROVE  Counted(s, (a + (d + 1)) + 1, c, stage) = Counted(s, a + 1, c, stage)
    OBVIOUS
  <2>1. a + d \in Nat /\ (a + d) + 1 \in a + 1 .. b /\ a + (d + 1) = (a + d) + 1
        /\ a + d <= b
    OBVIOUS
  <2>2. /\ Counted(s, ((a + d) + 1) + 1, c, stage) = Counted(s, (a + d) + 1, c, stage) + 0
        /\ Counted(s, (a + d) + 1, c, stage) \in Nat
    <3>1. (a + d) + 1 \in Nat \ {0}
      OBVIOUS
    <3> QED  BY <2>1, <3>1, CountedOf
  <2> QED  BY <1>2, <2>1, <2>2
<1>3. Nat \subseteq T
  <2> HIDE DEF T
  <2> QED  BY <1>1, <1>2, SetInduction
<1>4. b - a \in Nat /\ a + (b - a) = b
  OBVIOUS
<1> QED  BY <1>3, <1>4

(* What is said of the first n events depends on them alone.               *)
LEMMA SamePast ==
    ASSUME NEW s, NEW t, NEW n \in Nat, \A m \in 1 .. n : s[m] = t[m]
    PROVE  /\ \A m \in 1 .. n : /\ Passes2(s, m) = Passes2(t, m)
                                /\ Passes3(s, m) = Passes3(t, m)
           /\ \A m \in 0 .. n : \A c, stage :
                 Counted(s, m + 1, c, stage) = Counted(t, m + 1, c, stage)
           /\ \A m \in 1 .. n : \A c, layer :
                 Touches(s, m, c, layer) = Touches(t, m, c, layer)
<1>1. ASSUME NEW m \in 0 .. n, NEW c, NEW stage
      PROVE  Earlier(s, m + 1, c, stage) = Earlier(t, m + 1, c, stage)
  <2>1. \A k \in 1 .. (m + 1) - 1 : s[k] = t[k]
    OBVIOUS
  <2> QED  BY <2>1 DEF Earlier
<1>2. \A m \in 1 .. n : Passes2(s, m) = Passes2(t, m)
  <2> TAKE m \in 1 .. n
  <2>1. m - 1 \in 0 .. n /\ (m - 1) + 1 = m /\ s[m] = t[m]
    OBVIOUS
  <2>2. Earlier(s, m, Center(s[m], 2), 2) = Earlier(t, m, Center(t[m], 2), 2)
    BY <1>1, <2>1
  <2> QED  BY <2>2 DEF Passes2
<1>3. \A m \in 1 .. n : \A stage : Enters(s, m, stage) = Enters(t, m, stage)
  BY <1>2 DEF Enters
<1>4. ASSUME NEW m \in 0 .. n, NEW c, NEW stage
      PROVE  Counted(s, m + 1, c, stage) = Counted(t, m + 1, c, stage)
  <2>1. \A k \in Earlier(s, m + 1, c, stage) : k \in 1 .. n
    BY DEF Earlier
  <2>2. {k \in Earlier(s, m + 1, c, stage) : Enters(s, k, stage)}
           = {k \in Earlier(t, m + 1, c, stage) : Enters(t, k, stage)}
    BY <1>1, <1>3, <2>1
  <2> QED  BY <2>2 DEF Counted
<1>5. \A m \in 1 .. n : Passes3(s, m) = Passes3(t, m)
  <2> TAKE m \in 1 .. n
  <2>1. m - 1 \in 0 .. n /\ (m - 1) + 1 = m /\ s[m] = t[m]
    OBVIOUS
  <2>2. Counted(s, m, Center(s[m], 3), 3) = Counted(t, m, Center(t[m], 3), 3)
    BY <1>4, <2>1
  <2> QED  BY <1>2, <2>2 DEF Passes3
<1>6. \A m \in 1 .. n : \A c, layer : Touches(s, m, c, layer) = Touches(t, m, c, layer)
  BY <1>3 DEF Touches
<1> QED  BY <1>2, <1>4, <1>5, <1>6

LEMMA SameStep ==
    ASSUME NEW s, NEW t, NEW c, NEW layer \in Layers, NEW n \in Nat, NEW m, m = n + 1,
           Touches(s, m, c, layer) = Touches(t, m, c, layer),
           History(s, n, c, layer) = History(t, n, c, layer)
    PROVE  History(s, m, c, layer) = History(t, m, c, layer)
<1>1. CASE Touches(s, m, c, layer)
  <2>1. History(s, m, c, layer) = Append(History(s, n, c, layer), Update(m, layer))
    BY <1>1, HistoryOf
  <2>2. History(t, m, c, layer) = Append(History(t, n, c, layer), Update(m, layer))
    BY <1>1, HistoryOf
  <2> QED  BY <2>1, <2>2
<1>2. CASE ~ Touches(s, m, c, layer)
  <2>1. History(s, m, c, layer) = History(s, n, c, layer)
    BY <1>2, HistoryOf
  <2>2. History(t, m, c, layer) = History(t, n, c, layer)
    BY <1>2, HistoryOf
  <2> QED  BY <2>1, <2>2
<1> QED  BY <1>1, <1>2

LEMMA SameHistory ==
    ASSUME NEW s, NEW t, NEW c, NEW layer \in Layers, NEW n \in Nat,
           \A m \in 1 .. n : s[m] = t[m]
    PROVE  History(s, n, c, layer) = History(t, n, c, layer)
<1> DEFINE T == {d \in Nat : d <= n => History(s, d, c, layer) = History(t, d, c, layer)}
<1>1. 0 \in T
  BY HistorySteps
<1>2. ASSUME NEW d \in Nat, d \in T PROVE d + 1 \in T
  <2> SUFFICES ASSUME d + 1 <= n
               PROVE  History(s, d + 1, c, layer) = History(t, d + 1, c, layer)
    OBVIOUS
  <2>1. d + 1 \in 1 .. n /\ d <= n
    OBVIOUS
  <2>2. Touches(s, d + 1, c, layer) = Touches(t, d + 1, c, layer)
    BY <2>1, SamePast
  <2>3. History(s, d, c, layer) = History(t, d, c, layer)
    BY <1>2, <2>1
  <2> QED  BY <2>2, <2>3, SameStep
<1>3. Nat \subseteq T
  <2> HIDE DEF T
  <2> QED  BY <1>1, <1>2, SetInduction
<1> QED  BY <1>3

(* An event passes by the count of those that entered its cell before.     *)
PassesAt(s, n, stage) == IF stage = 2 THEN Passes2(s, n) ELSE Passes3(s, n)

LEMMA PassesByCount ==
    ASSUME NEW s, NEW n \in Nat, NEW stage \in Stages
    PROVE  PassesAt(s, n, stage) <=>
              /\ Enters(s, n, stage)
              /\ Lets(Counted(s, n, Center(s[n], stage), stage) % CounterRange)
<1>1. CASE stage = 2
  <2>1. \A m : Enters(s, m, 2)
    BY DEF Enters
  <2>2. Counted(s, n, Center(s[n], 2), 2) = Cardinality(Earlier(s, n, Center(s[n], 2), 2))
    BY <2>1 DEF Counted
  <2> QED  BY <1>1, <2>1, <2>2 DEF PassesAt, Passes2
<1>2. CASE stage = 3
  BY <1>2 DEF PassesAt, Passes3, Enters
<1> QED  BY <1>1, <1>2 DEF Stages

-----------------------------------------------------------------------------
(* Whose a cell is.                                                        *)
Aims(w, c) == (c.y + 1) % 3 = w \div 3 /\ (c.x + 1) % 3 = w % 3
Centers(w, c) == c.y % 3 = w \div 3 /\ c.x % 3 = w % 3

LEMMA OffsetAims ==
    ASSUME NEW own \in 0 .. 2, NEW v \in Int
    PROVE  Offset(own, v) \in Int /\ ((v + Offset(own, v)) + 1) % 3 = own
BY DEF Offset

LEMMA TargetAims ==
    ASSUME SlotTyped, NEW w \in Warps, NEW e \in Slots
    PROVE  /\ Aims(w, Target(w, e))
           /\ Target(w, e) \in [x : Int, y : Int]
<1>1. slot[e].x \in Int /\ slot[e].y \in Int
  BY SlotInt
<1>2. w \div 3 \in 0 .. 2 /\ w % 3 \in 0 .. 2
  BY WarpOfResidue
<1>3. /\ Offset(w % 3, slot[e].x) \in Int /\ Offset(w \div 3, slot[e].y) \in Int
      /\ ((slot[e].x + Offset(w % 3, slot[e].x)) + 1) % 3 = w % 3
      /\ ((slot[e].y + Offset(w \div 3, slot[e].y)) + 1) % 3 = w \div 3
  BY <1>1, <1>2, OffsetAims
<1>4. Target(w, e).x = slot[e].x + Offset(w % 3, slot[e].x)
      /\ Target(w, e).y = slot[e].y + Offset(w \div 3, slot[e].y)
  BY DEF Target
<1>5. Aims(w, Target(w, e))
  BY <1>1, <1>2, <1>3, <1>4 DEF Aims
<1>6. Target(w, e) \in [x : Int, y : Int]
  <2> DEFINE a == slot[e].x + Offset(w % 3, slot[e].x)
             b == slot[e].y + Offset(w \div 3, slot[e].y)
  <2>1. a \in Int /\ b \in Int
    BY <1>1, <1>2, <1>3
  <2>2. Target(w, e) = [x |-> a, y |-> b]
    BY DEF Target
  <2> HIDE DEF a, b
  <2> QED  BY <2>1, <2>2
<1> QED  BY <1>5, <1>6

LEMMA OneAims ==
    ASSUME NEW c \in [x : Int, y : Int], NEW v \in Warps, NEW w \in Warps,
           Aims(v, c), Aims(w, c)
    PROVE  v = w
BY WarpOfResidue DEF Aims

LEMMA OneCenters ==
    ASSUME NEW c \in [x : Int, y : Int], NEW v \in Warps, NEW w \in Warps,
           Centers(v, c), Centers(w, c)
    PROVE  v = w
BY WarpOfResidue DEF Centers

LEMMA SomeAims ==
    ASSUME NEW c \in [x : Int, y : Int]
    PROVE  /\ \E w \in Warps : Aims(w, c)
           /\ \E w \in Warps : Centers(w, c)
<1>1. /\ (c.y + 1) % 3 \in 0 .. 2 /\ (c.x + 1) % 3 \in 0 .. 2
      /\ c.y % 3 \in 0 .. 2 /\ c.x % 3 \in 0 .. 2
  OBVIOUS
<1>2. \A i, j \in 0 .. 2 : \E w \in Warps : w \div 3 = i /\ w % 3 = j
  BY WarpOfResidue
<1> QED  BY <1>1, <1>2 DEF Aims, Centers

(* The cell of a warp in an event's patch is the warp's target.            *)
LEMMA AimIsTarget ==
    ASSUME SlotTyped, NEW w \in Warps, NEW e \in Slots, NEW c \in [x : Int, y : Int],
           Aims(w, c)
    PROVE  Target(w, e) = c
              <=> c.x - slot[e].x \in -1 .. 1 /\ c.y - slot[e].y \in -1 .. 1
<1>1. ASSUME c.x - slot[e].x \in -1 .. 1 /\ c.y - slot[e].y \in -1 .. 1
      PROVE  Target(w, e) = c
  <2>1. PICK v \in Warps : Target(v, e) = c
    BY <1>1, PatchPartition
  <2>2. v = w
    BY <2>1, TargetAims, OneAims
  <2> QED  BY <2>1, <2>2
<1> QED  BY <1>1, PatchPartition

LEMMA GridCells ==
    ASSUME NEW stage \in Stages, NEW c \in Cells(stage)
    PROVE  c \in [x : Int, y : Int]
BY DEF Cells, Stages

-----------------------------------------------------------------------------
(* The invariant in the middle of a batch.                                 *)

Base == Len(stream) - size

\* The order of the phases of a batch, and the stage each belongs to.
Rank(p) ==
    CASE p.kind = "tdrop" -> IF p.of = 2 THEN 1 ELSE 4
      [] p.kind = "layer" -> IF p.of < 6 THEN p.of - 2 ELSE p.of - 1
      [] p.kind = "head" -> 7
      [] p.kind = "pop" -> 8
StageIn(p) == IF Rank(p) <= 3 THEN 2 ELSE 3

\* How many events of a batch of n a warp at position a in phase ph has behind
\* it in phase p.
Behind(n, ph, a, p) ==
    IF Rank(p) < Rank(ph) THEN n ELSE IF Rank(p) = Rank(ph) THEN a - 1 ELSE 0

\* What the kernel's operators say, as functions of the state.
CellOf(sl, e) == [x |-> sl[e].x, y |-> sl[e].y]
IsOpen(ps, e, stage) == stage = 3 => ps[2][e]
Mine(sl, ps, w, e, stage) ==
    IF IsOpen(ps, e, stage) THEN sl[e].y % 3 = w \div 3 /\ sl[e].x % 3 = w % 3
    ELSE w = 0
Aimed(sl, w, e) == [x |-> sl[e].x + Offset(w % 3, sl[e].x),
                    y |-> sl[e].y + Offset(w \div 3, sl[e].y)]

InBatch == \A w \in Warps : at[w] <= size + 1

SlotsAsSequential ==
    \A e \in 1 .. size :
        /\ CellOf(slot, e) = Center(stream[Base + e], StageIn(phase))
        /\ slot[e].owner <=> stream[Base + e] \in Owned

PassAsSequential ==
    \A stage \in Stages : \A w \in Warps : \A e \in 1 .. size :
        Rank(Tdrop(stage)) < Rank(phase)
          \/ (phase = Tdrop(stage) /\ e < at[w]
                /\ Mine(slot, pass, w, e, stage))
        => (pass[stage][e] <=> PassesAt(stream, Base + e, stage))

FeatAsSequential ==
    \A e \in 1 .. size :
        /\ phase = Tdrop(2) => feat[e] = 3
        /\ phase = Tdrop(3) /\ pass[2][e] => feat[e] = 5
        /\ phase.kind = "layer" /\ IsOpen(pass, e, StageOf(phase.of))
              => feat[e] = phase.of - 1

HiddenAsSequential ==
    \A layer \in Layers : \A w \in Warps : \A c \in Cells(StageOf(layer)) :
        Aims(w, c) =>
            hidden[layer][c] =
                History(stream, Base + Behind(size, phase, at[w], Layer(layer)),
                        c, layer)

CountersAsSequential ==
    \A stage \in Stages : \A w \in Warps : \A c \in Cells(stage) :
        Centers(w, c) =>
            td[stage][c] =
                Counted(stream, (Base + Behind(size, phase, at[w], Tdrop(stage))) + 1,
                        c, stage) % CounterRange

LoadedAsSequential ==
    \A w \in Warps :
        wpc[w] = "loaded" =>
            /\ phase.kind = "tdrop" =>
                  /\ IsOpen(pass, at[w], phase.of)
                  /\ Centers(w, CellOf(slot, at[w]))
                  /\ number[w] = Counted(stream, Base + at[w], CellOf(slot, at[w]),
                                         phase.of) % CounterRange
            /\ phase.kind = "layer" =>
                  /\ IsOpen(pass, at[w], StageOf(phase.of))
                  /\ Aimed(slot, w, at[w]) \in Cells(StageOf(phase.of))
                  /\ updates[w] = History(stream, Base + at[w], Aimed(slot, w, at[w]),
                                          phase.of)

StateInv == /\ InBatch /\ SlotsAsSequential /\ PassAsSequential
            /\ FeatAsSequential /\ HiddenAsSequential /\ CountersAsSequential
            /\ LoadedAsSequential

-----------------------------------------------------------------------------
LEMMA AsFunctions ==
    /\ \A e : Cell(e) = CellOf(slot, e)
    /\ \A e, stage : Unmasked(e, stage) <=> IsOpen(pass, e, stage)
    /\ \A w, e : Target(w, e) = Aimed(slot, w, e)
    /\ \A w, e : HasCenter(w, e) <=> Centers(w, CellOf(slot, e))
    /\ \A w, e : phase.kind = "tdrop" =>
          (HasTask(w, e) <=> Mine(slot, pass, w, e, phase.of))
    /\ \A w, e : phase.kind = "layer" =>
          (HasTask(w, e) <=> /\ IsOpen(pass, e, StageOf(phase.of))
                             /\ Aimed(slot, w, e) \in Cells(StageOf(phase.of)))
<1>1. /\ \A e : Cell(e) = CellOf(slot, e)
      /\ \A w, e : Target(w, e) = Aimed(slot, w, e)
  BY DEF Cell, CellOf, Target, Aimed
<1>2. \A e, stage : Unmasked(e, stage) <=> IsOpen(pass, e, stage)
  BY DEF Unmasked, IsOpen
<1>3. \A w, e : HasCenter(w, e) <=> Centers(w, CellOf(slot, e))
  BY DEF HasCenter, Centers, CellOf
<1>4. \A w, e : phase.kind = "tdrop" =>
          (HasTask(w, e) <=> Mine(slot, pass, w, e, phase.of))
  BY <1>2 DEF HasTask, Mine, HasCenter
<1>5. \A w, e : phase.kind = "layer" =>
          (HasTask(w, e) <=> /\ IsOpen(pass, e, StageOf(phase.of))
                             /\ Aimed(slot, w, e) \in Cells(StageOf(phase.of)))
  BY <1>1, <1>2 DEF HasTask
<1> QED  BY <1>1, <1>2, <1>3, <1>4, <1>5

LEMMA Ranks ==
    /\ \A stage \in Stages : Rank(Tdrop(stage)) = IF stage = 2 THEN 1 ELSE 4
    /\ \A layer \in Layers : Rank(Layer(layer)) = IF layer < 6 THEN layer - 2 ELSE layer - 1
    /\ Rank(InHead) = 7 /\ Rank(Pop) = 8
    /\ Rank(Tdrop(2)) = 1 /\ Rank(Tdrop(3)) = 4
    /\ Rank(Layer(4)) = 2 /\ Rank(Layer(5)) = 3
    /\ Rank(Layer(6)) = 5 /\ Rank(Layer(7)) = 6
BY DEF Rank, Tdrop, Layer, InHead, Pop, Stages, Layers

LEMMA RankNat ==
    ASSUME NEW p \in Phases
    PROVE  Rank(p) \in 1 .. 8
BY Ranks DEF Phases, Stages, Layers

LEMMA RankIs ==
    ASSUME NEW p \in Phases
    PROVE  /\ \A stage \in Stages : Rank(Tdrop(stage)) = Rank(p) => p = Tdrop(stage)
           /\ \A layer \in Layers : Rank(Layer(layer)) = Rank(p) => p = Layer(layer)
BY Ranks DEF Phases, Stages, Layers

LEMMA Sizes ==
    ASSUME IndInv
    PROVE  /\ size \in Nat /\ size <= Batch /\ Len(stream) \in Nat
           /\ Base \in Nat /\ Base + size = Len(stream)
           /\ \A e \in 1 .. size : e \in Slots /\ Base + e \in 1 .. Len(stream)
                                   /\ stream[Base + e] \in Cells(2)
           /\ \A w \in Warps : at[w] \in Nat /\ at[w] >= 1
           /\ SlotTyped
<1>1. size \in 0 .. Batch /\ size <= Len(stream) /\ stream \in Seq(Cells(2))
      /\ at \in [Warps -> 1 .. Batch + 1]
  BY DEF IndInv, TypeOK
<1>2. Len(stream) \in Nat
  BY <1>1, LenProperties
<1>3. \A w \in Warps : at[w] \in 1 .. Batch + 1
  BY <1>1
<1>4. \A e \in 1 .. size : e \in Slots /\ Base + e \in 1 .. Len(stream)
  <2>1. \A e \in 1 .. size : e \in 1 .. Batch
    <3>1. Batch \in Nat
      BY CelledKernelAssumption
    <3>2. size \in 0 .. Batch
      BY <1>1
    <3> QED  BY <3>1, <3>2
  <2>2. \A n \in Nat : \A b \in 0 .. Batch :
           b <= n => \A e \in 1 .. b : (n - b) + e \in 1 .. n
    OBVIOUS
  <2>3. \A e \in 1 .. size : (Len(stream) - size) + e \in 1 .. Len(stream)
    BY <1>1, <1>2, <2>2
  <2> QED  BY <2>1, <2>3 DEF Slots, Base
<1>5. \A i \in 1 .. Len(stream) : stream[i] \in Cells(2)
  BY <1>1, ElementOfSeq
<1>6. Base \in Nat /\ Base + size = Len(stream) /\ size \in Nat /\ size <= Batch
  BY <1>1, <1>2 DEF Base
<1>7. \A w \in Warps : at[w] \in Nat /\ at[w] >= 1
  BY <1>3
<1>8. SlotTyped
  BY DEF IndInv, TypeOK, SlotTyped
<1> QED  BY <1>2, <1>4, <1>5, <1>6, <1>7, <1>8

(* In a tdrop and in a layer, what is not masked is what enters the stage. *)
LEMMA UnmaskedEnters ==
    ASSUME IndInv, PassAsSequential, NEW e \in 1 .. size, NEW stage \in Stages,
           stage = 3 => Rank(phase) >= 4
    PROVE  Unmasked(e, stage) <=> Enters(stream, Base + e, stage)
<1>1. CASE stage = 2
  BY <1>1 DEF Unmasked, Enters
<1>2. CASE stage = 3
  <2>1. Rank(Tdrop(2)) < Rank(phase) /\ 2 \in Stages /\ 0 \in Warps
    <3>1. Rank(phase) \in 1 .. 8 /\ Rank(Tdrop(2)) = 1
      BY Ranks, RankNat DEF IndInv, TypeOK
    <3> QED  BY <1>2, <3>1 DEF Stages, Warps
  <2>2. pass[2][e] <=> PassesAt(stream, Base + e, 2)
    BY <2>1 DEF PassAsSequential
  <2> QED  BY <1>2, <2>2 DEF Unmasked, Enters, PassesAt
<1> QED  BY <1>1, <1>2 DEF Stages

LEMMA LayerStage ==
    ASSUME IndInv, phase.kind = "layer"
    PROVE  /\ phase.of \in Layers /\ phase = Layer(phase.of)
           /\ StageOf(phase.of) \in Stages /\ StageOf(phase.of) = StageIn(phase)
           /\ StageOf(phase.of) = 3 => Rank(phase) >= 4
<1>1. PICK layer \in Layers : phase = Layer(layer)
  BY PhaseKinds DEF IndInv, TypeOK
<1>2. phase.of = layer
  BY <1>1 DEF Layer
<1> QED  BY <1>1, <1>2, Ranks DEF StageOf, StageIn, Stages, Layers

LEMMA TdropStage ==
    ASSUME IndInv, phase.kind = "tdrop"
    PROVE  /\ phase.of \in Stages /\ phase = Tdrop(phase.of)
           /\ phase.of = StageIn(phase)
           /\ phase.of = 3 => Rank(phase) >= 4
<1>1. phase \in {Tdrop(2), Tdrop(3)}
  BY PhaseKinds DEF IndInv, TypeOK
<1>2. \A s : Tdrop(s).of = s
  BY DEF Tdrop
<1> QED  BY <1>1, <1>2, Ranks DEF StageIn, Stages

(* In a layer, an event touches the cell of a warp that is its target.     *)
LEMMA TouchesTarget ==
    ASSUME IndInv, StateInv, phase.kind = "layer",
           NEW e \in 1 .. size, NEW w \in Warps,
           NEW c \in Cells(StageOf(phase.of)), Aims(w, c)
    PROVE  Touches(stream, Base + e, c, phase.of) <=> HasTask(w, e) /\ Target(w, e) = c
<1> DEFINE st == StageOf(phase.of)
           s == stream[Base + e]
<1>1. st \in Stages /\ st = StageIn(phase) /\ (st = 3 => Rank(phase) >= 4)
  BY LayerStage
<1>2. Unmasked(e, st) <=> Enters(stream, Base + e, st)
  BY <1>1, UnmaskedEnters DEF StateInv
<1>3. c \in [x : Int, y : Int]
  BY <1>1, GridCells
<1>4. e \in Slots /\ SlotTyped
  BY Sizes
<1>5. Target(w, e) = c
              <=> c.x - slot[e].x \in -1 .. 1 /\ c.y - slot[e].y \in -1 .. 1
  BY <1>3, <1>4, AimIsTarget
<1>6. Cell(e) = Center(s, st)
  BY <1>1, AsFunctions DEF StateInv, SlotsAsSequential
<1>7. Center(s, st).x = slot[e].x /\ Center(s, st).y = slot[e].y
  BY <1>6 DEF Cell
<1>8. c \in Patch(s, st) <=> Target(w, e) = c
  BY <1>5, <1>7 DEF Patch
<1>9. HasTask(w, e) <=> Unmasked(e, st) /\ Target(w, e) \in Cells(st)
  BY DEF HasTask
<1> QED  BY <1>2, <1>8, <1>9 DEF Touches

(* In a tdrop, an event counts on the cell of a warp that is its own.      *)
LEMMA CountsCenter ==
    ASSUME IndInv, StateInv, phase.kind = "tdrop",
           NEW e \in 1 .. size, NEW w \in Warps,
           NEW c \in Cells(phase.of), Centers(w, c)
    PROVE  Center(stream[Base + e], phase.of) = c /\ Enters(stream, Base + e, phase.of)
              <=> HasTask(w, e) /\ Unmasked(e, phase.of) /\ Cell(e) = c
<1>1. /\ phase.of \in Stages /\ phase.of = StageIn(phase)
      /\ phase.of = 3 => Rank(phase) >= 4
  BY TdropStage
<1>2. Unmasked(e, phase.of) <=> Enters(stream, Base + e, phase.of)
  BY <1>1, UnmaskedEnters DEF StateInv
<1>3. Cell(e) = Center(stream[Base + e], phase.of)
  BY <1>1, AsFunctions DEF StateInv, SlotsAsSequential
<1>4. Cell(e) = c => HasCenter(w, e)
  BY DEF Cell, HasCenter, Centers
<1>5. Unmasked(e, phase.of) => (HasTask(w, e) <=> HasCenter(w, e))
  BY DEF HasTask
<1> QED  BY <1>2, <1>3, <1>4, <1>5

(* The hidden state of a warp's cell is that of the sequence up to any     *)
(* event to which the warp finds nothing to do.                            *)
LEMMA WalkHistory ==
    ASSUME IndInv, StateInv, phase.kind = "layer", NEW w \in Warps,
           NEW a \in Nat, at[w] <= a, a <= size + 1,
           \A f \in at[w] .. a - 1 : ~ HasTask(w, f),
           NEW c \in Cells(StageOf(phase.of)), Aims(w, c)
    PROVE  hidden[phase.of][c] = History(stream, Base + (a - 1), c, phase.of)
<1>1. phase.of \in Layers /\ phase = Layer(phase.of)
  BY LayerStage
<1>2. Behind(size, phase, at[w], Layer(phase.of)) = at[w] - 1
  <2>1. Rank(phase) \in 1 .. 8
    BY RankNat DEF IndInv, TypeOK
  <2>2. Rank(Layer(phase.of)) = Rank(phase)
    BY <1>1
  <2> QED  BY <2>1, <2>2 DEF Behind
<1>3. hidden[phase.of][c] = History(stream, Base + (at[w] - 1), c, phase.of)
  BY <1>1, <1>2 DEF StateInv, HiddenAsSequential
<1>4. at[w] \in Nat /\ at[w] >= 1 /\ Base \in Nat /\ size \in Nat
  BY Sizes
<1>5. ASSUME NEW m \in (Base + (at[w] - 1)) + 1 .. Base + (a - 1)
      PROVE  ~ Touches(stream, m, c, phase.of)
  <2>1. m - Base \in 1 .. size /\ m - Base \in at[w] .. a - 1 /\ Base + (m - Base) = m
    BY <1>4
  <2> QED  BY <2>1, TouchesTarget
<1>6. /\ Base + (at[w] - 1) \in Nat /\ Base + (a - 1) \in Nat
      /\ Base + (at[w] - 1) <= Base + (a - 1)
  BY <1>4
<1> QED  BY <1>1, <1>3, <1>5, <1>6, HistorySkip

LEMMA WalkCounted ==
    ASSUME IndInv, StateInv, phase.kind = "tdrop", NEW w \in Warps,
           NEW a \in Nat, at[w] <= a, a <= size + 1,
           \A f \in at[w] .. a - 1 : ~ HasTask(w, f) \/ ~ Unmasked(f, phase.of),
           NEW c \in Cells(phase.of), Centers(w, c)
    PROVE  td[phase.of][c] = Counted(stream, (Base + (a - 1)) + 1, c, phase.of)
                                % CounterRange
<1>1. phase.of \in Stages /\ phase = Tdrop(phase.of)
  BY TdropStage
<1>2. Behind(size, phase, at[w], Tdrop(phase.of)) = at[w] - 1
  <2>1. Rank(phase) \in 1 .. 8
    BY RankNat DEF IndInv, TypeOK
  <2>2. Rank(Tdrop(phase.of)) = Rank(phase)
    BY <1>1
  <2> QED  BY <2>1, <2>2 DEF Behind
<1>3. td[phase.of][c] = Counted(stream, (Base + (at[w] - 1)) + 1, c, phase.of)
                           % CounterRange
  BY <1>1, <1>2 DEF StateInv, CountersAsSequential
<1>4. at[w] \in Nat /\ at[w] >= 1 /\ Base \in Nat /\ size \in Nat
  BY Sizes
<1>5. ASSUME NEW m \in (Base + (at[w] - 1)) + 1 .. Base + (a - 1)
      PROVE  ~ (Center(stream[m], phase.of) = c /\ Enters(stream, m, phase.of))
  <2>1. m - Base \in 1 .. size /\ m - Base \in at[w] .. a - 1 /\ Base + (m - Base) = m
    BY <1>4
  <2> QED  BY <2>1, CountsCenter
<1>6. /\ Base + (at[w] - 1) \in Nat /\ Base + (a - 1) \in Nat
      /\ Base + (at[w] - 1) <= Base + (a - 1)
  BY <1>4
<1> QED  BY <1>3, <1>5, <1>6, CountedSkip

-----------------------------------------------------------------------------
(* What a step of one warp leaves alone.                                   *)
WarpFrame == UNCHANGED <<phase, size, slot, feat, stream>>

LEMMA SameOpen ==
    ASSUME NEW ps, NEW qs, NEW stage, stage = 3 => ps[2] = qs[2]
    PROVE  /\ \A e : IsOpen(ps, e, stage) <=> IsOpen(qs, e, stage)
           /\ \A sl, w, e : Mine(sl, ps, w, e, stage) <=> Mine(sl, qs, w, e, stage)
BY DEF IsOpen, Mine

LEMMA StepSlots ==
    ASSUME IndInv, StateInv, WarpFrame, pass'[2] = pass[2] \/ phase = Tdrop(2)
    PROVE  SlotsAsSequential' /\ FeatAsSequential'
<1>1. SlotsAsSequential'
  BY DEF StateInv, WarpFrame, SlotsAsSequential, Base
<1>2. FeatAsSequential'
  <2>1. Tdrop(2) # Tdrop(3) /\ Tdrop(2).kind # "layer"
    BY DEF Tdrop
  <2>2. phase # Tdrop(2) =>
           \A e : IsOpen(pass', e, StageOf(phase.of)) <=> IsOpen(pass, e, StageOf(phase.of))
    BY SameOpen
  <2> QED  BY <2>1, <2>2 DEF StateInv, WarpFrame, FeatAsSequential
<1> QED  BY <1>1, <1>2

LEMMA BehindOther ==
    ASSUME NEW n, NEW ph, NEW a, NEW b, NEW p, Rank(p) # Rank(ph)
    PROVE  Behind(n, ph, a, p) = Behind(n, ph, b, p)
BY DEF Behind

LEMMA RankApart ==
    ASSUME IndInv
    PROVE  /\ phase.kind # "layer" =>
                 \A layer \in Layers : Rank(Layer(layer)) # Rank(phase)
           /\ \A stage \in Stages : phase # Tdrop(stage) =>
                 Rank(Tdrop(stage)) # Rank(phase)
           /\ \A layer \in Layers : phase # Layer(layer) =>
                 Rank(Layer(layer)) # Rank(phase)
<1>1. phase \in Phases
  BY DEF IndInv, TypeOK
<1>2. \A layer \in Layers : Layer(layer).kind = "layer"
  BY DEF Layer
<1> QED  BY <1>1, <1>2, RankIs

LEMMA HiddenElsewhere ==
    ASSUME IndInv, StateInv, WarpFrame, phase.kind # "layer", UNCHANGED hidden
    PROVE  HiddenAsSequential'
<1> SUFFICES ASSUME NEW layer \in Layers, NEW w \in Warps,
                    NEW c \in Cells(StageOf(layer)), Aims(w, c)
             PROVE  hidden[layer][c] =
                       History(stream, Base + Behind(size, phase, at'[w], Layer(layer)),
                               c, layer)
  BY DEF WarpFrame, HiddenAsSequential, Base
<1>1. Rank(Layer(layer)) # Rank(phase)
  BY RankApart
<1>2. Behind(size, phase, at'[w], Layer(layer)) = Behind(size, phase, at[w], Layer(layer))
  BY <1>1, BehindOther
<1> QED  BY <1>2 DEF StateInv, HiddenAsSequential

LEMMA CountersElsewhere ==
    ASSUME IndInv, StateInv, WarpFrame, phase.kind # "tdrop", UNCHANGED td
    PROVE  CountersAsSequential'
<1> SUFFICES ASSUME NEW stage \in Stages, NEW w \in Warps,
                    NEW c \in Cells(stage), Centers(w, c)
             PROVE  td[stage][c] =
                Counted(stream, (Base + Behind(size, phase, at'[w], Tdrop(stage))) + 1,
                        c, stage) % CounterRange
  BY DEF WarpFrame, CountersAsSequential, Base
<1>1. phase # Tdrop(stage)
  BY DEF Tdrop
<1>2. Rank(Tdrop(stage)) # Rank(phase)
  BY <1>1, RankApart
<1>3. Behind(size, phase, at'[w], Tdrop(stage)) = Behind(size, phase, at[w], Tdrop(stage))
  BY <1>2, BehindOther
<1> QED  BY <1>3 DEF StateInv, CountersAsSequential

LEMMA PassElsewhere ==
    ASSUME IndInv, StateInv, WarpFrame, phase.kind # "tdrop", UNCHANGED pass
    PROVE  PassAsSequential'
<1> SUFFICES ASSUME NEW stage \in Stages, NEW w \in Warps, NEW e \in 1 .. size,
                    Rank(Tdrop(stage)) < Rank(phase) \/ phase = Tdrop(stage)
             PROVE  pass[stage][e] <=> PassesAt(stream, Base + e, stage)
  BY DEF WarpFrame, PassAsSequential, Base
<1>1. phase # Tdrop(stage)
  BY DEF Tdrop
<1> QED  BY <1>1 DEF StateInv, PassAsSequential

LEMMA InBatchKept ==
    ASSUME IndInv, StateInv, WarpFrame, NEW w \in Warps, NEW a \in Nat, a <= size + 1,
           at' = [at EXCEPT ![w] = a]
    PROVE  InBatch'
<1>1. at \in [Warps -> 1 .. Batch + 1]
  BY DEF IndInv, TypeOK
<1>2. \A v \in Warps : at'[v] = a \/ at'[v] = at[v]
  BY <1>1
<1> QED  BY <1>2 DEF StateInv, InBatch, WarpFrame

LEMMA OtherAt ==
    ASSUME IndInv, NEW w \in Warps, NEW a, at' = [at EXCEPT ![w] = a]
    PROVE  at'[w] = a /\ \A v \in Warps : v # w => at'[v] = at[v]
BY DEF IndInv, TypeOK

(* In a tdrop, the marks of a warp that passes over events it has nothing  *)
(* to do for are still right.                                              *)
LEMMA WalkPass ==
    ASSUME IndInv, StateInv, WarpFrame, phase.kind = "tdrop", NEW w \in Warps,
           NEW a \in Nat, at' = [at EXCEPT ![w] = a],
           NEW d \in 1 .. size, phase.of = 3 => pass'[2] = pass[2],
           \A f \in at[w] .. a - 1 : f # d => ~ HasTask(w, f),
           \A stage \in Stages : stage # phase.of => pass'[stage] = pass[stage],
           \A f \in 1 .. size : f # d => pass'[phase.of][f] = pass[phase.of][f],
           (\E v \in Warps : d < at'[v] /\ Mine(slot, pass, v, d, phase.of)) =>
              (pass'[phase.of][d] <=> PassesAt(stream, Base + d, phase.of))
    PROVE  PassAsSequential'
<1> SUFFICES ASSUME NEW stage \in Stages, NEW v \in Warps, NEW e \in 1 .. size,
                    Rank(Tdrop(stage)) < Rank(phase)
                    \/ (phase = Tdrop(stage) /\ e < at'[v]
                          /\ Mine(slot, pass', v, e, stage))
             PROVE  pass'[stage][e] <=> PassesAt(stream, Base + e, stage)
  BY DEF WarpFrame, PassAsSequential, Base
<1>0. phase.of \in Stages /\ phase = Tdrop(phase.of) /\ Rank(phase) \in 1 .. 8
  BY TdropStage, RankNat DEF IndInv, TypeOK
<1>1. CASE stage # phase.of
  <2>1. phase # Tdrop(stage)
    BY <1>1 DEF Tdrop
  <2> QED  BY <1>1, <2>1 DEF StateInv, PassAsSequential
<1>2. CASE stage = phase.of
  <2>1. ~ (Rank(Tdrop(stage)) < Rank(phase))
    BY <1>0, <1>2
  <2>2. e < at'[v] /\ Mine(slot, pass, v, e, stage)
    BY <1>2, <2>1, SameOpen
  <2>3. CASE e = d
    BY <1>2, <2>2, <2>3
  <2>4. CASE e # d
    <3>1. e < at[v]
      <4>1. CASE v = w
        <5>1. at'[w] = a /\ HasTask(w, e)
          BY <1>2, <2>2, <4>1, OtherAt, AsFunctions
        <5>2. at[w] \in Nat
          BY Sizes
        <5> QED  BY <2>2, <2>4, <4>1, <5>1, <5>2
      <4>2. CASE v # w
        BY <2>2, <4>2, OtherAt
      <4> QED  BY <4>1, <4>2
    <3>2. pass[stage][e] <=> PassesAt(stream, Base + e, stage)
      BY <1>0, <1>2, <2>2, <3>1 DEF StateInv, PassAsSequential
    <3> QED  BY <1>2, <2>4, <3>2
  <2> QED  BY <2>3, <2>4
<1> QED  BY <1>1, <1>2

(* The same of its counters, where it does not count.                      *)
LEMMA WalkCounters ==
    ASSUME IndInv, StateInv, WarpFrame, phase.kind = "tdrop", NEW w \in Warps,
           NEW a \in Nat, at[w] <= a, a <= size + 1, at' = [at EXCEPT ![w] = a],
           \A f \in at[w] .. a - 1 : ~ HasTask(w, f) \/ ~ Unmasked(f, phase.of),
           UNCHANGED td
    PROVE  CountersAsSequential'
<1> SUFFICES ASSUME NEW stage \in Stages, NEW v \in Warps,
                    NEW c \in Cells(stage), Centers(v, c)
             PROVE  td[stage][c] =
                Counted(stream, (Base + Behind(size, phase, at'[v], Tdrop(stage))) + 1,
                        c, stage) % CounterRange
  BY DEF WarpFrame, CountersAsSequential, Base
<1>0. phase.of \in Stages /\ phase = Tdrop(phase.of) /\ Rank(phase) \in 1 .. 8
  BY TdropStage, RankNat DEF IndInv, TypeOK
<1>1. CASE stage # phase.of
  <2>1. phase # Tdrop(stage)
    BY <1>1 DEF Tdrop
  <2>2. Behind(size, phase, at'[v], Tdrop(stage)) = Behind(size, phase, at[v], Tdrop(stage))
    BY <2>1, RankApart, BehindOther
  <2> QED  BY <2>2 DEF StateInv, CountersAsSequential
<1>2. CASE stage = phase.of /\ v # w
  BY <1>2, OtherAt DEF StateInv, CountersAsSequential
<1>3. CASE stage = phase.of /\ v = w
  <2>1. at'[v] = a
    BY <1>3, OtherAt
  <2>2. Behind(size, phase, a, Tdrop(stage)) = a - 1
    BY <1>0, <1>3 DEF Behind
  <2>3. td[stage][c] = Counted(stream, (Base + (a - 1)) + 1, c, stage) % CounterRange
    BY <1>3, WalkCounted
  <2> QED  BY <2>1, <2>2, <2>3
<1> QED  BY <1>1, <1>2, <1>3

LEMMA WalkHidden ==
    ASSUME IndInv, StateInv, WarpFrame, phase.kind = "layer", NEW w \in Warps,
           NEW a \in Nat, at[w] <= a, a <= size + 1, at' = [at EXCEPT ![w] = a],
           \A f \in at[w] .. a - 1 : ~ HasTask(w, f),
           UNCHANGED hidden
    PROVE  HiddenAsSequential'
<1> SUFFICES ASSUME NEW layer \in Layers, NEW v \in Warps,
                    NEW c \in Cells(StageOf(layer)), Aims(v, c)
             PROVE  hidden[layer][c] =
                       History(stream, Base + Behind(size, phase, at'[v], Layer(layer)),
                               c, layer)
  BY DEF WarpFrame, HiddenAsSequential, Base
<1>0. phase.of \in Layers /\ phase = Layer(phase.of) /\ Rank(phase) \in 1 .. 8
  BY LayerStage, RankNat DEF IndInv, TypeOK
<1>1. CASE layer # phase.of
  <2>1. phase # Layer(layer)
    BY <1>1 DEF Layer
  <2>2. Behind(size, phase, at'[v], Layer(layer)) = Behind(size, phase, at[v], Layer(layer))
    BY <2>1, RankApart, BehindOther
  <2> QED  BY <2>2 DEF StateInv, HiddenAsSequential
<1>2. CASE layer = phase.of /\ v # w
  BY <1>2, OtherAt DEF StateInv, HiddenAsSequential
<1>3. CASE layer = phase.of /\ v = w
  <2>1. at'[v] = a
    BY <1>3, OtherAt
  <2>2. Behind(size, phase, a, Layer(layer)) = a - 1
    BY <1>0, <1>3 DEF Behind
  <2>3. hidden[layer][c] = History(stream, Base + (a - 1), c, layer)
    BY <1>3, WalkHistory
  <2> QED  BY <2>1, <2>2, <2>3
<1> QED  BY <1>1, <1>2, <1>3

(* A warp that stops at an event, or goes past it.                         *)
LEMMA ComesWithin ==
    ASSUME IndInv, NEW w \in Warps, NEW e \in Slots, ComesTo(w, e)
    PROVE  /\ e \in 1 .. size /\ HasTask(w, e) /\ at[w] <= e /\ e <= size + 1
           /\ e + 1 \in Nat /\ at[w] <= e + 1 /\ e + 1 <= size + 1 /\ e \in Nat
           /\ \A f \in at[w] .. e - 1 : ~ HasTask(w, f)
           /\ wpc[w] = "walk"
<1>1. e \in 1 .. size /\ HasTask(w, e) /\ wpc[w] = "walk"
  BY ComesToSlot
<1>2. at[w] <= e /\ \A f \in at[w] .. e - 1 : ~ HasTask(w, f)
  <2>1. e \in at[w] .. size
    BY DEF ComesTo
  <2> QED  BY <2>1, Sizes DEF ComesTo
<1> QED  BY <1>1, <1>2, Sizes

LEMMA LoadedOthers ==
    ASSUME IndInv, StateInv, WarpFrame, NEW w \in Warps, NEW a, NEW pc,
           at' = [at EXCEPT ![w] = a], wpc' = [wpc EXCEPT ![w] = pc],
           (phase.kind = "tdrop" /\ phase.of = 2) \/ pass'[2] = pass[2],
           \A v \in Warps : v # w => number'[v] = number[v] /\ updates'[v] = updates[v],
           pc = "loaded" =>
            /\ phase.kind = "tdrop" =>
                  /\ IsOpen(pass', a, phase.of)
                  /\ Centers(w, CellOf(slot, a))
                  /\ number'[w] = Counted(stream, Base + a, CellOf(slot, a),
                                         phase.of) % CounterRange
            /\ phase.kind = "layer" =>
                  /\ IsOpen(pass', a, StageOf(phase.of))
                  /\ Aimed(slot, w, a) \in Cells(StageOf(phase.of))
                  /\ updates'[w] = History(stream, Base + a, Aimed(slot, w, a), phase.of)
    PROVE  LoadedAsSequential'
<1>1. /\ at'[w] = a /\ wpc'[w] = pc
      /\ \A v \in Warps : v # w => at'[v] = at[v] /\ wpc'[v] = wpc[v]
  BY DEF IndInv, TypeOK
<1> SUFFICES ASSUME NEW v \in Warps, wpc'[v] = "loaded"
    PROVE   /\ phase.kind = "tdrop" =>
                  /\ IsOpen(pass', at'[v], phase.of)
                  /\ Centers(v, CellOf(slot, at'[v]))
                  /\ number'[v] = Counted(stream, Base + at'[v], CellOf(slot, at'[v]),
                                         phase.of) % CounterRange
            /\ phase.kind = "layer" =>
                  /\ IsOpen(pass', at'[v], StageOf(phase.of))
                  /\ Aimed(slot, v, at'[v]) \in Cells(StageOf(phase.of))
                  /\ updates'[v] = History(stream, Base + at'[v],
                                           Aimed(slot, v, at'[v]), phase.of)
  BY DEF WarpFrame, LoadedAsSequential, Base
<1>2. CASE v = w
  BY <1>1, <1>2
<1>3. CASE v # w
  <2>1. phase.kind = "tdrop" => \A e : IsOpen(pass', e, phase.of) <=> IsOpen(pass, e, phase.of)
    <3>1. phase.of = 3 => pass'[2] = pass[2]
      OBVIOUS
    <3> QED  BY <3>1, SameOpen
  <2>2. phase.kind = "layer" => \A e : IsOpen(pass', e, StageOf(phase.of))
                                          <=> IsOpen(pass, e, StageOf(phase.of))
    BY SameOpen
  <2> QED  BY <1>1, <1>3, <2>1, <2>2 DEF StateInv, LoadedAsSequential
<1> QED  BY <1>2, <1>3

LEMMA MaskOutState ==
    ASSUME IndInv, StateInv, NEW w \in Warps, NEW e \in Slots, MaskOut(w, e)
    PROVE  StateInv'
<1>0. WarpFrame /\ phase.kind = "tdrop" /\ at' = [at EXCEPT ![w] = e + 1]
      /\ UNCHANGED <<td, hidden, number, updates>>
  BY DEF MaskOut, WarpFrame, cells
<1>1. /\ e \in 1 .. size /\ e + 1 \in Nat /\ at[w] <= e + 1 /\ e + 1 <= size + 1
      /\ \A f \in at[w] .. e - 1 : ~ HasTask(w, f)
      /\ wpc[w] = "walk"
  BY ComesWithin DEF MaskOut
<1>2. phase.of \in Stages /\ phase = Tdrop(phase.of) /\ (phase.of = 3 => Rank(phase) >= 4)
  BY <1>0, TdropStage
<1>3. phase.of = 3
  BY <1>2 DEF MaskOut, Unmasked, Stages
<1>4. /\ \A stage \in Stages : stage # phase.of => pass'[stage] = pass[stage]
      /\ \A f \in Slots : f # e => pass'[phase.of][f] = pass[phase.of][f]
      /\ pass'[phase.of][e] = FALSE
  BY <1>2 DEF MaskOut, IndInv, TypeOK
<1>5. pass'[2] = pass[2]
  BY <1>3, <1>4 DEF Stages
<1>6. InBatch'
  BY <1>0, <1>1, InBatchKept
<1>7. SlotsAsSequential' /\ FeatAsSequential'
  BY <1>0, <1>5, StepSlots
<1>8. HiddenAsSequential'
  BY <1>0, HiddenElsewhere
<1>9. \A f \in at[w] .. (e + 1) - 1 : f = e \/ f \in at[w] .. e - 1
  BY <1>1, Sizes
<1>10. CountersAsSequential'
  <2>1. \A f \in at[w] .. (e + 1) - 1 : ~ HasTask(w, f) \/ ~ Unmasked(f, phase.of)
    BY <1>1, <1>9 DEF MaskOut
  <2> QED  BY <1>0, <1>1, <2>1, WalkCounters
<1>11. PassAsSequential'
  <2>1. \A f \in at[w] .. (e + 1) - 1 : f # e => ~ HasTask(w, f)
    BY <1>1, <1>9
  <2>2. ~ Enters(stream, Base + e, phase.of)
    BY <1>1, <1>2, UnmaskedEnters DEF MaskOut, StateInv
  <2>3. ~ PassesAt(stream, Base + e, phase.of)
    <3>1. Base + e \in Nat
      BY <1>1, Sizes
    <3> QED  BY <1>2, <2>2, <3>1, PassesByCount
  <2>4. \A f \in 1 .. size : f # e => pass'[phase.of][f] = pass[phase.of][f]
    BY <1>4, Sizes
  <2> QED  BY <1>0, <1>1, <1>4, <1>5, <2>1, <2>3, <2>4, WalkPass
<1>12. LoadedAsSequential'
  <2>1. wpc' = [wpc EXCEPT ![w] = "walk"]
    BY <1>1 DEF MaskOut, IndInv, TypeOK
  <2> QED  BY <1>0, <1>5, <2>1, LoadedOthers
<1> QED  BY <1>6, <1>7, <1>8, <1>10, <1>11, <1>12 DEF StateInv

LEMMA LoadCounterState ==
    ASSUME IndInv, StateInv, NEW w \in Warps, NEW e \in Slots, LoadCounter(w, e)
    PROVE  StateInv'
<1>0. WarpFrame /\ phase.kind = "tdrop" /\ at' = [at EXCEPT ![w] = e]
      /\ wpc' = [wpc EXCEPT ![w] = "loaded"]
      /\ UNCHANGED <<td, hidden, pass, updates>>
  BY DEF LoadCounter, WarpFrame, block, cells, Stop
<1>1. /\ e \in 1 .. size /\ e \in Nat /\ at[w] <= e /\ e <= size + 1
      /\ \A f \in at[w] .. e - 1 : ~ HasTask(w, f)
      /\ wpc[w] = "walk" /\ HasTask(w, e)
  BY ComesWithin DEF LoadCounter
<1>2. phase.of \in Stages /\ phase = Tdrop(phase.of)
  BY <1>0, TdropStage
<1>3. Unmasked(e, phase.of) /\ HasCenter(w, e)
  BY <1>0, <1>1 DEF LoadCounter, HasTask
<1>4. Cell(e) \in Cells(phase.of) /\ Centers(w, Cell(e)) /\ Cell(e) = CellOf(slot, e)
  BY <1>0, <1>1, <1>3, CellHasCounter, AsFunctions
<1>5. InBatch'
  BY <1>0, <1>1, InBatchKept
<1>6. SlotsAsSequential' /\ FeatAsSequential'
  BY <1>0, StepSlots
<1>7. HiddenAsSequential'
  BY <1>0, HiddenElsewhere
<1>8. CountersAsSequential'
  BY <1>0, <1>1, WalkCounters
<1>9. PassAsSequential'
  <2>1. (\E v \in Warps : e < at'[v] /\ Mine(slot, pass, v, e, phase.of)) =>
              (pass'[phase.of][e] <=> PassesAt(stream, Base + e, phase.of))
    <3> SUFFICES ASSUME NEW v \in Warps, e < at'[v], Mine(slot, pass, v, e, phase.of)
                 PROVE  pass[phase.of][e] <=> PassesAt(stream, Base + e, phase.of)
      BY <1>0
    <3>1. v # w
      <4>1. at'[w] = e
        BY <1>0, OtherAt
      <4> QED  BY <1>1, <4>1
    <3>2. e < at[v]
      BY <1>0, <3>1, OtherAt
    <3> QED  BY <1>1, <1>2, <3>2 DEF StateInv, PassAsSequential
  <2> QED  BY <1>0, <1>1, <2>1, WalkPass
<1>10. LoadedAsSequential'
  <2>1. number'[w] = td[phase.of][Cell(e)]
        /\ \A v \in Warps : v # w => number'[v] = number[v]
    BY DEF LoadCounter, IndInv, TypeOK
  <2>2. td[phase.of][Cell(e)]
           = Counted(stream, (Base + (e - 1)) + 1, Cell(e), phase.of) % CounterRange
    BY <1>0, <1>1, <1>4, WalkCounted
  <2>3. (Base + (e - 1)) + 1 = Base + e
    BY <1>1, Sizes
  <2>4. IsOpen(pass', e, phase.of)
    BY <1>0, <1>3, AsFunctions
  <2>5. phase.kind # "layer"
    BY <1>0
  <2> QED  BY <1>0, <1>4, <2>1, <2>2, <2>3, <2>4, <2>5, LoadedOthers
<1> QED  BY <1>5, <1>6, <1>7, <1>8, <1>9, <1>10 DEF StateInv

LEMMA StoreCounterState ==
    ASSUME IndInv, StateInv, NEW w \in Warps, StoreCounter(w)
    PROVE  StateInv'
<1> DEFINE e == at[w]
           d == CellOf(slot, e)
<1>0. WarpFrame /\ phase.kind = "tdrop" /\ at' = [at EXCEPT ![w] = e + 1]
      /\ wpc' = [wpc EXCEPT ![w] = "walk"] /\ wpc[w] = "loaded"
      /\ UNCHANGED <<hidden, updates>>
  BY DEF StoreCounter, WarpFrame, WalkOn
<1>1. /\ e \in 1 .. size /\ e \in Slots /\ e + 1 \in Nat /\ at[w] <= e + 1
      /\ e + 1 <= size + 1 /\ e \in Nat /\ e <= size + 1
  BY <1>0, HoldsSlot, Sizes
<1>2. phase.of \in Stages /\ phase = Tdrop(phase.of)
  BY <1>0, TdropStage
<1>3. /\ IsOpen(pass, e, phase.of) /\ Centers(w, d)
      /\ number[w] = Counted(stream, Base + e, d, phase.of) % CounterRange
  BY <1>0 DEF StateInv, LoadedAsSequential
<1>4. d = Cell(e) /\ d \in Cells(phase.of)
  BY <1>0, <1>1, AsFunctions, CellHasCounter
<1>5. /\ d = Center(stream[Base + e], phase.of)
      /\ Enters(stream, Base + e, phase.of)
  <2>1. phase.of = StageIn(phase) /\ (phase.of = 3 => Rank(phase) >= 4)
    BY <1>0, TdropStage
  <2>2. Unmasked(e, phase.of)
    BY <1>3, AsFunctions
  <2> QED
    BY <1>1, <1>2, <2>1, <2>2, UnmaskedEnters DEF StateInv, SlotsAsSequential
<1>6. /\ \A stage \in Stages : stage # phase.of => pass'[stage] = pass[stage]
      /\ \A f \in Slots : f # e => pass'[phase.of][f] = pass[phase.of][f]
      /\ pass'[phase.of][e] = Lets(number[w])
  BY <1>1, <1>2 DEF StoreCounter, IndInv, TypeOK
<1>7. phase.of = 3 => pass'[2] = pass[2]
  BY <1>6 DEF Stages
<1>8. pass'[2] = pass[2] \/ phase = Tdrop(2)
  BY <1>2, <1>7 DEF Stages
<1>9. InBatch'
  BY <1>0, <1>1, InBatchKept
<1>10. SlotsAsSequential' /\ FeatAsSequential'
  BY <1>0, <1>8, StepSlots
<1>11. HiddenAsSequential'
  BY <1>0, HiddenElsewhere
<1>12. \A f \in at[w] .. (e + 1) - 1 : f = e
  BY <1>1
<1>13. PassAsSequential'
  <2>1. \A f \in at[w] .. (e + 1) - 1 : f # e => ~ HasTask(w, f)
    BY <1>12
  <2>2. Base + e \in Nat
    BY <1>1, Sizes
  <2>3. Lets(number[w]) <=> PassesAt(stream, Base + e, phase.of)
    BY <1>2, <1>3, <1>5, <2>2, PassesByCount
  <2>4. \A f \in 1 .. size : f # e => pass'[phase.of][f] = pass[phase.of][f]
    BY <1>6, Sizes
  <2> HIDE DEF e, d
  <2> QED  BY <1>0, <1>1, <1>6, <1>7, <2>1, <2>3, <2>4, WalkPass
<1>14. CountersAsSequential'
  <2> SUFFICES ASSUME NEW stage \in Stages, NEW v \in Warps,
                    NEW c \in Cells(stage), Centers(v, c)
             PROVE  td'[stage][c] =
                Counted(stream, (Base + Behind(size, phase, at'[v], Tdrop(stage))) + 1,
                        c, stage) % CounterRange
    BY <1>0 DEF WarpFrame, CountersAsSequential, Base
  <2>1. /\ \A s \in Stages : s # phase.of => td'[s] = td[s]
        /\ \A b \in Cells(phase.of) : b # d => td'[phase.of][b] = td[phase.of][b]
        /\ td'[phase.of][d] = Increment(number[w])
    BY <1>2, <1>4 DEF StoreCounter, IndInv, TypeOK
  <2>2. Rank(phase) \in 1 .. 8
    BY RankNat DEF IndInv, TypeOK
  <2>3. CASE stage # phase.of
    <3>1. phase # Tdrop(stage)
      BY <2>3 DEF Tdrop
    <3>2. Behind(size, phase, at'[v], Tdrop(stage)) = Behind(size, phase, at[v], Tdrop(stage))
      BY <3>1, RankApart, BehindOther
    <3> QED  BY <2>1, <2>3, <3>2 DEF StateInv, CountersAsSequential
  <2>4. CASE stage = phase.of /\ v # w
    <3>1. c # d
      <4>1. c \in [x : Int, y : Int]
        BY GridCells
      <4> QED  BY <1>3, <2>4, <4>1, OneCenters
    <3>2. at'[v] = at[v]
      BY <1>0, <2>4, OtherAt
    <3> QED  BY <2>1, <2>4, <3>1, <3>2 DEF StateInv, CountersAsSequential
  <2>5. CASE stage = phase.of /\ v = w
    <3>1. at'[v] = e + 1
      BY <1>0, <2>5, OtherAt
    <3>2. Behind(size, phase, e + 1, Tdrop(stage)) = e
      <4>1. Behind(size, phase, e + 1, Tdrop(stage)) = (e + 1) - 1
        BY <1>2, <2>2, <2>5 DEF Behind
      <4> QED  BY <1>1, <4>1
    <3>3. (Base + (e - 1)) + 1 = Base + e /\ Base + e \in Nat \ {0}
      <4>1. Base \in Nat /\ size \in Nat
        BY Sizes
      <4> QED  BY <1>1, <4>1
    <3>4. Counted(stream, (Base + e) + 1, c, stage)
             = Counted(stream, Base + e, c, stage)
               + (IF Center(stream[Base + e], stage) = c /\ Enters(stream, Base + e, stage)
                  THEN 1 ELSE 0)
          /\ Counted(stream, Base + e, c, stage) \in Nat
      BY <3>3, CountedOf
    <3>5. CASE c = d
      <4>1. Counted(stream, (Base + e) + 1, c, stage)
               = Counted(stream, Base + e, c, stage) + 1
        BY <1>5, <2>5, <3>4, <3>5
      <4>2. \A n \in Nat : ((n % CounterRange) + 1) % CounterRange = (n + 1) % CounterRange
        BY DEF CounterRange
      <4>3. td'[stage][c] = (number[w] + 1) % CounterRange
        BY <2>1, <2>5, <3>5 DEF Increment
      <4> QED  BY <1>3, <2>5, <3>1, <3>2, <3>4, <3>5, <4>1, <4>2, <4>3
    <3>6. CASE c # d
      <4>1. Counted(stream, (Base + e) + 1, c, stage) = Counted(stream, Base + e, c, stage)
        BY <1>5, <2>5, <3>4, <3>6
      <4>2. td[stage][c] = Counted(stream, (Base + (e - 1)) + 1, c, stage) % CounterRange
        <5>1. /\ e \in Nat /\ e <= size + 1 /\ at[w] <= e
              /\ \A f \in at[w] .. e - 1 : ~ HasTask(w, f) \/ ~ Unmasked(f, phase.of)
          <6>1. \A f \in e .. e - 1 : FALSE
            BY <1>1
          <6> QED  BY <1>1, <6>1
        <5>2. c \in Cells(phase.of) /\ Centers(w, c)
          BY <2>5
        <5>3. td[phase.of][c] = Counted(stream, (Base + (e - 1)) + 1, c, phase.of)
                                   % CounterRange
          <6> HIDE DEF e
          <6> QED  BY <1>0, <5>1, <5>2, WalkCounted
        <5> QED  BY <2>5, <5>3
      <4>3. td'[stage][c] = td[stage][c]
        BY <2>1, <2>5, <3>6
      <4> QED  BY <3>1, <3>2, <3>3, <4>1, <4>2, <4>3
    <3> QED  BY <3>5, <3>6
  <2> QED  BY <2>3, <2>4, <2>5
<1>15. LoadedAsSequential'
  <2>1. \A v \in Warps : v # w => number'[v] = number[v] /\ updates'[v] = updates[v]
    BY <1>0 DEF StoreCounter, IndInv, TypeOK
  <2>2. (phase.kind = "tdrop" /\ phase.of = 2) \/ pass'[2] = pass[2]
    BY <1>0, <1>2, <1>7 DEF Stages
  <2> HIDE DEF e
  <2> QED  BY <1>0, <2>1, <2>2, LoadedOthers
<1> QED  BY <1>9, <1>10, <1>11, <1>13, <1>14, <1>15 DEF StateInv

LEMMA LoadCellState ==
    ASSUME IndInv, StateInv, NEW w \in Warps, NEW e \in Slots, LoadCell(w, e)
    PROVE  StateInv'
<1>0. WarpFrame /\ phase.kind = "layer" /\ at' = [at EXCEPT ![w] = e]
      /\ wpc' = [wpc EXCEPT ![w] = "loaded"]
      /\ UNCHANGED <<td, hidden, pass, number>>
  BY DEF LoadCell, WarpFrame, block, cells, Stop
<1>1. /\ e \in 1 .. size /\ e \in Nat /\ at[w] <= e /\ e <= size + 1
      /\ \A f \in at[w] .. e - 1 : ~ HasTask(w, f)
      /\ wpc[w] = "walk" /\ HasTask(w, e)
  BY ComesWithin DEF LoadCell
<1>2. phase.kind # "tdrop"
  BY <1>0
<1>3. InBatch'
  BY <1>0, <1>1, InBatchKept
<1>4. SlotsAsSequential' /\ FeatAsSequential'
  BY <1>0, StepSlots
<1>5. HiddenAsSequential'
  BY <1>0, <1>1, WalkHidden
<1>6. CountersAsSequential'
  BY <1>0, <1>2, CountersElsewhere
<1>7. PassAsSequential'
  BY <1>0, <1>2, PassElsewhere
<1>8. LoadedAsSequential'
  <2> DEFINE c == Target(w, e)
             ly == phase.of
  <2>1. ly \in Layers
    BY <1>0, LayerStage
  <2>2. IsOpen(pass, e, StageOf(ly)) /\ c \in Cells(StageOf(ly)) /\ c = Aimed(slot, w, e)
    BY <1>0, <1>1, AsFunctions
  <2>3. Aims(w, c)
    <3>1. e \in Slots /\ SlotTyped
      BY Sizes
    <3> QED  BY <3>1, TargetAims
  <2>4. hidden[ly][c] = History(stream, Base + (e - 1), c, ly)
    BY <1>0, <1>1, <2>2, <2>3, WalkHistory
  <2>5. Touches(stream, Base + e, c, ly)
    BY <1>0, <1>1, <2>2, <2>3, TouchesTarget
  <2>6. feat[e] = ly - 1
    BY <1>0, <1>1, <2>2 DEF StateInv, FeatAsSequential
  <2>7. Number(e) = Base + e
    BY DEF Number, Base
  <2>8. Base + (e - 1) \in Nat /\ (Base + (e - 1)) + 1 = Base + e
    BY <1>1, Sizes
  <2>9. History(stream, Base + e, c, ly)
           = Append(History(stream, Base + (e - 1), c, ly), Update(Base + e, ly))
    BY <2>1, <2>5, <2>8, HistoryOf
  <2>10. updates'[w] = Append(hidden[ly][c], [event |-> Number(e), from |-> feat[e]])
         /\ \A v \in Warps : v # w => updates'[v] = updates[v]
    BY DEF LoadCell, IndInv, TypeOK
  <2>11. updates'[w] = History(stream, Base + e, c, ly)
    BY <2>4, <2>6, <2>7, <2>9, <2>10 DEF Update
  <2> QED  BY <1>0, <1>2, <2>2, <2>10, <2>11, LoadedOthers
<1> QED  BY <1>3, <1>4, <1>5, <1>6, <1>7, <1>8 DEF StateInv

LEMMA StoreCellState ==
    ASSUME IndInv, StateInv, NEW w \in Warps, StoreCell(w)
    PROVE  StateInv'
<1> DEFINE e == at[w]
           d == Aimed(slot, w, e)
           ly == phase.of
<1>0. WarpFrame /\ phase.kind = "layer" /\ at' = [at EXCEPT ![w] = e + 1]
      /\ wpc' = [wpc EXCEPT ![w] = "walk"] /\ wpc[w] = "loaded"
      /\ UNCHANGED <<td, pass, number>>
  BY DEF StoreCell, WarpFrame, WalkOn
<1>1. /\ e \in 1 .. size /\ e \in Slots /\ e + 1 \in Nat /\ e + 1 <= size + 1
      /\ e \in Nat /\ e <= size + 1
  BY <1>0, HoldsSlot, Sizes
<1>2. phase.kind # "tdrop"
  BY <1>0
<1>3. ly \in Layers /\ phase = Layer(ly)
  BY <1>0, LayerStage
<1>4. /\ IsOpen(pass, e, StageOf(ly)) /\ d \in Cells(StageOf(ly))
      /\ updates[w] = History(stream, Base + e, d, ly)
  BY <1>0 DEF StateInv, LoadedAsSequential
<1>5. d = Target(w, e) /\ Aims(w, d)
  <2>1. SlotTyped
    BY Sizes
  <2> QED  BY <1>1, <2>1, AsFunctions, TargetAims
<1>6. InBatch'
  BY <1>0, <1>1, InBatchKept
<1>7. SlotsAsSequential' /\ FeatAsSequential'
  BY <1>0, StepSlots
<1>8. CountersAsSequential'
  BY <1>0, <1>2, CountersElsewhere
<1>9. PassAsSequential'
  BY <1>0, <1>2, PassElsewhere
<1>10. HiddenAsSequential'
  <2> SUFFICES ASSUME NEW layer \in Layers, NEW v \in Warps,
                    NEW c \in Cells(StageOf(layer)), Aims(v, c)
             PROVE  hidden'[layer][c] =
                       History(stream, Base + Behind(size, phase, at'[v], Layer(layer)),
                               c, layer)
    BY <1>0 DEF WarpFrame, HiddenAsSequential, Base
  <2>1. /\ \A l \in Layers : l # ly => hidden'[l] = hidden[l]
        /\ \A b \in Cells(StageOf(ly)) : b # d => hidden'[ly][b] = hidden[ly][b]
        /\ hidden'[ly][d] = updates[w]
    BY <1>3, <1>4, <1>5 DEF StoreCell, IndInv, TypeOK
  <2>2. Rank(phase) \in 1 .. 8
    BY RankNat DEF IndInv, TypeOK
  <2>3. CASE layer # ly
    <3>1. phase # Layer(layer)
      BY <2>3 DEF Layer
    <3>2. Behind(size, phase, at'[v], Layer(layer)) = Behind(size, phase, at[v], Layer(layer))
      BY <3>1, RankApart, BehindOther
    <3> QED  BY <2>1, <2>3, <3>2 DEF StateInv, HiddenAsSequential
  <2>4. CASE layer = ly /\ v # w
    <3>1. c # d
      <4>1. c \in [x : Int, y : Int]
        <5>1. StageOf(layer) \in Stages
          BY DEF StageOf, Stages
        <5> QED  BY <5>1, GridCells
      <4> QED  BY <1>5, <2>4, <4>1, OneAims
    <3>2. at'[v] = at[v]
      BY <1>0, <2>4, OtherAt
    <3> QED  BY <2>1, <2>4, <3>1, <3>2 DEF StateInv, HiddenAsSequential
  <2>5. CASE layer = ly /\ v = w
    <3>1. at'[v] = e + 1
      BY <1>0, <2>5, OtherAt
    <3>2. Behind(size, phase, e + 1, Layer(layer)) = e
      <4>1. Behind(size, phase, e + 1, Layer(layer)) = (e + 1) - 1
        BY <1>3, <2>2, <2>5 DEF Behind
      <4> QED  BY <1>1, <4>1
    <3>3. CASE c = d
      BY <1>4, <2>1, <2>5, <3>1, <3>2, <3>3
    <3>4. CASE c # d
      <4>1. ~ Touches(stream, Base + e, c, ly)
        BY <1>0, <1>1, <1>5, <2>5, <3>4, TouchesTarget
      <4>2. Base + (e - 1) \in Nat /\ (Base + (e - 1)) + 1 = Base + e
        BY <1>1, Sizes
      <4>3. History(stream, Base + e, c, ly) = History(stream, Base + (e - 1), c, ly)
        <5>1. ly \in Layers
          BY <1>3
        <5> HIDE DEF ly, e
        <5> QED  BY <4>1, <4>2, <5>1, HistoryOf
      <4>4. hidden[ly][c] = History(stream, Base + (e - 1), c, ly)
        <5>1. at[w] <= e /\ \A f \in at[w] .. e - 1 : FALSE
          BY <1>1
        <5> QED  BY <1>0, <1>1, <2>5, <5>1, WalkHistory
      <4>5. hidden'[ly][c] = hidden[ly][c]
        BY <2>1, <2>5, <3>4
      <4> QED  BY <2>5, <3>1, <3>2, <4>3, <4>4, <4>5
    <3> QED  BY <3>3, <3>4
  <2> QED  BY <2>3, <2>4, <2>5
<1>11. LoadedAsSequential'
  <2>1. \A v \in Warps : v # w => number'[v] = number[v] /\ updates'[v] = updates[v]
    BY <1>0 DEF StoreCell, IndInv, TypeOK
  <2> HIDE DEF e, d, ly
  <2> QED  BY <1>0, <2>1, LoadedOthers
<1> QED  BY <1>6, <1>7, <1>8, <1>9, <1>10, <1>11 DEF StateInv

(* In the head, no counter and no hidden state changes.                    *)
LEMMA HeadState ==
    ASSUME IndInv, StateInv, IndInv', WarpFrame, phase = InHead, NEW w \in Warps,
           NEW a \in Nat, a <= size + 1, at' = [at EXCEPT ![w] = a],
           UNCHANGED <<pass, td, hidden>>
    PROVE  StateInv'
<1>1. phase.kind # "tdrop" /\ phase.kind # "layer"
  BY DEF InHead
<1>2. InBatch'
  BY InBatchKept
<1>3. SlotsAsSequential' /\ FeatAsSequential'
  BY StepSlots
<1>4. HiddenAsSequential' /\ CountersAsSequential' /\ PassAsSequential'
  BY <1>1, HiddenElsewhere, CountersElsewhere, PassElsewhere
<1>5. LoadedAsSequential'
  BY <1>1 DEF IndInv, Holding, LoadedAsSequential, WarpFrame
<1> QED  BY <1>2, <1>3, <1>4, <1>5 DEF StateInv

LEMMA WarpStepState ==
    ASSUME IndInv, StateInv, IndInv', NEW w \in Warps, WarpStep(w)
    PROVE  StateInv'
<1>1. ASSUME NEW e \in Slots, MaskOut(w, e) PROVE StateInv'
  BY <1>1, MaskOutState
<1>2. ASSUME NEW e \in Slots, LoadCounter(w, e) PROVE StateInv'
  BY <1>2, LoadCounterState
<1>3. ASSUME NEW e \in Slots, LoadCell(w, e) PROVE StateInv'
  BY <1>3, LoadCellState
<1>4. ASSUME NEW e \in Slots, WriteBox(w, e) PROVE StateInv'
  <2>1. e \in Nat /\ e <= size + 1
    BY <1>4, ComesWithin DEF WriteBox
  <2>2. /\ WarpFrame /\ phase = InHead /\ at' = [at EXCEPT ![w] = e]
        /\ UNCHANGED <<pass, td, hidden>>
    BY <1>4 DEF WriteBox, WarpFrame, block, Stop
  <2> QED  BY <2>1, <2>2, HeadState
<1>5. CASE StoreCounter(w)
  BY <1>5, StoreCounterState
<1>6. CASE StoreCell(w)
  BY <1>6, StoreCellState
<1>7. CASE WriteClass(w) \/ LoadVersion(w)
  <2>1. wpc[w] \in {"box", "class", "version"}
    BY <1>7 DEF WriteClass, LoadVersion
  <2>2. at[w] \in Nat /\ at[w] <= size + 1 /\ phase = InHead
    BY <2>1, InTheHead, Sizes
  <2>3. /\ WarpFrame /\ at' = [at EXCEPT ![w] = at[w]]
        /\ UNCHANGED <<pass, td, hidden>>
    BY <1>7 DEF WriteClass, LoadVersion, WarpFrame, block, cells, Stop
  <2> QED  BY <2>2, <2>3, HeadState
<1>8. CASE StoreVersion(w)
  <2>1. wpc[w] \in {"box", "class", "version"}
    BY <1>8 DEF StoreVersion
  <2>2. at[w] + 1 \in Nat /\ at[w] + 1 <= size + 1 /\ phase = InHead
    BY <2>1, InTheHead, Sizes
  <2>3. /\ WarpFrame /\ at' = [at EXCEPT ![w] = at[w] + 1]
        /\ UNCHANGED <<pass, td, hidden>>
    BY <1>8 DEF StoreVersion, WarpFrame, block, WalkOn
  <2> QED  BY <2>2, <2>3, HeadState
<1> QED
  BY <1>1, <1>2, <1>3, <1>4, <1>5, <1>6, <1>7, <1>8 DEF WarpStep

(* When all have arrived, the work of the phase is that of the whole       *)
(* batch, and nothing of the next phase has been done.                     *)
LEMMA EnterState ==
    ASSUME IndInv, StateInv, AllArrived, NEW next \in Phases, Enter(next),
           Rank(next) = Rank(phase) + 1
    PROVE  /\ InBatch' /\ PassAsSequential' /\ HiddenAsSequential'
           /\ CountersAsSequential' /\ LoadedAsSequential'
<1>0. /\ phase' = next /\ \A w \in Warps : at'[w] = 1 /\ wpc'[w] = "walk"
      /\ UNCHANGED <<size, pass, td, hidden, stream>>
  BY DEF Enter, cells
<1>1. Rank(phase) \in 1 .. 8 /\ Rank(next) \in 1 .. 8 /\ phase \in Phases
  BY RankNat DEF IndInv, TypeOK
<1>2. ASSUME NEW w \in Warps
      PROVE  /\ \A f \in at[w] .. size : ~ HasTask(w, f)
             /\ at[w] \in Nat /\ at[w] <= size + 1 /\ size \in Nat
             /\ size + 1 \in Nat /\ (size + 1) - 1 = size
  BY Sizes DEF AllArrived, Arrived, StateInv, InBatch
<1>3. InBatch'
  BY <1>0, Sizes DEF InBatch
<1>4. PassAsSequential'
  <2> SUFFICES ASSUME NEW stage \in Stages, NEW e \in 1 .. size,
                      Rank(Tdrop(stage)) < Rank(next)
               PROVE  pass[stage][e] <=> PassesAt(stream, Base + e, stage)
    BY <1>0 DEF PassAsSequential, Base
  <2>1. CASE Rank(Tdrop(stage)) < Rank(phase)
    <3>1. 0 \in Warps
      BY DEF Warps
    <3> QED  BY <2>1, <3>1 DEF StateInv, PassAsSequential
  <2>2. CASE Rank(Tdrop(stage)) = Rank(phase)
    <3>1. phase = Tdrop(stage)
      BY <1>1, <2>2, RankIs
    <3>2. phase.kind = "tdrop" /\ phase.of = stage
      BY <3>1 DEF Tdrop
    <3>3. \E v \in Warps : Mine(slot, pass, v, e, stage)
      <4>1. CellOf(slot, e) \in [x : Int, y : Int]
        BY SlotInt, Sizes DEF CellOf
      <4>2. PICK v \in Warps : Centers(v, CellOf(slot, e))
        BY <4>1, SomeAims
      <4>3. slot[e].y % 3 = v \div 3 /\ slot[e].x % 3 = v % 3
        BY <4>2 DEF Centers, CellOf
      <4>4. 0 \in Warps
        BY DEF Warps
      <4> QED  BY <4>3, <4>4 DEF Mine
    <3>4. PICK v \in Warps : Mine(slot, pass, v, e, stage)
      BY <3>3
    <3>5. HasTask(v, e)
      BY <3>2, <3>4, AsFunctions
    <3>6. e < at[v]
      BY <1>2, <3>5
    <3> QED  BY <3>1, <3>4, <3>6 DEF StateInv, PassAsSequential
  <2>3. Rank(Tdrop(stage)) \in 1 .. 8
    BY Ranks DEF Stages
  <2> QED  BY <1>1, <2>1, <2>2, <2>3
<1>5. HiddenAsSequential'
  <2> SUFFICES ASSUME NEW layer \in Layers, NEW w \in Warps,
                      NEW c \in Cells(StageOf(layer)), Aims(w, c)
               PROVE  hidden[layer][c] =
                         History(stream, Base + Behind(size, next, 1, Layer(layer)),
                                 c, layer)
    BY <1>0 DEF HiddenAsSequential, Base
  <2>1. Rank(Layer(layer)) \in 1 .. 8
    BY Ranks DEF Layers
  <2>2. CASE Rank(Layer(layer)) # Rank(phase)
    <3>1. Behind(size, next, 1, Layer(layer)) = Behind(size, phase, at[w], Layer(layer))
      BY <1>1, <2>1, <2>2 DEF Behind
    <3> QED  BY <3>1 DEF StateInv, HiddenAsSequential
  <2>3. CASE Rank(Layer(layer)) = Rank(phase)
    <3>1. phase = Layer(layer)
      BY <1>1, <2>3, RankIs
    <3>2. phase.kind = "layer" /\ phase.of = layer
      BY <3>1 DEF Layer
    <3>3. Behind(size, next, 1, Layer(layer)) = size
      BY <1>1, <2>3 DEF Behind
    <3>4. hidden[layer][c] = History(stream, Base + ((size + 1) - 1), c, layer)
      BY <1>2, <3>2, WalkHistory
    <3> QED  BY <1>2, <3>3, <3>4
  <2> QED  BY <2>2, <2>3
<1>6. CountersAsSequential'
  <2> SUFFICES ASSUME NEW stage \in Stages, NEW w \in Warps,
                      NEW c \in Cells(stage), Centers(w, c)
               PROVE  td[stage][c] =
                  Counted(stream, (Base + Behind(size, next, 1, Tdrop(stage))) + 1,
                          c, stage) % CounterRange
    BY <1>0 DEF CountersAsSequential, Base
  <2>1. Rank(Tdrop(stage)) \in 1 .. 8
    BY Ranks DEF Stages
  <2>2. CASE Rank(Tdrop(stage)) # Rank(phase)
    <3>1. Behind(size, next, 1, Tdrop(stage)) = Behind(size, phase, at[w], Tdrop(stage))
      BY <1>1, <2>1, <2>2 DEF Behind
    <3> QED  BY <3>1 DEF StateInv, CountersAsSequential
  <2>3. CASE Rank(Tdrop(stage)) = Rank(phase)
    <3>1. phase = Tdrop(stage)
      BY <1>1, <2>3, RankIs
    <3>2. phase.kind = "tdrop" /\ phase.of = stage
      BY <3>1 DEF Tdrop
    <3>3. Behind(size, next, 1, Tdrop(stage)) = size
      BY <1>1, <2>3 DEF Behind
    <3>4. td[stage][c] = Counted(stream, (Base + ((size + 1) - 1)) + 1, c, stage)
                            % CounterRange
      BY <1>2, <3>2, WalkCounted
    <3> QED  BY <1>2, <3>3, <3>4
  <2> QED  BY <2>2, <2>3
<1>7. LoadedAsSequential'
  BY <1>0 DEF LoadedAsSequential
<1> QED  BY <1>3, <1>4, <1>5, <1>6, <1>7

LEMMA SlotsKept ==
    ASSUME StateInv, UNCHANGED <<stream, size, slot>>, StageIn(phase') = StageIn(phase)
    PROVE  SlotsAsSequential'
BY DEF StateInv, SlotsAsSequential, Base

LEMMA EndTdropState ==
    ASSUME IndInv, StateInv, EndTdrop
    PROVE  StateInv'
<1> DEFINE next == Layer(IF phase.of = 2 THEN 4 ELSE 6)
<1>0. /\ phase.kind = "tdrop" /\ AllArrived /\ Enter(next)
      /\ UNCHANGED <<slot, feat, stream, size, pass>> /\ phase' = next
  BY DEF EndTdrop, Enter
<1>1. phase.of \in Stages /\ phase = Tdrop(phase.of)
  BY <1>0, TdropStage
<1>2. next \in Phases /\ Rank(next) = Rank(phase) + 1
      /\ StageIn(next) = StageIn(phase)
  <2>1. CASE phase.of = 2
    BY <1>1, <2>1, Ranks DEF Phases, Layers, StageIn
  <2>2. CASE phase.of = 3
    BY <1>1, <2>2, Ranks DEF Phases, Layers, StageIn
  <2> QED  BY <1>1, <2>1, <2>2 DEF Stages
<1>3. SlotsAsSequential'
  BY <1>0, <1>2, SlotsKept
<1>4. FeatAsSequential'
  <2> SUFFICES ASSUME NEW e \in 1 .. size
               PROVE  /\ next = Tdrop(2) => feat[e] = 3
                      /\ next = Tdrop(3) /\ pass[2][e] => feat[e] = 5
                      /\ next.kind = "layer" /\ IsOpen(pass, e, StageOf(next.of))
                            => feat[e] = next.of - 1
    BY <1>0 DEF FeatAsSequential
  <2>1. next # Tdrop(2) /\ next # Tdrop(3)
    BY DEF Tdrop, Layer
  <2>2. CASE phase.of = 2
    <3>1. feat[e] = 3
      BY <1>1, <2>2 DEF StateInv, FeatAsSequential
    <3> QED  BY <2>1, <2>2, <3>1 DEF Layer
  <2>3. CASE phase.of = 3
    <3>1. pass[2][e] => feat[e] = 5
      BY <1>1, <2>3 DEF StateInv, FeatAsSequential
    <3>2. next.of = 6 /\ StageOf(6) = 3
      BY <2>3 DEF Layer, StageOf
    <3> QED  BY <2>1, <3>1, <3>2 DEF IsOpen
  <2> QED  BY <1>1, <2>2, <2>3 DEF Stages
<1> HIDE DEF next
<1> QED  BY <1>0, <1>2, <1>3, <1>4, EnterState DEF StateInv

LEMMA EndFirstLayerState ==
    ASSUME IndInv, StateInv, EndFirstLayer
    PROVE  StateInv'
<1> DEFINE next == Layer(phase.of + 1)
<1>0. /\ phase \in {Layer(4), Layer(6)} /\ AllArrived /\ Enter(next)
      /\ UNCHANGED <<slot, stream, size, pass>> /\ phase' = next
      /\ feat' = Gathered
  BY DEF EndFirstLayer, Enter
<1>1. \/ phase = Layer(4) /\ phase.of = 4 /\ next = Layer(5)
      \/ phase = Layer(6) /\ phase.of = 6 /\ next = Layer(7)
  BY <1>0 DEF Layer
<1>2. next \in Phases /\ Rank(next) = Rank(phase) + 1
      /\ StageIn(next) = StageIn(phase)
  BY <1>1, Ranks DEF Phases, Layers, StageIn
<1>3. SlotsAsSequential'
  BY <1>0, <1>2, SlotsKept
<1>4. FeatAsSequential'
  <2> SUFFICES ASSUME NEW e \in 1 .. size
               PROVE  /\ next # Tdrop(2) /\ next # Tdrop(3)
                      /\ feat'[e] = next.of - 1
    BY <1>0 DEF FeatAsSequential
  <2>1. next # Tdrop(2) /\ next # Tdrop(3)
    BY DEF Tdrop, Layer
  <2>2. Wanted(e, phase.of)
    BY <1>1 DEF Wanted
  <2>3. e \in Slots /\ e <= size
    BY Sizes
  <2>4. feat'[e] = phase.of
    BY <1>0, <2>2, <2>3 DEF Gathered
  <2>5. next.of - 1 = phase.of
    BY <1>1 DEF Layer
  <2> QED  BY <2>1, <2>4, <2>5
<1> HIDE DEF next
<1> QED  BY <1>0, <1>2, <1>3, <1>4, EnterState DEF StateInv

LEMMA EndStage2State ==
    ASSUME IndInv, StateInv, EndStage2
    PROVE  StateInv'
<1>0. /\ phase = Layer(5) /\ AllArrived /\ Enter(Tdrop(3))
      /\ UNCHANGED <<stream, size, pass>> /\ phase' = Tdrop(3)
      /\ feat' = Gathered
  BY DEF EndStage2, Enter
<1>1. phase.of = 5
  BY <1>0 DEF Layer
<1>2. Tdrop(3) \in Phases /\ Rank(Tdrop(3)) = Rank(phase) + 1
      /\ StageIn(phase) = 2 /\ StageIn(Tdrop(3)) = 3
  BY <1>0, Ranks DEF Phases, StageIn
<1>3. SlotsAsSequential'
  <2> SUFFICES ASSUME NEW e \in 1 .. size
               PROVE  /\ CellOf(slot', e) = Center(stream[Base + e], 3)
                      /\ slot'[e].owner <=> stream[Base + e] \in Owned
    BY <1>0, <1>2 DEF SlotsAsSequential, Base
  <2>1. e \in Slots /\ e <= size
    BY Sizes
  <2>2. slot'[e] = [slot[e] EXCEPT !.x = @ \div 2, !.y = @ \div 2]
    BY <2>1 DEF EndStage2
  <2>3. slot[e] \in [x : 0 .. W2 - 1, y : 0 .. H2 - 1, owner : BOOLEAN]
    BY <2>1 DEF IndInv, TypeOK
  <2>4. /\ slot'[e].x = slot[e].x \div 2 /\ slot'[e].y = slot[e].y \div 2
        /\ slot'[e].owner = slot[e].owner
    BY <2>2, <2>3
  <2>5. /\ CellOf(slot, e) = Center(stream[Base + e], 2)
        /\ slot[e].owner <=> stream[Base + e] \in Owned
    BY <1>2 DEF StateInv, SlotsAsSequential
  <2>6. slot[e].x = stream[Base + e].x /\ slot[e].y = stream[Base + e].y
    BY <2>5 DEF CellOf, Center
  <2>7. CellOf(slot', e) = Center(stream[Base + e], 3)
    BY <2>4, <2>6 DEF CellOf, Center, Halve
  <2> QED  BY <2>4, <2>5, <2>7
<1>4. FeatAsSequential'
  <2> SUFFICES ASSUME NEW e \in 1 .. size, pass[2][e]
               PROVE  feat'[e] = 5
    BY <1>0 DEF FeatAsSequential, Tdrop
  <2>1. e \in Slots /\ e <= size
    BY Sizes
  <2> QED  BY <1>0, <1>1, <2>1 DEF Gathered, Wanted
<1> QED  BY <1>0, <1>2, <1>3, <1>4, EnterState DEF StateInv

LEMMA EndStage3State ==
    ASSUME IndInv, StateInv, EndStage3
    PROVE  StateInv'
<1>0. /\ phase = Layer(7) /\ AllArrived /\ Enter(InHead)
      /\ UNCHANGED <<slot, stream, size, pass>> /\ phase' = InHead
  BY DEF EndStage3, Enter
<1>1. InHead \in Phases /\ Rank(InHead) = Rank(phase) + 1
      /\ StageIn(InHead) = StageIn(phase)
  BY <1>0, Ranks DEF Phases, StageIn
<1>2. SlotsAsSequential'
  BY <1>0, <1>1, SlotsKept
<1>3. FeatAsSequential'
  BY <1>0 DEF FeatAsSequential, InHead, Tdrop
<1> QED  BY <1>0, <1>1, <1>2, <1>3, EnterState DEF StateInv

LEMMA EndHeadState ==
    ASSUME IndInv, StateInv, EndHead
    PROVE  StateInv'
<1>0. /\ phase = InHead /\ AllArrived /\ Enter(Pop)
      /\ UNCHANGED <<slot, stream, size, pass>> /\ phase' = Pop
  BY DEF EndHead, Enter
<1>1. Pop \in Phases /\ Rank(Pop) = Rank(phase) + 1
      /\ StageIn(Pop) = StageIn(phase)
  BY <1>0, Ranks DEF Phases, StageIn
<1>2. SlotsAsSequential'
  BY <1>0, <1>1, SlotsKept
<1>3. FeatAsSequential'
  BY <1>0 DEF FeatAsSequential, Pop, Tdrop
<1> QED  BY <1>0, <1>1, <1>2, <1>3, EnterState DEF StateInv

-----------------------------------------------------------------------------
(* A batch is a sequence of events.                                        *)
LEMMA BatchSeq ==
    ASSUME NEW n \in Slots, NEW events \in [1 .. n -> EventCells]
    PROVE  /\ events \in Seq(Cells(2)) /\ Len(events) = n /\ n \in Nat
           /\ \A e \in 1 .. n : events[e] \in Cells(2)
<1>0. EventCells \subseteq Cells(2) /\ Batch \in Nat
  BY CelledKernelAssumption
<1>1. n \in Nat /\ events \in [1 .. n -> Cells(2)]
  BY <1>0 DEF Slots
<1>2. events \in Seq(Cells(2))
  <2> DEFINE S == Cells(2)
  <2>1. Seq(S) = UNION {[1 .. m -> S] : m \in Nat}
    BY SeqDef
  <2>2. events \in [1 .. n -> S]
    BY <1>1
  <2> HIDE DEF S
  <2> QED BY <1>1, <2>1, <2>2
<1>3. Len(events) \in Nat /\ 1 .. Len(events) = 1 .. n
  BY <1>1, <1>2, LenProperties
<1>4. n \in 1 .. Len(events) /\ (Len(events) = 0 \/ Len(events) \in 1 .. n)
  BY <1>1, <1>3 DEF Slots
<1> QED  BY <1>1, <1>2, <1>3, <1>4

LEMMA LoadedStream ==
    ASSUME IndInv, phase = Pop, NEW n \in Slots, NEW events \in [1 .. n -> EventCells],
           LoadBatch(events)
    PROVE  /\ stream \in Seq(Cells(2)) /\ Len(stream) \in Nat
           /\ Len(stream') = Len(stream) + n /\ size' = n /\ n \in Nat
           /\ Len(stream') - size' = Len(stream)
           /\ \A m \in 1 .. Len(stream) : stream'[m] = stream[m]
           /\ \A e \in 1 .. n : stream'[Len(stream) + e] = events[e]
           /\ phase' = Tdrop(2) /\ \A w \in Warps : at'[w] = 1 /\ wpc'[w] = "walk"
<1>1. stream \in Seq(Cells(2)) /\ Len(stream) \in Nat
  BY LenProperties DEF IndInv, TypeOK
<1>2. events \in Seq(Cells(2)) /\ Len(events) = n /\ n \in Nat
  BY BatchSeq
<1>3. stream' = stream \o events /\ size' = n /\ phase' = Tdrop(2)
      /\ \A w \in Warps : at'[w] = 1
  BY <1>2 DEF LoadBatch
<1>4. Len(stream') = Len(stream) + n /\ Len(stream') - size' = Len(stream)
  <2>1. Len(stream \o events) = Len(stream) + Len(events)
    BY <1>1, <1>2, ConcatProperties
  <2> QED  BY <1>1, <1>2, <1>3, <2>1
<1>5. \A m \in 1 .. Len(stream) : stream'[m] = stream[m]
  BY <1>1, <1>2, <1>3, ConcatProperties
<1>6. \A e \in 1 .. n : stream'[Len(stream) + e] = events[e]
  <2> TAKE e \in 1 .. n
  <2> DEFINE i == Len(stream) + e
  <2>1. i \in 1 .. Len(stream) + Len(events) /\ ~ (i <= Len(stream)) /\ i - Len(stream) = e
    BY <1>1, <1>2
  <2> HIDE DEF i
  <2>2. (stream \o events)[i] = events[i - Len(stream)]
    BY <1>1, <1>2, <2>1, ConcatProperties
  <2> QED  BY <1>3, <2>1, <2>2 DEF i
<1>7. \A w \in Warps : wpc'[w] = "walk"
  BY WalkingAtPop DEF LoadBatch
<1> QED  BY <1>1, <1>2, <1>3, <1>4, <1>5, <1>6, <1>7

LEMMA LoadBatchState ==
    ASSUME IndInv, StateInv, NEW n \in Slots, NEW events \in [1 .. n -> EventCells],
           LoadBatch(events)
    PROVE  StateInv'
<1> DEFINE N == Len(stream)
<1>0. phase = Pop /\ UNCHANGED <<td, hidden>>
  BY DEF LoadBatch, cells
<1>1. /\ N \in Nat /\ size' = n /\ n \in Nat /\ Base' = N
      /\ \A m \in 1 .. N : stream'[m] = stream[m]
      /\ \A e \in 1 .. n : stream'[N + e] = events[e]
      /\ phase' = Tdrop(2) /\ \A w \in Warps : at'[w] = 1 /\ wpc'[w] = "walk"
  BY <1>0, LoadedStream DEF Base
<1>2. Base + size = N
  BY Sizes
<1>3. InBatch'
  BY <1>1 DEF InBatch, Slots
<1>4. SlotsAsSequential' /\ FeatAsSequential'
  <2> SUFFICES ASSUME NEW e \in 1 .. n
               PROVE  /\ CellOf(slot', e) = Center(events[e], StageIn(Tdrop(2)))
                      /\ slot'[e].owner <=> events[e] \in Owned
                      /\ feat'[e] = 3
    BY <1>1 DEF SlotsAsSequential, FeatAsSequential, Tdrop
  <2>1. StageIn(Tdrop(2)) = 2
    BY Ranks DEF StageIn
  <2>2. e \in Slots /\ e <= Len(events)
    <3>1. Batch \in Nat /\ n \in 1 .. Batch
      BY CelledKernelAssumption DEF Slots
    <3> QED  BY <3>1, BatchSeq DEF Slots
  <2>3. slot'[e] = [x |-> events[e].x, y |-> events[e].y, owner |-> events[e] \in Owned]
        /\ feat'[e] = 3
    BY <2>2 DEF LoadBatch
  <2>4. slot'[e].x = events[e].x /\ slot'[e].y = events[e].y
        /\ (slot'[e].owner <=> events[e] \in Owned)
    <3> DEFINE B == events[e] \in Owned
    <3>1. B \in BOOLEAN
      OBVIOUS
    <3>2. slot'[e] = [x |-> events[e].x, y |-> events[e].y, owner |-> B]
      BY <2>3
    <3> HIDE DEF B
    <3>3. slot'[e].owner = B
      BY <3>2
    <3>4. slot'[e].owner <=> B
      BY <3>1, <3>3
    <3> QED  BY <3>2, <3>4 DEF B
  <2>5. CellOf(slot', e) = Center(events[e], 2)
    BY <2>4 DEF CellOf, Center
  <2> QED  BY <2>1, <2>3, <2>4, <2>5
<1>5. PassAsSequential'
  <2> SUFFICES ASSUME NEW stage \in Stages, NEW w \in Warps, NEW e \in 1 .. n,
                      Rank(Tdrop(stage)) < Rank(Tdrop(2)) \/ e < 1
               PROVE  FALSE
    BY <1>1 DEF PassAsSequential
  <2> QED  BY Ranks DEF Stages
<1>6. HiddenAsSequential'
  <2> SUFFICES ASSUME NEW layer \in Layers, NEW w \in Warps,
                      NEW c \in Cells(StageOf(layer)), Aims(w, c)
               PROVE  hidden[layer][c] =
                         History(stream', N + Behind(n, Tdrop(2), 1, Layer(layer)),
                                 c, layer)
    BY <1>0, <1>1 DEF HiddenAsSequential
  <2>1. /\ Behind(n, Tdrop(2), 1, Layer(layer)) = 0
        /\ Behind(size, Pop, at[w], Layer(layer)) = size
    BY Ranks DEF Behind, Layers
  <2>2. hidden[layer][c] = History(stream, N, c, layer)
    BY <1>0, <1>2, <2>1 DEF StateInv, HiddenAsSequential
  <2>3. History(stream', N, c, layer) = History(stream, N, c, layer)
    <3>1. N \in Nat /\ \A m \in 1 .. N : stream'[m] = stream[m]
      BY <1>1
    <3> HIDE DEF N
    <3> QED  BY <3>1, SameHistory
  <2> QED  BY <1>1, <2>1, <2>2, <2>3
<1>7. CountersAsSequential'
  <2> SUFFICES ASSUME NEW stage \in Stages, NEW w \in Warps,
                      NEW c \in Cells(stage), Centers(w, c)
               PROVE  td[stage][c] =
                         Counted(stream', (N + Behind(n, Tdrop(2), 1, Tdrop(stage))) + 1,
                                 c, stage) % CounterRange
    BY <1>0, <1>1 DEF CountersAsSequential
  <2>1. /\ Behind(n, Tdrop(2), 1, Tdrop(stage)) = 0
        /\ Behind(size, Pop, at[w], Tdrop(stage)) = size
    BY Ranks DEF Behind, Stages
  <2>2. td[stage][c] = Counted(stream, N + 1, c, stage) % CounterRange
    BY <1>0, <1>2, <2>1 DEF StateInv, CountersAsSequential
  <2>3. Counted(stream', N + 1, c, stage) = Counted(stream, N + 1, c, stage)
    <3> HIDE DEF N
    <3>1. \A m \in 1 .. N : stream'[m] = stream[m]
      BY <1>1
    <3>2. N \in Nat /\ N \in 0 .. N
      BY <1>1
    <3>3. \A m \in 0 .. N : \A d, st :
             Counted(stream', m + 1, d, st) = Counted(stream, m + 1, d, st)
      BY <3>1, <3>2, SamePast
    <3> QED  BY <3>2, <3>3
  <2> QED  BY <1>1, <2>1, <2>2, <2>3
<1>8. LoadedAsSequential'
  BY <1>1 DEF LoadedAsSequential
<1> QED  BY <1>3, <1>4, <1>5, <1>6, <1>7, <1>8 DEF StateInv

LEMMA InitState ==
    ASSUME Init
    PROVE  StateInv
<1>0. /\ size = 0 /\ stream = << >> /\ Len(stream) = 0 /\ Base = 0 /\ phase = Pop
      /\ \A w \in Warps : at[w] = 1 /\ wpc[w] = "walk"
  BY EmptySeq DEF Init, Base
<1>1. InBatch /\ LoadedAsSequential
  BY <1>0 DEF InBatch, LoadedAsSequential
<1>2. SlotsAsSequential /\ FeatAsSequential /\ PassAsSequential
  <2>1. \A e \in 1 .. size : FALSE
    BY <1>0
  <2> QED  BY <2>1 DEF SlotsAsSequential, FeatAsSequential, PassAsSequential
<1>3. HiddenAsSequential
  <2> SUFFICES ASSUME NEW layer \in Layers, NEW w \in Warps,
                      NEW c \in Cells(StageOf(layer))
               PROVE  hidden[layer][c] = History(stream, 0 + Behind(0, Pop, 1, Layer(layer)), c, layer)
    BY <1>0 DEF HiddenAsSequential
  <2>1. Behind(0, Pop, 1, Layer(layer)) = 0
    BY Ranks DEF Behind, Layers
  <2>2. hidden[layer][c] = << >>
    BY DEF Init
  <2> QED  BY <2>1, <2>2, HistorySteps
<1>4. CountersAsSequential
  <2> SUFFICES ASSUME NEW stage \in Stages, NEW w \in Warps, NEW c \in Cells(stage)
               PROVE  td[stage][c] = Counted(stream, (0 + Behind(0, Pop, 1, Tdrop(stage))) + 1,
                                             c, stage) % CounterRange
    BY <1>0 DEF CountersAsSequential
  <2>1. Behind(0, Pop, 1, Tdrop(stage)) = 0
    BY Ranks DEF Behind, Stages
  <2>2. td[stage][c] = 0
    BY DEF Init
  <2>3. Counted(stream, 1, c, stage) = 0
    BY CountedNone
  <2> QED  BY <2>1, <2>2, <2>3 DEF CounterRange
<1> QED  BY <1>1, <1>2, <1>3, <1>4 DEF StateInv

LEMMA StutterState ==
    ASSUME StateInv, UNCHANGED vars
    PROVE  StateInv'
<1> USE DEF vars, block, cells, warps, Base
<1>1. InBatch' /\ SlotsAsSequential' /\ FeatAsSequential' /\ PassAsSequential'
  BY DEF StateInv, InBatch, SlotsAsSequential, FeatAsSequential, PassAsSequential
<1>2. HiddenAsSequential' /\ CountersAsSequential' /\ LoadedAsSequential'
  BY DEF StateInv, HiddenAsSequential, CountersAsSequential, LoadedAsSequential
<1> QED  BY <1>1, <1>2 DEF StateInv

LEMMA NextState ==
    ASSUME IndInv, StateInv, IndInv', [Next]_vars
    PROVE  StateInv'
<1>1. ASSUME NEW n \in Slots, NEW events \in [1 .. n -> EventCells], LoadBatch(events)
      PROVE  StateInv'
  BY <1>1, LoadBatchState
<1>2. ASSUME NEW w \in Warps, WarpStep(w) PROVE StateInv'
  BY <1>2, WarpStepState
<1>3. CASE Barrier
  BY <1>3, EndTdropState, EndFirstLayerState, EndStage2State, EndStage3State,
     EndHeadState DEF Barrier
<1>4. CASE UNCHANGED vars
  BY <1>4, StutterState
<1> QED  BY <1>1, <1>2, <1>3, <1>4 DEF Next

(* Between two batches the invariant says what the property says.          *)
LEMMA StateAtPop ==
    ASSUME IndInv, StateInv
    PROVE  StateAsSequential
<1> SUFFICES ASSUME phase = Pop
             PROVE  /\ \A layer \in Layers : \A c \in Cells(StageOf(layer)) :
                          hidden[layer][c] = History(stream, Len(stream), c, layer)
                    /\ \A stage \in Stages : \A c \in Cells(stage) :
                          td[stage][c] = Counted(stream, Len(stream) + 1, c, stage)
                                            % CounterRange
  BY DEF StateAsSequential
<1>1. Base + size = Len(stream)
  BY Sizes
<1>2. ASSUME NEW layer \in Layers, NEW c \in Cells(StageOf(layer))
      PROVE  hidden[layer][c] = History(stream, Len(stream), c, layer)
  <2>1. c \in [x : Int, y : Int]
    BY GridCells DEF StageOf, Stages
  <2>2. PICK w \in Warps : Aims(w, c)
    BY <2>1, SomeAims
  <2>3. Behind(size, Pop, at[w], Layer(layer)) = size
    BY Ranks DEF Behind, Layers
  <2> QED  BY <1>1, <2>2, <2>3 DEF StateInv, HiddenAsSequential
<1>3. ASSUME NEW stage \in Stages, NEW c \in Cells(stage)
      PROVE  td[stage][c] = Counted(stream, Len(stream) + 1, c, stage) % CounterRange
  <2>1. c \in [x : Int, y : Int]
    BY GridCells
  <2>2. PICK w \in Warps : Centers(w, c)
    BY <2>1, SomeAims
  <2>3. Behind(size, Pop, at[w], Tdrop(stage)) = size
    BY Ranks DEF Behind, Stages
  <2> QED  BY <1>1, <2>2, <2>3 DEF StateInv, CountersAsSequential
<1> QED  BY <1>2, <1>3

(* Between two batches every tdrop counter and every hidden state is what  *)
(* processing the events one at a time makes it, on grids, strips and      *)
(* batches of every size: the barriers and the residues are enough.        *)
THEOREM StateCorrect == Spec => []StateAsSequential
<1>1. Init => StateInv
  BY InitState
<1>2. IndInv /\ IndInv' /\ StateInv /\ [Next]_vars => StateInv'
  BY NextState
<1>3. IndInv /\ StateInv => StateAsSequential
  BY StateAtPop
<1> QED  BY <1>1, <1>2, <1>3, Inductive, PTL DEF Spec

-----------------------------------------------------------------------------
(* The sums.                                                               *)
Contribs == [cell : [x : Int, y : Int], updates : Updates]

\* Whether a warp adds to the output of an event in a layer, and what its
\* contribution is when the warp is at position a.
Adds(sl, ps, w, e, layer) ==
    /\ IsOpen(ps, e, StageOf(layer))
    /\ Aimed(sl, w, e) \in Cells(StageOf(layer))
    /\ layer \in {5, 7} => ps[2][e]
    /\ layer = 7 => ps[3][e]
Added(s, n, sl, w, e, layer) ==
    [cell |-> Aimed(sl, w, e), updates |-> History(s, n, Aimed(sl, w, e), layer)]

ContribAsSequential ==
    phase.kind = "layer" =>
        \A e \in 1 .. size : \A w \in Warps :
            contrib[e][w] =
                IF e < at[w] /\ Adds(slot, pass, w, e, phase.of)
                THEN Added(stream, Base + e, slot, w, e, phase.of)
                ELSE NoContrib
SumsInv == contrib \in [Slots -> [Warps -> Contribs]] /\ ContribAsSequential

LEMMA AddsWhenWanted ==
    ASSUME IndInv, phase.kind = "layer", NEW w \in Warps, NEW e
    PROVE  Adds(slot, pass, w, e, phase.of)
              <=> HasTask(w, e) /\ Wanted(e, phase.of)
<1>1. phase.of \in Layers
  BY LayerStage
<1>2. HasTask(w, e) <=> /\ IsOpen(pass, e, StageOf(phase.of))
                        /\ Aimed(slot, w, e) \in Cells(StageOf(phase.of))
  BY AsFunctions
<1>3. Wanted(e, phase.of) <=> /\ phase.of \in {5, 7} => pass[2][e]
                              /\ phase.of = 7 => pass[3][e]
  <2>1. CASE phase.of = 5
    BY <2>1 DEF Wanted
  <2>2. CASE phase.of = 7
    BY <2>2 DEF Wanted
  <2>3. CASE phase.of \notin {5, 7}
    BY <2>3 DEF Wanted
  <2> QED  BY <2>1, <2>2, <2>3
<1> QED  BY <1>2, <1>3 DEF Adds

LEMMA ContribFields ==
    \A c, u : [cell |-> c, updates |-> u].updates = u
OBVIOUS

LEMMA NoContribsTyped ==
    /\ NoContribs \in [Slots -> [Warps -> Contribs]]
    /\ \A e \in Slots : \A w \in Warps : NoContribs[e][w] = NoContrib
<1>1. << >> \in Updates
  BY EmptySeq DEF Updates
<1>2. NoContrib \in Contribs
  BY <1>1 DEF NoContrib, Contribs
<1> QED  BY <1>2 DEF NoContribs

(* Outside the layers, and when a warp walks over what is not for it, the  *)
(* contributions stay what they are.                                       *)
LEMMA SumsElsewhere ==
    ASSUME SumsInv, phase'.kind # "layer", UNCHANGED contrib
    PROVE  SumsInv'
BY DEF SumsInv, ContribAsSequential

LEMMA SumsBegin ==
    ASSUME IndInv, contrib' = NoContribs, size' = size, \A w \in Warps : at'[w] = 1
    PROVE  SumsInv'
<1>1. contrib' \in [Slots -> [Warps -> Contribs]]
  BY NoContribsTyped
<1>2. \A e \in 1 .. size : e \in Slots /\ ~ (e < 1)
  BY Sizes
<1>3. ContribAsSequential'
  BY <1>2, NoContribsTyped DEF ContribAsSequential
<1> QED  BY <1>1, <1>3 DEF SumsInv

LEMMA SumsLoadCell ==
    ASSUME IndInv, SumsInv, NEW w \in Warps, NEW e \in Slots, LoadCell(w, e)
    PROVE  SumsInv'
<1>0. /\ UNCHANGED <<phase, size, slot, pass, stream, contrib>>
      /\ phase.kind = "layer" /\ at' = [at EXCEPT ![w] = e] /\ ComesTo(w, e)
  BY DEF LoadCell, Stop, block
<1>1. /\ e \in 1 .. size /\ at[w] <= e /\ e \in Nat
      /\ \A f \in at[w] .. e - 1 : ~ HasTask(w, f)
  BY <1>0, ComesWithin
<1>2. at'[w] = e /\ \A v \in Warps : v # w => at'[v] = at[v]
  BY <1>0, OtherAt
<1>3. at[w] \in Nat /\ size \in Nat
  BY Sizes
<1>4. ASSUME NEW d \in 1 .. size, NEW v \in Warps
      PROVE  (d < at'[v] /\ Adds(slot, pass, v, d, phase.of))
                <=> (d < at[v] /\ Adds(slot, pass, v, d, phase.of))
  <2>1. CASE v # w
    BY <1>2, <2>1
  <2>2. CASE v = w
    <3>1. CASE d < at[w]
      BY <1>1, <1>2, <1>3, <2>2, <3>1
    <3>2. CASE d >= e
      BY <1>1, <1>2, <1>3, <2>2, <3>2
    <3>3. CASE d \in at[w] .. e - 1
      <4>1. ~ HasTask(w, d)
        BY <1>1, <3>3
      <4>2. ~ Adds(slot, pass, w, d, phase.of)
        BY <1>0, <4>1, AddsWhenWanted
      <4> QED  BY <2>2, <4>2
    <3> QED  BY <1>1, <1>3, <3>1, <3>2, <3>3
  <2> QED  BY <2>1, <2>2
<1>5. ContribAsSequential'
  <2> SUFFICES ASSUME NEW d \in 1 .. size, NEW v \in Warps
               PROVE  contrib[d][v] =
                  IF d < at'[v] /\ Adds(slot, pass, v, d, phase.of)
                  THEN Added(stream, Base + d, slot, v, d, phase.of)
                  ELSE NoContrib
    BY <1>0 DEF ContribAsSequential, Base
  <2> QED  BY <1>0, <1>4 DEF SumsInv, ContribAsSequential
<1> QED  BY <1>0, <1>5 DEF SumsInv

LEMMA SumsStoreCell ==
    ASSUME IndInv, StateInv, SumsInv, NEW w \in Warps, StoreCell(w)
    PROVE  SumsInv'
<1> DEFINE e == at[w]
           ly == phase.of
<1>0. /\ UNCHANGED <<phase, size, slot, pass, stream>>
      /\ phase.kind = "layer" /\ at' = [at EXCEPT ![w] = e + 1] /\ wpc[w] = "loaded"
      /\ contrib' = IF Wanted(e, ly)
                    THEN [contrib EXCEPT ![e][w] =
                            [cell |-> Target(w, e), updates |-> updates[w]]]
                    ELSE contrib
  BY DEF StoreCell, WalkOn
<1>1. e \in 1 .. size /\ e \in Slots
  BY <1>0, HoldsSlot
<1>2. at'[w] = e + 1 /\ \A v \in Warps : v # w => at'[v] = at[v]
  BY <1>0, OtherAt
<1>3. /\ Target(w, e) = Aimed(slot, w, e)
      /\ Target(w, e) \in [x : Int, y : Int]
      /\ updates[w] = History(stream, Base + e, Aimed(slot, w, e), ly)
      /\ HasTask(w, e)
      /\ updates[w] \in Updates
  <2>1. SlotTyped
    BY Sizes
  <2>2. Target(w, e) \in [x : Int, y : Int] /\ Target(w, e) = Aimed(slot, w, e)
    BY <1>1, <2>1, TargetAims, AsFunctions
  <2>3. /\ IsOpen(pass, e, StageOf(ly)) /\ Aimed(slot, w, e) \in Cells(StageOf(ly))
        /\ updates[w] = History(stream, Base + e, Aimed(slot, w, e), ly)
    BY <1>0 DEF StateInv, LoadedAsSequential
  <2>4. HasTask(w, e)
    BY <1>0, <2>3, AsFunctions
  <2> QED  BY <2>2, <2>3, <2>4 DEF IndInv, TypeOK
<1>4. Adds(slot, pass, w, e, ly) <=> Wanted(e, ly)
  BY <1>0, <1>3, AddsWhenWanted
<1> DEFINE new == [cell |-> Target(w, e), updates |-> updates[w]]
<1>5. new \in Contribs /\ new = Added(stream, Base + e, slot, w, e, ly)
  BY <1>3 DEF Contribs, Added
<1> HIDE DEF new
<1>6. /\ contrib' \in [Slots -> [Warps -> Contribs]]
      /\ \A d \in Slots : \A v \in Warps :
            contrib'[d][v] = IF d = e /\ v = w /\ Wanted(e, ly)
                             THEN new ELSE contrib[d][v]
  <2>1. contrib \in [Slots -> [Warps -> Contribs]]
    BY DEF SumsInv
  <2>2. contrib' = IF Wanted(e, ly) THEN [contrib EXCEPT ![e][w] = new] ELSE contrib
    BY <1>0 DEF new
  <2> HIDE DEF e, ly
  <2>3. CASE Wanted(e, ly)
    BY <1>1, <1>5, <2>1, <2>2, <2>3
  <2>4. CASE ~ Wanted(e, ly)
    BY <2>1, <2>2, <2>4
  <2> QED  BY <2>3, <2>4
<1>7. ContribAsSequential'
  <2> SUFFICES ASSUME NEW d \in 1 .. size, NEW v \in Warps
               PROVE  contrib'[d][v] =
                  IF d < at'[v] /\ Adds(slot, pass, v, d, ly)
                  THEN Added(stream, Base + d, slot, v, d, ly)
                  ELSE NoContrib
    BY <1>0 DEF ContribAsSequential, Base
  <2>1. contrib[d][v] = IF d < at[v] /\ Adds(slot, pass, v, d, ly)
                        THEN Added(stream, Base + d, slot, v, d, ly) ELSE NoContrib
    BY <1>0 DEF SumsInv, ContribAsSequential
  <2>2. d \in Slots /\ at[w] \in Nat /\ size \in Nat
    BY Sizes
  <2>3. CASE v # w
    BY <1>2, <1>6, <2>1, <2>2, <2>3
  <2>4. CASE v = w /\ d # e
    <3>1. d < at'[v] <=> d < at[v]
      BY <1>2, <2>2, <2>4
    <3> QED  BY <1>6, <2>1, <2>2, <2>4, <3>1
  <2>5. CASE v = w /\ d = e
    <3>1. d < at'[v] /\ ~ (d < at[v])
      BY <1>2, <2>2, <2>5
    <3>2. CASE Wanted(e, ly)
      BY <1>4, <1>5, <1>6, <2>2, <2>5, <3>1, <3>2
    <3>3. CASE ~ Wanted(e, ly)
      BY <1>4, <1>6, <2>1, <2>2, <2>5, <3>1, <3>3
    <3> QED  BY <3>2, <3>3
  <2> QED  BY <2>3, <2>4, <2>5
<1> QED  BY <1>6, <1>7 DEF SumsInv

LEMMA NextSums ==
    ASSUME IndInv, StateInv, SumsInv, [Next]_vars
    PROVE  SumsInv'
<1>1. ASSUME NEW n \in Slots, NEW events \in [1 .. n -> EventCells], LoadBatch(events)
      PROVE  SumsInv'
  <2>1. phase'.kind # "layer" /\ UNCHANGED contrib
    BY <1>1 DEF LoadBatch, Tdrop
  <2> QED  BY <2>1, SumsElsewhere
<1>2. ASSUME NEW w \in Warps, WarpStep(w)
      PROVE  SumsInv'
  <2>1. ASSUME NEW e \in Slots, LoadCell(w, e) PROVE SumsInv'
    BY <2>1, SumsLoadCell
  <2>2. CASE StoreCell(w)
    BY <2>2, SumsStoreCell
  <2>3. ASSUME NEW e \in Slots, MaskOut(w, e) \/ LoadCounter(w, e) \/ WriteBox(w, e)
        PROVE  SumsInv'
    <3>1. phase'.kind # "layer" /\ UNCHANGED contrib
      BY <2>3 DEF MaskOut, LoadCounter, WriteBox, InHead, block
    <3> QED  BY <3>1, SumsElsewhere
  <2>4. CASE StoreCounter(w)
    <3>1. phase'.kind # "layer" /\ UNCHANGED contrib
      BY <2>4 DEF StoreCounter
    <3> QED  BY <3>1, SumsElsewhere
  <2>5. CASE WriteClass(w) \/ LoadVersion(w) \/ StoreVersion(w)
    <3>1. phase = InHead
      BY <2>5, InTheHead DEF WriteClass, LoadVersion, StoreVersion
    <3>2. phase'.kind # "layer" /\ UNCHANGED contrib
      BY <2>5, <3>1 DEF WriteClass, LoadVersion, StoreVersion, InHead, block
    <3> QED  BY <3>2, SumsElsewhere
  <2> QED  BY <1>2, <2>1, <2>2, <2>3, <2>4, <2>5 DEF WarpStep
<1>3. CASE EndTdrop \/ EndFirstLayer
  <2>1. contrib' = NoContribs /\ size' = size /\ \A w \in Warps : at'[w] = 1
    BY <1>3 DEF EndTdrop, EndFirstLayer, Enter
  <2> QED  BY <2>1, SumsBegin
<1>4. CASE EndStage2 \/ EndStage3 \/ EndHead
  <2>1. phase' \in {Tdrop(3), InHead, Pop} /\ UNCHANGED contrib
    BY <1>4 DEF EndStage2, EndStage3, EndHead, Enter
  <2>2. phase'.kind # "layer"
    BY <2>1 DEF Tdrop, InHead, Pop
  <2> QED  BY <2>1, <2>2, SumsElsewhere
<1>5. CASE UNCHANGED vars
  <2>1. UNCHANGED <<phase, size, slot, pass, stream, contrib, at>>
    BY <1>5 DEF vars, block, warps
  <2>2. ContribAsSequential'
    BY <2>1 DEF SumsInv, ContribAsSequential, Base
  <2> QED  BY <2>1, <2>2 DEF SumsInv
<1> QED  BY <1>1, <1>2, <1>3, <1>4, <1>5 DEF Next, Barrier

(* When all have arrived, the contributions to an event are one from each  *)
(* cell of its patch, as the event left it.                                *)
LEMMA SumsAtBarrier ==
    ASSUME IndInv, StateInv, SumsInv
    PROVE  SumsAsSequential
<1> DEFINE ly == phase.of
           st == StageOf(phase.of)
<1> SUFFICES ASSUME phase.kind = "layer", AllArrived, NEW e \in 1 .. size,
                    Outputs(stream, Base + e, ly)
             PROVE  {contrib[e][w] : w \in Warps} \ {NoContrib}
                       = Summed(stream, Base + e, ly)
  <2>1. \A e : Number(e) = Base + e
    BY DEF Number, Base
  <2> QED  BY <2>1 DEF SumsAsSequential
<1>1. ly \in Layers /\ st \in Stages /\ phase = Layer(ly) /\ st = StageIn(phase)
  BY LayerStage
<1>2. IsOpen(pass, e, st) /\ Wanted(e, ly)
  <2>1. 0 \in Warps /\ 2 \in Stages /\ 3 \in Stages
    BY DEF Warps, Stages
  <2>2. pass[2][e] <=> Passes2(stream, Base + e)
    <3>1. Rank(Tdrop(2)) < Rank(phase)
      BY <1>1, Ranks DEF Layers
    <3> QED  BY <2>1, <3>1 DEF StateInv, PassAsSequential, PassesAt
  <2>3. ly = 7 => (pass[3][e] <=> Passes3(stream, Base + e))
    <3>1. ly = 7 => Rank(Tdrop(3)) < Rank(phase)
      BY <1>1, Ranks
    <3> QED  BY <2>1, <3>1 DEF StateInv, PassAsSequential, PassesAt
  <2>4. CASE ly = 4
    BY <2>4 DEF IsOpen, Wanted, StageOf
  <2>5. CASE ly = 5
    BY <2>2, <2>5 DEF IsOpen, Wanted, StageOf, Outputs
  <2>6. CASE ly = 6
    BY <2>2, <2>6 DEF IsOpen, Wanted, StageOf, Outputs
  <2>7. CASE ly = 7
    BY <2>2, <2>3, <2>7 DEF IsOpen, Wanted, StageOf, Outputs, Passes3
  <2> QED  BY <1>1, <2>4, <2>5, <2>6, <2>7 DEF Layers
<1>3. e \in Slots /\ SlotTyped /\ Base + e \in Nat /\ (Base + e) - 1 \in Nat
      /\ ((Base + e) - 1) + 1 = Base + e
  BY Sizes
<1>4. ASSUME NEW w \in Warps
      PROVE  /\ Target(w, e) = Aimed(slot, w, e)
             /\ Target(w, e) \in Cells(st) => contrib[e][w] =
                   [cell |-> Target(w, e),
                    updates |-> History(stream, Base + e, Target(w, e), ly)]
             /\ Target(w, e) \notin Cells(st) => contrib[e][w] = NoContrib
  <2>1. Target(w, e) = Aimed(slot, w, e)
    BY AsFunctions
  <2>2. Adds(slot, pass, w, e, ly) <=> HasTask(w, e)
    BY <1>2, AddsWhenWanted
  <2>3. HasTask(w, e) <=> Target(w, e) \in Cells(st)
    BY <1>2, <2>1, AsFunctions
  <2>4. HasTask(w, e) => e < at[w]
    BY Sizes DEF AllArrived, Arrived
  <2>5. contrib[e][w] = IF e < at[w] /\ Adds(slot, pass, w, e, ly)
                        THEN Added(stream, Base + e, slot, w, e, ly) ELSE NoContrib
    BY DEF SumsInv, ContribAsSequential
  <2>6. CASE Target(w, e) \in Cells(st)
    BY <2>1, <2>2, <2>3, <2>4, <2>5, <2>6 DEF Added
  <2>7. CASE Target(w, e) \notin Cells(st)
    BY <2>1, <2>2, <2>3, <2>5, <2>7
  <2> QED  BY <2>1, <2>6, <2>7
<1>5. ASSUME NEW w \in Warps, Target(w, e) \in Cells(st)
      PROVE  /\ Target(w, e) \in Patch(stream[Base + e], st)
             /\ contrib[e][w] # NoContrib
  <2>1. Aims(w, Target(w, e))
    BY <1>3, TargetAims
  <2>2. HasTask(w, e)
    BY <1>2, <1>4, <1>5, AsFunctions
  <2>3. Touches(stream, Base + e, Target(w, e), ly)
    BY <1>5, <2>1, <2>2, TouchesTarget
  <2>4. /\ History(stream, Base + e, Target(w, e), ly)
             = Append(History(stream, (Base + e) - 1, Target(w, e), ly),
                      Update(Base + e, ly))
        /\ History(stream, (Base + e) - 1, Target(w, e), ly) \in Updates
    BY <1>1, <1>3, <2>3, HistoryOf
  <2>5. \A h \in Updates : Append(h, Update(Base + e, ly)) # << >>
    <3>1. Update(Base + e, ly) \in [event : Nat, from : 3 .. 7]
      BY <1>1, <1>3 DEF Update, Layers
    <3> DEFINE S == [event : Nat, from : 3 .. 7]
               u == Update(Base + e, ly)
    <3>2. u \in S
      BY <3>1
    <3> HIDE DEF S, u
    <3>3. \A h \in Seq(S) : Append(h, u) # << >>
      BY <3>2, AppendProperties
    <3> QED  BY <3>3 DEF S, u, Updates
  <2>6. History(stream, Base + e, Target(w, e), ly) # << >>
    BY <2>4, <2>5
  <2>7. contrib[e][w] # NoContrib
    <3>0. contrib[e][w] = [cell |-> Target(w, e),
                           updates |-> History(stream, Base + e, Target(w, e), ly)]
      BY <1>4, <1>5
    <3>1. contrib[e][w].updates = History(stream, Base + e, Target(w, e), ly)
      BY <3>0, ContribFields
    <3>2. NoContrib.updates = << >>
      BY ContribFields, Zenon DEF NoContrib
    <3> QED  BY <2>6, <3>1, <3>2
  <2> QED  BY <2>3, <2>7 DEF Touches
<1>6. ASSUME NEW c \in Patch(stream[Base + e], st)
      PROVE  \E w \in Warps : Target(w, e) = c /\ c \in Cells(st)
  <2>1. c \in Cells(st) /\ c \in [x : Int, y : Int]
    BY <1>1, GridCells DEF Patch
  <2>2. PICK w \in Warps : Aims(w, c)
    BY <2>1, SomeAims
  <2>3. Enters(stream, Base + e, st)
    BY <1>1, <1>2, LayerStage, UnmaskedEnters, AsFunctions DEF StateInv
  <2>4. Touches(stream, Base + e, c, ly)
    BY <2>3 DEF Touches
  <2> QED  BY <2>1, <2>2, <2>4, TouchesTarget
<1>7. {contrib[e][w] : w \in Warps} \ {NoContrib} \subseteq Summed(stream, Base + e, ly)
  <2> SUFFICES ASSUME NEW w \in Warps, contrib[e][w] # NoContrib
               PROVE  contrib[e][w] \in Summed(stream, Base + e, ly)
    OBVIOUS
  <2> QED  BY <1>4, <1>5 DEF Summed
<1>8. Summed(stream, Base + e, ly) \subseteq {contrib[e][w] : w \in Warps} \ {NoContrib}
  <2> SUFFICES ASSUME NEW c \in Patch(stream[Base + e], st)
               PROVE  [cell |-> c, updates |-> History(stream, Base + e, c, ly)]
                         \in {contrib[e][w] : w \in Warps} \ {NoContrib}
    BY DEF Summed
  <2>1. PICK w \in Warps : Target(w, e) = c /\ c \in Cells(st)
    BY <1>6
  <2> QED  BY <1>4, <1>5, <2>1
<1> QED  BY <1>7, <1>8

(* The output of every event whose output is used is the sum of the cells  *)
(* of its patch, each as this event left it, on grids and batches of every *)
(* size.                                                                   *)
THEOREM SumsCorrect == Spec => []SumsAsSequential
<1>1. Init => StateInv /\ SumsInv
  <2>1. Init => SumsInv
    BY NoContribsTyped DEF Init, SumsInv, ContribAsSequential, Pop
  <2> QED  BY <2>1, InitState
<1>2. IndInv /\ IndInv' /\ StateInv /\ SumsInv /\ [Next]_vars => StateInv' /\ SumsInv'
  BY NextState, NextSums
<1>3. IndInv /\ StateInv /\ SumsInv => SumsAsSequential
  BY SumsAtBarrier
<1> QED  BY <1>1, <1>2, <1>3, Inductive, PTL DEF Spec

-----------------------------------------------------------------------------
(* The predictions.                                                        *)

\* The events up to n predicted on a cell, and a prediction cell as they have
\* left it.
Upto(s, n, c) ==
    {m \in 1 .. n : s[m] \in Owned /\ Halve(s[m]) = c /\ Passes3(s, m)}
Written(S, v, p) ==
    /\ v = Cardinality(S)
    /\ \A n \in S : (\A m \in S : m <= n) => p = [box |-> n, class |-> n]

\* Which events of the batch are predicted on a cell, and of which no other is.
On(sl, ps, e, c) == sl[e].owner /\ ps[2][e] /\ ps[3][e] /\ CellOf(sl, e) = c
Alone(sl, ps, n, e, c) ==
    On(sl, ps, e, c) /\ \A d \in 1 .. n : On(sl, ps, d, c) => d = e

\* The cell c of event e, numbered m, when the warp of the event is at a and pc
\* with the version num loaded: v and p are the cell's version and prediction.
Half(S, e, m, v, p, a, pc, num) ==
    /\ pc = "walk" /\ a <= e => Written(S, v, p)
    /\ pc # "walk" => v = Cardinality(S)
    /\ pc = "box" => p.box = m
    /\ pc \in {"class", "version"} \/ (pc = "walk" /\ a > e) =>
          p = [box |-> m, class |-> m]
    /\ pc = "version" => num = v
    /\ pc = "walk" /\ a > e => v = Cardinality(S) + 1

HeadTasks ==
    \A w \in Warps :
        wpc[w] \in {"box", "class", "version"} =>
            at[w] = w + 1 /\ w + 1 \in 1 .. size /\ Predicts(w + 1)
HeadAsSequential ==
    \A c \in OwnedS3 \ shared :
        /\ phase = Pop => Written(Upto(stream, Base + size, c), version[c], preds[c])
        /\ phase \notin {Pop, InHead} =>
              Written(Upto(stream, Base, c), version[c], preds[c])
        /\ phase = InHead =>
              /\ (\A e \in 1 .. size : ~ On(slot, pass, e, c)) =>
                    Written(Upto(stream, Base, c), version[c], preds[c])
              /\ \A e \in 1 .. size : \A w \in Warps :
                    e = w + 1 /\ Alone(slot, pass, size, e, c) =>
                        Half(Upto(stream, Base, c), e, Base + e, version[c],
                             preds[c], at[w], wpc[w], number[w])
PredsInv == HeadTasks /\ HeadAsSequential

LEMMA PredictsOn ==
    \A e : \A c \in OwnedS3 :
        On(slot, pass, e, c) <=> Predicts(e) /\ Cell(e) = c
<1> SUFFICES ASSUME NEW e, NEW c \in OwnedS3
             PROVE  On(slot, pass, e, c) <=> Predicts(e) /\ Cell(e) = c
  OBVIOUS
<1>1. Cell(e) = CellOf(slot, e)
  BY AsFunctions
<1> QED  BY <1>1 DEF On, Predicts

LEMMA UptoFinite ==
    ASSUME NEW s, NEW n \in Nat, NEW c
    PROVE  IsFiniteSet(Upto(s, n, c)) /\ Cardinality(Upto(s, n, c)) \in Nat
<1>1. IsFiniteSet(1 .. n)
  BY FS_Interval
<1>2. Upto(s, n, c) \in SUBSET (1 .. n)
  BY DEF Upto
<1>3. IsFiniteSet(Upto(s, n, c))
  BY <1>1, <1>2, FS_Subset
<1> QED  BY <1>3, FS_CardinalityType

(* Of the events up to N, those after b are none or some.                  *)
LEMMA UptoBatch ==
    ASSUME NEW s, NEW b \in Nat, NEW N \in Nat, b <= N, NEW c
    PROVE  /\ Upto(s, b, c) = {m \in Upto(s, N, c) : m <= b}
           /\ \A m \in Upto(s, N, c) : m \in Nat /\ (m <= b \/ m - b \in 1 .. N - b)
BY DEF Upto

(* In the head, the events predicted are those the oracle predicts.        *)
LEMMA OnInHead ==
    ASSUME IndInv, StateInv, phase = InHead, NEW e \in 1 .. size, NEW c
    PROVE  Base + e \in Upto(stream, Base + size, c) <=> On(slot, pass, e, c)
<1>1. 2 \in Stages /\ 3 \in Stages /\ 0 \in Warps
  BY DEF Stages, Warps
<1>2. (pass[2][e] <=> Passes2(stream, Base + e)) /\ (pass[3][e] <=> Passes3(stream, Base + e))
  <2>1. Rank(Tdrop(2)) < Rank(phase) /\ Rank(Tdrop(3)) < Rank(phase)
    BY Ranks
  <2> QED  BY <1>1, <2>1 DEF StateInv, PassAsSequential, PassesAt
<1>3. Passes3(stream, Base + e) => Passes2(stream, Base + e)
  BY DEF Passes3
<1>4. /\ CellOf(slot, e) = Halve(stream[Base + e])
      /\ slot[e].owner <=> stream[Base + e] \in Owned
  <2>1. StageIn(phase) = 3
    BY Ranks DEF StageIn
  <2> QED  BY <2>1 DEF StateInv, SlotsAsSequential, Center
<1>5. Base + e \in 1 .. Base + size
  BY Sizes
<1> QED  BY <1>2, <1>3, <1>4, <1>5 DEF Upto, On

-----------------------------------------------------------------------------
(* Outside the head no prediction is written.                              *)
LEMMA PredsElsewhere ==
    ASSUME PredsInv, IndInv', UNCHANGED <<size, stream, preds, version, shared>>,
           phase \notin {Pop, InHead}, phase' \notin {Pop, InHead}
    PROVE  PredsInv'
<1>1. HeadTasks'
  BY DEF HeadTasks, IndInv, Holding
<1>2. HeadAsSequential'
  BY DEF PredsInv, HeadAsSequential, Base
<1> QED  BY <1>1, <1>2 DEF PredsInv

LEMMA LoadBatchPreds ==
    ASSUME IndInv, IndInv', PredsInv, NEW n \in Slots,
           NEW events \in [1 .. n -> EventCells], LoadBatch(events)
    PROVE  PredsInv'
<1> DEFINE N == Len(stream)
<1>0. phase = Pop /\ UNCHANGED <<preds, version, shared>>
  BY DEF LoadBatch, cells
<1>1. /\ N \in Nat /\ Base' = N /\ phase' = Tdrop(2)
      /\ \A m \in 1 .. N : stream'[m] = stream[m]
  BY <1>0, LoadedStream DEF Base
<1>2. Base + size = N
  BY Sizes
<1>3. phase' \notin {Pop, InHead}
  BY <1>1 DEF Tdrop, Pop, InHead
<1>4. HeadTasks'
  BY <1>3 DEF HeadTasks, IndInv, Holding
<1>5. ASSUME NEW c PROVE Upto(stream', N, c) = Upto(stream, N, c)
  <2> HIDE DEF N
  <2>1. \A m \in 1 .. N : Passes3(stream', m) = Passes3(stream, m)
    BY <1>1, SamePast
  <2> QED  BY <1>1, <2>1 DEF Upto
<1>6. HeadAsSequential'
  <2> SUFFICES ASSUME NEW c \in OwnedS3 \ shared
               PROVE  Written(Upto(stream', N, c), version[c], preds[c])
    BY <1>0, <1>1, <1>3 DEF HeadAsSequential
  <2>1. Written(Upto(stream, N, c), version[c], preds[c])
    BY <1>0, <1>2 DEF PredsInv, HeadAsSequential
  <2> QED  BY <1>5, <2>1
<1> QED  BY <1>4, <1>6 DEF PredsInv

(* The head begins with every warp before every event.                     *)
LEMMA EndStage3Preds ==
    ASSUME IndInv, IndInv', PredsInv, EndStage3
    PROVE  PredsInv'
<1>0. /\ phase = Layer(7) /\ phase' = InHead
      /\ UNCHANGED <<slot, size, pass, stream, preds, version, shared, number>>
      /\ \A w \in Warps : at'[w] = 1 /\ wpc'[w] = "walk"
  BY DEF EndStage3, Enter, cells
<1>1. phase \notin {Pop, InHead} /\ InHead # Pop
  BY <1>0 DEF Layer, Pop, InHead
<1>2. HeadTasks'
  BY <1>0 DEF HeadTasks
<1>3. HeadAsSequential'
  <2> SUFFICES ASSUME NEW c \in OwnedS3 \ shared
               PROVE  /\ Written(Upto(stream, Base, c), version[c], preds[c])
                      /\ \A e \in 1 .. size : \A w \in Warps :
                            Half(Upto(stream, Base, c), e, Base + e, version[c],
                                 preds[c], 1, "walk", number[w])
    BY <1>0, <1>1 DEF HeadAsSequential, Base
  <2>1. Written(Upto(stream, Base, c), version[c], preds[c])
    BY <1>1 DEF PredsInv, HeadAsSequential
  <2>2. \A e \in 1 .. size : 1 <= e /\ ~ (1 > e)
    BY Sizes
  <2> QED  BY <2>1, <2>2 DEF Half
<1> QED  BY <1>2, <1>3 DEF PredsInv

(* The head ends with every predicted event written.                       *)
LEMMA EndHeadPreds ==
    ASSUME IndInv, IndInv', StateInv, PredsInv, EndHead
    PROVE  PredsInv'
<1>0. /\ phase = InHead /\ phase' = Pop /\ AllArrived
      /\ UNCHANGED <<slot, size, pass, stream, preds, version, number>>
      /\ shared' = shared \cup
                   {Cell(e) : e \in {d \in 1 .. size :
                       Predicts(d) /\ \E f \in 1 .. size :
                           f # d /\ Predicts(f) /\ Cell(f) = Cell(d)}}
  BY DEF EndHead, Enter, cells
<1>1. HeadTasks'
  BY <1>0 DEF HeadTasks, IndInv, Holding, InHead, Pop
<1>2. HeadAsSequential'
  <2> SUFFICES ASSUME NEW c \in OwnedS3 \ shared'
               PROVE  Written(Upto(stream, Base + size, c), version[c], preds[c])
    BY <1>0 DEF HeadAsSequential, Base, InHead, Pop
  <2>1. c \in OwnedS3 \ shared
    BY <1>0
  <2>2. \A d, e \in 1 .. size :
           On(slot, pass, d, c) /\ On(slot, pass, e, c) => d = e
    <3>1. \A e \in 1 .. size : On(slot, pass, e, c) => Predicts(e) /\ Cell(e) = c
      BY PredictsOn
    <3> QED  BY <1>0, <3>1
  <2>3. Base \in Nat /\ size \in Nat
    BY Sizes
  <2>4. CASE \A e \in 1 .. size : ~ On(slot, pass, e, c)
    <3>1. Written(Upto(stream, Base, c), version[c], preds[c])
      BY <1>0, <2>1, <2>4 DEF PredsInv, HeadAsSequential
    <3>2. \A e \in 1 .. size : Base + e \notin Upto(stream, Base + size, c)
      BY <1>0, <2>4, OnInHead
    <3>3. Upto(stream, Base + size, c) = Upto(stream, Base, c)
      <4> DEFINE N == Base + size
                 U == Upto(stream, N, c)
                 B == Base
      <4>1. N \in Nat /\ B \in Nat /\ size \in Nat /\ B <= N /\ N - B = size
        BY <2>3
      <4>2. \A d \in 1 .. size : B + d \notin U
        BY <3>2
      <4> HIDE DEF N, B
      <4>3. /\ Upto(stream, B, c) = {m \in U : m <= B}
            /\ \A m \in U : m \in Nat /\ (m <= B \/ m - B \in 1 .. size)
        BY <4>1, UptoBatch
      <4> HIDE DEF U
      <4>4. \A m \in U : m <= B
        <5> SUFFICES ASSUME NEW m \in U, ~ (m <= B) PROVE FALSE
          OBVIOUS
        <5>1. m \in Nat /\ m - B \in 1 .. size /\ B + (m - B) = m
          BY <4>1, <4>3
        <5> QED  BY <4>2, <5>1
      <4>5. U = Upto(stream, B, c)
        BY <4>3, <4>4
      <4> QED  BY <4>5 DEF U, N, B
    <3> QED  BY <3>1, <3>3
  <2>5. ASSUME NEW e \in 1 .. size, On(slot, pass, e, c)
        PROVE  Written(Upto(stream, Base + size, c), version[c], preds[c])
    <3>1. PICK w \in Warps : e = w + 1
      <4>1. e \in 1 .. 9
        <5>1. Batch \in 1 .. 9 /\ size \in Nat /\ size <= Batch
          BY Sizes, CelledKernelAssumption
        <5> QED  BY <5>1
      <4>2. e - 1 \in Warps /\ e = (e - 1) + 1
        BY <4>1 DEF Warps
      <4> QED  BY <4>2
    <3>2. Alone(slot, pass, size, e, c)
      BY <2>2, <2>5 DEF Alone
    <3>3. Half(Upto(stream, Base, c), e, Base + e, version[c],
               preds[c], at[w], wpc[w], number[w])
      BY <1>0, <2>1, <3>1, <3>2 DEF PredsInv, HeadAsSequential
    <3>4. wpc[w] = "walk" /\ at[w] > e
      <4>1. HasTask(w, e)
        BY <1>0, <2>1, <2>5, <3>1, PredictsOn DEF HasTask, InHead
      <4> QED  BY <1>0, <4>1, Sizes DEF AllArrived, Arrived
    <3>5. version[c] = Cardinality(Upto(stream, Base, c)) + 1
          /\ preds[c] = [box |-> Base + e, class |-> Base + e]
      BY <3>3, <3>4 DEF Half
    <3>6. Upto(stream, Base + size, c) = Upto(stream, Base, c) \cup {Base + e}
      <4>1. \A d \in 1 .. size : Base + d \in Upto(stream, Base + size, c)
                                   <=> On(slot, pass, d, c)
        BY <1>0, OnInHead
      <4>2. \A d \in 1 .. size : Base + d \in Upto(stream, Base + size, c) <=> d = e
        BY <2>2, <2>5, <4>1
      <4> DEFINE N == Base + size
                 U == Upto(stream, N, c)
                 B == Base
      <4>3. N \in Nat /\ B \in Nat /\ size \in Nat /\ B <= N /\ N - B = size
        BY <2>3
      <4>4. \A d \in 1 .. size : B + d \in U <=> d = e
        BY <4>2
      <4> HIDE DEF N, B
      <4>5. /\ Upto(stream, B, c) = {m \in U : m <= B}
            /\ \A m \in U : m \in Nat /\ (m <= B \/ m - B \in 1 .. size)
        BY <4>3, UptoBatch
      <4> HIDE DEF U
      <4>6. U = Upto(stream, B, c) \cup {B + e}
        <5>1. B + e \in U
          BY <4>4
        <5>2. ASSUME NEW m \in U, ~ (m <= B) PROVE m = B + e
          <6>1. m \in Nat /\ m - B \in 1 .. size /\ B + (m - B) = m
            BY <4>3, <4>5, <5>2
          <6>2. m - B = e
            BY <4>4, <6>1
          <6> QED  BY <6>1, <6>2
        <5> QED  BY <4>5, <5>1, <5>2
      <4> QED  BY <4>6 DEF U, N, B
    <3>7. \A m \in Upto(stream, Base, c) : m \in Nat /\ m <= Base
      BY <2>3 DEF Upto
    <3>8. Base + e \notin Upto(stream, Base, c) /\ Base + e \in Nat
      BY <2>3, <3>7
    <3>9. Cardinality(Upto(stream, Base + size, c))
             = Cardinality(Upto(stream, Base, c)) + 1
      BY <2>3, <3>6, <3>8, UptoFinite, FS_AddElement
    <3>10. ASSUME NEW n \in Upto(stream, Base + size, c),
                  \A m \in Upto(stream, Base + size, c) : m <= n
           PROVE  n = Base + e
      <4>1. Base + e <= n
        BY <3>6, <3>10
      <4> QED  BY <2>3, <3>6, <3>7, <4>1
    <3> QED  BY <3>5, <3>9, <3>10 DEF Written
  <2> QED  BY <2>4, <2>5
<1> QED  BY <1>1, <1>2 DEF PredsInv

-----------------------------------------------------------------------------
(* A step of the head changes the cell of one event and no more.           *)
LEMMA HeadStepPreds ==
    ASSUME IndInv, PredsInv, phase = InHead,
           UNCHANGED <<phase, size, slot, pass, stream, shared>>,
           NEW w \in Warps, w + 1 \in 1 .. size, Predicts(w + 1),
           \A v \in Warps : v # w => /\ at'[v] = at[v] /\ wpc'[v] = wpc[v]
                                     /\ number'[v] = number[v],
           wpc'[w] \in {"box", "class", "version"} => at'[w] = w + 1,
           \A c \in OwnedS3 : c # Cell(w + 1) =>
              version'[c] = version[c] /\ preds'[c] = preds[c],
           \A S : Half(S, w + 1, Number(w + 1), version[Cell(w + 1)],
                       preds[Cell(w + 1)], at[w], wpc[w], number[w])
                  => Half(S, w + 1, Number(w + 1), version'[Cell(w + 1)],
                          preds'[Cell(w + 1)], at'[w], wpc'[w], number'[w])
    PROVE  PredsInv'
<1> DEFINE k == Cell(w + 1)
<1>1. HeadTasks'
  <2> SUFFICES ASSUME NEW v \in Warps, wpc'[v] \in {"box", "class", "version"}
               PROVE  at'[v] = v + 1 /\ v + 1 \in 1 .. size /\ Predicts(v + 1)
    BY DEF HeadTasks, Predicts, Cell
  <2>1. CASE v = w
    BY <2>1
  <2>2. CASE v # w
    BY <2>2 DEF PredsInv, HeadTasks
  <2> QED  BY <2>1, <2>2
<1>2. k \in OwnedS3 /\ On(slot, pass, w + 1, k)
  BY AsFunctions DEF Predicts, On
<1>3. HeadAsSequential'
  <2> SUFFICES ASSUME NEW c \in OwnedS3 \ shared
               PROVE  /\ (\A e \in 1 .. size : ~ On(slot, pass, e, c)) =>
                            Written(Upto(stream, Base, c), version'[c], preds'[c])
                      /\ \A e \in 1 .. size : \A v \in Warps :
                            e = v + 1 /\ Alone(slot, pass, size, e, c) =>
                                Half(Upto(stream, Base, c), e, Base + e, version'[c],
                                     preds'[c], at'[v], wpc'[v], number'[v])
    BY DEF HeadAsSequential, Base, InHead, Pop
  <2>0. /\ (\A e \in 1 .. size : ~ On(slot, pass, e, c)) =>
              Written(Upto(stream, Base, c), version[c], preds[c])
        /\ \A e \in 1 .. size : \A v \in Warps :
              e = v + 1 /\ Alone(slot, pass, size, e, c) =>
                  Half(Upto(stream, Base, c), e, Base + e, version[c],
                       preds[c], at[v], wpc[v], number[v])
    BY DEF PredsInv, HeadAsSequential
  <2>1. CASE c # k
    <3>1. version'[c] = version[c] /\ preds'[c] = preds[c]
      BY <2>1
    <3>2. ASSUME NEW v \in Warps, Alone(slot, pass, size, v + 1, c)
          PROVE  v # w
      BY <1>2, <2>1, <3>2, AsFunctions DEF Alone, On
    <3> QED  BY <2>0, <3>1, <3>2
  <2>2. CASE c = k
    <3>1. ~ (\A e \in 1 .. size : ~ On(slot, pass, e, c))
      BY <1>2, <2>2
    <3>2. ASSUME NEW e \in 1 .. size, NEW v \in Warps, e = v + 1,
                 Alone(slot, pass, size, e, c)
          PROVE  Half(Upto(stream, Base, c), e, Base + e, version'[c],
                      preds'[c], at'[v], wpc'[v], number'[v])
      <4>1. e = w + 1 /\ v = w
        <5>1. w + 1 = e
          BY <1>2, <2>2, <3>2 DEF Alone
        <5> QED  BY <3>2, <5>1 DEF Warps
      <4>2. Half(Upto(stream, Base, c), e, Base + e, version[c],
                  preds[c], at[v], wpc[v], number[v])
        BY <2>0, <3>2
      <4>3. Base + e = Number(w + 1)
        BY <4>1 DEF Number, Base
      <4> QED  BY <2>2, <4>1, <4>2, <4>3
    <3> QED  BY <3>1, <3>2
  <2> QED  BY <2>1, <2>2
<1> QED  BY <1>1, <1>3 DEF PredsInv

LEMMA BoxThenClass ==
    ASSUME NEW p \in [box : Nat, class : Nat], NEW m
    PROVE  /\ [p EXCEPT !.box = m].box = m
           /\ p.box = m => [p EXCEPT !.class = m] = [box |-> m, class |-> m]
OBVIOUS

LEMMA WriteBoxPreds ==
    ASSUME IndInv, PredsInv, NEW w \in Warps, NEW e \in Slots, WriteBox(w, e)
    PROVE  PredsInv'
<1>0. /\ phase = InHead /\ ComesTo(w, e)
      /\ UNCHANGED <<phase, size, slot, pass, stream, shared, version, number>>
      /\ preds' = [preds EXCEPT ![Cell(e)].box = Number(e)]
      /\ at' = [at EXCEPT ![w] = e] /\ wpc' = [wpc EXCEPT ![w] = "box"]
  BY DEF WriteBox, Stop, block
<1>1. e \in 1 .. size /\ HasTask(w, e) /\ at[w] <= e /\ wpc[w] = "walk"
  BY <1>0, ComesWithin
<1>2. e = w + 1 /\ Predicts(e)
  BY <1>0, <1>1 DEF HasTask, InHead
<1>3. /\ at'[w] = e /\ wpc'[w] = "box"
      /\ \A v \in Warps : v # w => at'[v] = at[v] /\ wpc'[v] = wpc[v]
  BY <1>0 DEF IndInv, TypeOK
<1>4. Cell(e) \in OwnedS3
  BY <1>2 DEF Predicts
<1>5. /\ preds'[Cell(e)] = [preds[Cell(e)] EXCEPT !.box = Number(e)]
      /\ \A c \in OwnedS3 : c # Cell(e) => preds'[c] = preds[c]
      /\ preds[Cell(e)] \in [box : Nat, class : Nat]
  BY <1>0, <1>4 DEF IndInv, TypeOK
<1>6. preds'[Cell(e)].box = Number(e)
  BY <1>5, BoxThenClass
<1>7. \A S : Half(S, e, Number(e), version[Cell(e)], preds[Cell(e)],
                 at[w], wpc[w], number[w])
            => Half(S, e, Number(e), version'[Cell(e)], preds'[Cell(e)],
                    at'[w], wpc'[w], number'[w])
  BY <1>0, <1>1, <1>3, <1>6 DEF Half, Written
<1> QED  BY <1>0, <1>1, <1>2, <1>3, <1>5, <1>7, HeadStepPreds

LEMMA AtTask ==
    ASSUME IndInv, PredsInv, NEW w \in Warps, wpc[w] \in {"box", "class", "version"}
    PROVE  /\ phase = InHead /\ at[w] = w + 1 /\ w + 1 \in 1 .. size
           /\ Cell(w + 1) \in OwnedS3
<1>1. phase = InHead /\ Cell(at[w]) \in OwnedS3 /\ at[w] \in 1 .. size
  BY InTheHead
<1>2. at[w] = w + 1
  BY DEF PredsInv, HeadTasks
<1> QED  BY <1>1, <1>2

LEMMA WriteClassPreds ==
    ASSUME IndInv, PredsInv, NEW w \in Warps, WriteClass(w)
    PROVE  PredsInv'
<1> DEFINE e == w + 1
<1>0. /\ wpc[w] = "box"
      /\ UNCHANGED <<phase, size, slot, pass, stream, shared, version, number>>
      /\ preds' = [preds EXCEPT ![Cell(at[w])].class = Number(at[w])]
      /\ at' = [at EXCEPT ![w] = at[w]] /\ wpc' = [wpc EXCEPT ![w] = "class"]
  BY DEF WriteClass, Stop, block
<1>1. phase = InHead /\ at[w] = e /\ e \in 1 .. size /\ Cell(e) \in OwnedS3
  BY <1>0, AtTask
<1>2. Predicts(e)
  BY <1>0 DEF PredsInv, HeadTasks
<1>3. /\ at'[w] = e /\ wpc'[w] = "class"
      /\ \A v \in Warps : v # w => at'[v] = at[v] /\ wpc'[v] = wpc[v]
  BY <1>0, <1>1 DEF IndInv, TypeOK
<1>5. /\ preds'[Cell(e)] = [preds[Cell(e)] EXCEPT !.class = Number(e)]
      /\ \A c \in OwnedS3 : c # Cell(e) => preds'[c] = preds[c]
      /\ preds[Cell(e)] \in [box : Nat, class : Nat]
  BY <1>0, <1>1 DEF IndInv, TypeOK
<1>6. preds[Cell(e)].box = Number(e) =>
         preds'[Cell(e)] = [box |-> Number(e), class |-> Number(e)]
  BY <1>5, BoxThenClass
<1>7. \A S : Half(S, e, Number(e), version[Cell(e)], preds[Cell(e)],
                 at[w], wpc[w], number[w])
            => Half(S, e, Number(e), version'[Cell(e)], preds'[Cell(e)],
                    at'[w], wpc'[w], number'[w])
  BY <1>0, <1>1, <1>3, <1>6 DEF Half, Written
<1> QED  BY <1>0, <1>1, <1>2, <1>3, <1>5, <1>7, HeadStepPreds

LEMMA LoadVersionPreds ==
    ASSUME IndInv, PredsInv, NEW w \in Warps, LoadVersion(w)
    PROVE  PredsInv'
<1> DEFINE e == w + 1
<1>0. /\ wpc[w] = "class"
      /\ UNCHANGED <<phase, size, slot, pass, stream, shared, version, preds>>
      /\ number' = [number EXCEPT ![w] = version[Cell(at[w])]]
      /\ at' = [at EXCEPT ![w] = at[w]] /\ wpc' = [wpc EXCEPT ![w] = "version"]
  BY DEF LoadVersion, Stop, block, cells
<1>1. phase = InHead /\ at[w] = e /\ e \in 1 .. size /\ Cell(e) \in OwnedS3
  BY <1>0, AtTask
<1>2. Predicts(e)
  BY <1>0 DEF PredsInv, HeadTasks
<1>3. /\ at'[w] = e /\ wpc'[w] = "version" /\ number'[w] = version[Cell(e)]
      /\ \A v \in Warps : v # w => /\ at'[v] = at[v] /\ wpc'[v] = wpc[v]
                                   /\ number'[v] = number[v]
  BY <1>0, <1>1 DEF IndInv, TypeOK
<1>7. \A S : Half(S, e, Number(e), version[Cell(e)], preds[Cell(e)],
                 at[w], wpc[w], number[w])
            => Half(S, e, Number(e), version'[Cell(e)], preds'[Cell(e)],
                    at'[w], wpc'[w], number'[w])
  BY <1>0, <1>1, <1>3 DEF Half, Written
<1> QED  BY <1>0, <1>1, <1>2, <1>3, <1>7, HeadStepPreds

LEMMA StoreVersionPreds ==
    ASSUME IndInv, PredsInv, NEW w \in Warps, StoreVersion(w)
    PROVE  PredsInv'
<1> DEFINE e == w + 1
<1>0. /\ wpc[w] = "version"
      /\ UNCHANGED <<phase, size, slot, pass, stream, shared, preds>>
      /\ version' = [version EXCEPT ![Cell(at[w])] = number[w] + 1]
      /\ number' = [number EXCEPT ![w] = 0]
      /\ at' = [at EXCEPT ![w] = at[w] + 1] /\ wpc' = [wpc EXCEPT ![w] = "walk"]
  BY DEF StoreVersion, WalkOn, block
<1>1. phase = InHead /\ at[w] = e /\ e \in 1 .. size /\ Cell(e) \in OwnedS3
  BY <1>0, AtTask
<1>2. Predicts(e)
  BY <1>0 DEF PredsInv, HeadTasks
<1>3. /\ at'[w] = e + 1 /\ wpc'[w] = "walk"
      /\ \A v \in Warps : v # w => /\ at'[v] = at[v] /\ wpc'[v] = wpc[v]
                                   /\ number'[v] = number[v]
  BY <1>0, <1>1 DEF IndInv, TypeOK
<1>5. /\ version'[Cell(e)] = number[w] + 1
      /\ \A c \in OwnedS3 : c # Cell(e) => version'[c] = version[c]
  BY <1>0, <1>1 DEF IndInv, TypeOK
<1>6. e \in Nat /\ e + 1 > e /\ ~ (e + 1 <= e)
  BY DEF Warps
<1>7. \A S : Half(S, e, Number(e), version[Cell(e)], preds[Cell(e)],
                 at[w], wpc[w], number[w])
            => Half(S, e, Number(e), version'[Cell(e)], preds'[Cell(e)],
                    at'[w], wpc'[w], number'[w])
  <2> HIDE DEF e
  <2> QED  BY <1>0, <1>3, <1>5, <1>6 DEF Half
<1> QED  BY <1>0, <1>1, <1>2, <1>3, <1>5, <1>7, HeadStepPreds

LEMMA NextPreds ==
    ASSUME IndInv, IndInv', StateInv, PredsInv, [Next]_vars
    PROVE  PredsInv'
<1>1. ASSUME NEW n \in Slots, NEW events \in [1 .. n -> EventCells], LoadBatch(events)
      PROVE  PredsInv'
  BY <1>1, LoadBatchPreds
<1>2. ASSUME NEW w \in Warps, WarpStep(w)
      PROVE  PredsInv'
  <2>1. ASSUME NEW e \in Slots, WriteBox(w, e) PROVE PredsInv'
    BY <2>1, WriteBoxPreds
  <2>2. CASE WriteClass(w) \/ LoadVersion(w) \/ StoreVersion(w)
    BY <2>2, WriteClassPreds, LoadVersionPreds, StoreVersionPreds
  <2>3. ASSUME NEW e \in Slots,
               MaskOut(w, e) \/ LoadCounter(w, e) \/ LoadCell(w, e)
        PROVE  PredsInv'
    <3>1. /\ UNCHANGED <<size, stream, preds, version, shared>> /\ phase' = phase
          /\ phase.kind \in {"tdrop", "layer"}
      BY <2>3 DEF MaskOut, LoadCounter, LoadCell, block, cells
    <3>2. phase \notin {Pop, InHead}
      BY <3>1 DEF Pop, InHead
    <3> QED  BY <3>1, <3>2, PredsElsewhere
  <2>4. CASE StoreCounter(w) \/ StoreCell(w)
    <3>1. /\ UNCHANGED <<size, stream, preds, version, shared>> /\ phase' = phase
          /\ phase.kind \in {"tdrop", "layer"}
      BY <2>4 DEF StoreCounter, StoreCell
    <3>2. phase \notin {Pop, InHead}
      BY <3>1 DEF Pop, InHead
    <3> QED  BY <3>1, <3>2, PredsElsewhere
  <2> QED  BY <1>2, <2>1, <2>2, <2>3, <2>4 DEF WarpStep
<1>3. CASE EndTdrop \/ EndFirstLayer \/ EndStage2
  <2>1. UNCHANGED <<size, stream, preds, version, shared>>
    BY <1>3 DEF EndTdrop, EndFirstLayer, EndStage2, Enter, cells
  <2>2. /\ phase.kind \in {"tdrop", "layer"} /\ phase'.kind \in {"tdrop", "layer"}
    <3>0. \A l : Layer(l).kind = "layer" /\ Tdrop(l).kind = "tdrop"
      BY DEF Layer, Tdrop
    <3>1. CASE EndTdrop
      BY <3>0, <3>1 DEF EndTdrop, Enter
    <3>2. CASE EndFirstLayer
      BY <3>0, <3>2 DEF EndFirstLayer, Enter
    <3>3. CASE EndStage2
      BY <3>0, <3>3 DEF EndStage2, Enter
    <3> QED  BY <1>3, <3>1, <3>2, <3>3
  <2>3. phase \notin {Pop, InHead} /\ phase' \notin {Pop, InHead}
    BY <2>2 DEF Pop, InHead
  <2> QED  BY <2>1, <2>3, PredsElsewhere
<1>4. CASE EndStage3
  BY <1>4, EndStage3Preds
<1>5. CASE EndHead
  BY <1>5, EndHeadPreds
<1>6. CASE UNCHANGED vars
  <2>1. HeadTasks'
    BY <1>6 DEF PredsInv, HeadTasks, Predicts, Cell, vars, block, warps
  <2>2. HeadAsSequential'
    BY <1>6 DEF PredsInv, HeadAsSequential, Base, vars, block, cells, warps
  <2> QED  BY <2>1, <2>2 DEF PredsInv
<1> QED  BY <1>1, <1>2, <1>3, <1>4, <1>5, <1>6 DEF Next, Barrier

LEMMA InitPreds ==
    ASSUME Init
    PROVE  PredsInv
<1>0. /\ size = 0 /\ Len(stream) = 0 /\ Base = 0 /\ phase = Pop
      /\ \A w \in Warps : wpc[w] = "walk"
  BY EmptySeq DEF Init, Base
<1>1. HeadTasks
  BY <1>0 DEF HeadTasks
<1>2. \A c : Upto(stream, Base + size, c) = {}
  BY <1>0 DEF Upto
<1>3. \A c \in OwnedS3 : version[c] = 0
  BY DEF Init
<1>4. HeadAsSequential
  BY <1>0, <1>2, <1>3, FS_EmptySet DEF HeadAsSequential, Written, Pop, InHead
<1> QED  BY <1>1, <1>4 DEF PredsInv

LEMMA PredsAtPop ==
    ASSUME IndInv, PredsInv
    PROVE  PredictionsAsSequential
<1> SUFFICES ASSUME phase = Pop, NEW c \in OwnedS3 \ shared
             PROVE  /\ version[c] = Cardinality(Predicted(c))
                    /\ \A n \in Predicted(c) :
                          (\A m \in Predicted(c) : m <= n) =>
                              preds[c] = [box |-> n, class |-> n]
  BY DEF PredictionsAsSequential
<1>1. Predicted(c) = Upto(stream, Base + size, c)
  BY Sizes DEF Predicted, Upto
<1>2. Written(Upto(stream, Base + size, c), version[c], preds[c])
  BY DEF PredsInv, HeadAsSequential
<1> QED  BY <1>1, <1>2 DEF Written

(* Between two batches a prediction cell on which no batch predicted twice *)
(* has both parts of the last prediction made on it, and its version       *)
(* counts the predictions, as the oracle makes them.                       *)
THEOREM PredictionsCorrect == Spec => []PredictionsAsSequential
<1>1. Init => StateInv /\ PredsInv
  BY InitState, InitPreds
<1>2. IndInv /\ IndInv' /\ StateInv /\ PredsInv /\ [Next]_vars => StateInv' /\ PredsInv'
  BY NextState, NextPreds
<1>3. IndInv /\ StateInv /\ PredsInv => PredictionsAsSequential
  BY PredsAtPop
<1> QED  BY <1>1, <1>2, <1>3, Inductive, PTL DEF Spec
=============================================================================

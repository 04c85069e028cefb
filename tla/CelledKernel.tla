---------------------------- MODULE CelledKernel ----------------------------
(***************************************************************************)
(* A batch of events inside one GPU block                                  *)
(* (orin/kernels/ssla_s2_s3_head_celled.cuh, persistent_multi).  Nine      *)
(* warps go through tdrop 2, layers 4 and 5, tdrop 3, layers 6 and 7 and   *)
(* the head together: a __syncthreads ends each phase.  Within a phase     *)
(* each warp walks over the batch at its own pace, and nothing but the     *)
(* partition of the cells modulo 3 keeps two warps off one counter or one  *)
(* hidden state.  In the head a warp takes an event, not a cell.           *)
(*                                                                         *)
(* Loads and stores of shared cells are separate steps.  What a warp does  *)
(* to its own event between two barriers (residual, zeroing, sum and       *)
(* LayerNorm, pooling) is part of the barrier's step.  The ring from which *)
(* a batch comes, and the publication of the tail, are in GpuRing.         *)
(***************************************************************************)
EXTENDS SequentialKernel

CONSTANTS Batch,       \* BATCH
          Owned,       \* the s2 cells of the block's strip
          OwnedS3,     \* the s3 cells of the strip, which have predictions
          EventCells,  \* bound: where events fall
          MaxEvents    \* bound: events in a run

Warps == 0 .. 8        \* N_WARPS
Slots == 1 .. Batch

ASSUME CelledKernelAssumption ==
    /\ Batch \in 1 .. 9
    /\ Owned \subseteq Cells(2) /\ OwnedS3 \subseteq Cells(3)
    /\ EventCells \subseteq Cells(2)
    /\ MaxEvents \in Nat

VARIABLES
    phase,      \* which phase the block is in
    size,       \* batch_size
    slot,       \* event_slots[]: evx, evy, is_owner
    feat,       \* event_slots[].in_feat: the layer it is the output of
    pass,       \* pass2[], pass3[]
    td,         \* tdrop_s2, tdrop_s3
    hidden,     \* hidden[layer]
    contrib,    \* contrib[event][warp]: the cell a warp added, as it left it
    at,         \* each warp's position in the walk over the batch
    wpc,        \* and in the event it is at
    number,     \* a counter or version the warp has loaded
    updates,    \* a hidden state the warp has loaded and updated
    preds,      \* preds[cell]: the events that wrote its two parts
    version,    \* version[cell]
    stream,     \* history: the events loaded so far
    shared      \* history: cells two events of one batch predicted

block == <<phase, size, slot, feat, pass, contrib>>
cells == <<td, hidden, preds, version>>
warps == <<at, wpc, number, updates>>
vars == <<block, cells, warps, stream, shared>>

Pop == [kind |-> "pop", of |-> 0]
Tdrop(stage) == [kind |-> "tdrop", of |-> stage]
Layer(layer) == [kind |-> "layer", of |-> layer]
InHead == [kind |-> "head", of |-> 0]
Phases == {Pop, Tdrop(2), Tdrop(3), InHead} \cup {Layer(layer) : layer \in Layers}

Number(e) == Len(stream) - size + e      \* the event of a slot
Cell(e) == [x |-> slot[e].x, y |-> slot[e].y]

-----------------------------------------------------------------------------
(* Who does what.                                                          *)

\* parallel_tdrop: a warp has the events whose cell is its own modulo 3.
\* Mutant: only the rows are compared.
HasCenterByRow(w, e) == slot[e].y % 3 = w \div 3
HasCenter(w, e) == slot[e].y % 3 = w \div 3 /\ slot[e].x % 3 = w % 3

\* run_layer_celled_implicit: the one cell of an event's patch that is the
\* warp's.  The offset is centred by the final - 1, so these are the cells
\* congruent to (own - 1), not to own.
\* Mutant: the remainder of C, negative below zero.
OffsetOfC(own, v) ==
    IF own < v THEN (-1) - ((v - own) % 3) ELSE ((own - v) % 3) - 1
Offset(own, v) == ((own - v) % 3) - 1
Target(w, e) == [x |-> slot[e].x + Offset(w % 3, slot[e].x),
                 y |-> slot[e].y + Offset(w \div 3, slot[e].y)]

\* The masks: pass2 on what belongs to stage 3; the output of layers 5 and 7
\* is wanted of what passes the tdrop that follows.  Layers 4 and 6 sum and
\* normalise every slot, entered or not.
Unmasked(e, stage) == stage = 3 => pass[2][e]
\* Mutant: layer 5 takes the mask of layer 7.
WantedByPass3(e, layer) == layer \in {5, 7} => pass[2][e] /\ pass[3][e]
Wanted(e, layer) ==
    CASE layer = 5 -> pass[2][e]
      [] layer = 7 -> pass[2][e] /\ pass[3][e]
      [] OTHER -> TRUE

\* The head: one warp per event.
\* Mutant: the result of the second tdrop is not asked.
PredictsDropped(e) == slot[e].owner /\ pass[2][e] /\ Cell(e) \in OwnedS3
Predicts(e) ==
    slot[e].owner /\ pass[2][e] /\ pass[3][e] /\ Cell(e) \in OwnedS3

HasTask(w, e) ==
    CASE phase.kind = "tdrop" ->
            IF Unmasked(e, phase.of) THEN HasCenter(w, e) ELSE w = 0
      [] phase.kind = "layer" ->
            /\ Unmasked(e, StageOf(phase.of))
            /\ Target(w, e) \in Cells(StageOf(phase.of))
      [] phase.kind = "head" -> e = w + 1 /\ Predicts(e)
      [] OTHER -> FALSE

\* A warp passes over the events it has nothing to do for.
ComesTo(w, e) ==
    /\ wpc[w] = "walk"
    /\ e \in at[w] .. size /\ HasTask(w, e)
    /\ \A f \in at[w] .. e - 1 : ~ HasTask(w, f)
Arrived(w) == wpc[w] = "walk" /\ \A e \in at[w] .. size : ~ HasTask(w, e)

-----------------------------------------------------------------------------
NoContrib == [cell |-> [x |-> 0, y |-> 0], updates |-> << >>]
NoContribs == [e \in Slots |-> [w \in Warps |-> NoContrib]]

Step == {"walk", "loaded", "box", "class", "version"}
Updates == Seq([event : Nat, from : 3 .. 7])

TypeOK ==
    /\ phase \in Phases
    /\ size \in 0 .. Batch /\ size <= Len(stream)
    /\ slot \in [Slots -> [x : 0 .. W2 - 1, y : 0 .. H2 - 1, owner : BOOLEAN]]
    /\ feat \in [Slots -> 3 .. 7]
    /\ pass \in [Stages -> [Slots -> BOOLEAN]]
    /\ DOMAIN td = Stages
    /\ \A stage \in Stages :
          td[stage] \in [Cells(stage) -> 0 .. CounterRange - 1]
    /\ DOMAIN hidden = Layers
    /\ \A layer \in Layers :
          hidden[layer] \in [Cells(StageOf(layer)) -> Updates]
    /\ at \in [Warps -> 1 .. Batch + 1] /\ wpc \in [Warps -> Step]
    /\ number \in [Warps -> Nat] /\ updates \in [Warps -> Updates]
    /\ preds \in [OwnedS3 -> [box : Nat, class : Nat]]
    /\ version \in [OwnedS3 -> Nat]
    /\ stream \in Seq(Cells(2)) /\ shared \subseteq OwnedS3

Init ==
    /\ phase = Pop /\ size = 0
    /\ slot = [e \in Slots |-> [x |-> 0, y |-> 0, owner |-> FALSE]]
    /\ feat = [e \in Slots |-> 3]
    /\ pass = [stage \in Stages |-> [e \in Slots |-> FALSE]]
    /\ td = [stage \in Stages |-> [c \in Cells(stage) |-> 0]]
    /\ hidden = [layer \in Layers |-> [c \in Cells(StageOf(layer)) |-> << >>]]
    /\ contrib = NoContribs
    /\ at = [w \in Warps |-> 1] /\ wpc = [w \in Warps |-> "walk"]
    /\ number = [w \in Warps |-> 0] /\ updates = [w \in Warps |-> << >>]
    /\ preds = [c \in OwnedS3 |-> [box |-> 0, class |-> 0]]
    /\ version = [c \in OwnedS3 |-> 0]
    /\ stream = << >> /\ shared = {}

-----------------------------------------------------------------------------
(* The phases.                                                             *)

\* A batch is loaded from the ring.
LoadBatch(events) ==
    /\ phase = Pop
    /\ Len(stream) + Len(events) <= MaxEvents
    /\ stream' = stream \o events
    /\ size' = Len(events)
    /\ slot' = [e \in Slots |->
                  IF e <= Len(events)
                  THEN [x |-> events[e].x, y |-> events[e].y,
                        owner |-> events[e] \in Owned]
                  ELSE slot[e]]
    /\ feat' = [e \in Slots |-> IF e <= Len(events) THEN 3 ELSE feat[e]]
    /\ phase' = Tdrop(2)
    /\ at' = [w \in Warps |-> 1]
    /\ UNCHANGED <<pass, contrib, cells, wpc, number, updates, shared>>

\* A warp goes on to the event after the one at which it is.
WalkOn(w) ==
    /\ at' = [at EXCEPT ![w] = @ + 1]
    /\ wpc' = [wpc EXCEPT ![w] = "walk"]
\* Mutant: on to the next event before the step is over.
StopPast(w, e, pc) ==
    /\ at' = [at EXCEPT ![w] = e + 1]
    /\ wpc' = [wpc EXCEPT ![w] = pc]
Stop(w, e, pc) ==
    /\ at' = [at EXCEPT ![w] = e]
    /\ wpc' = [wpc EXCEPT ![w] = pc]

\* parallel_tdrop.
MaskOut(w, e) ==
    /\ phase.kind = "tdrop" /\ ComesTo(w, e)
    /\ ~ Unmasked(e, phase.of)
    /\ pass' = [pass EXCEPT ![phase.of][e] = FALSE]
    /\ at' = [at EXCEPT ![w] = e + 1]
    /\ UNCHANGED <<phase, size, slot, feat, contrib, cells, wpc, number,
                   updates, stream, shared>>

LoadCounter(w, e) ==
    /\ phase.kind = "tdrop" /\ ComesTo(w, e)
    /\ Unmasked(e, phase.of)
    /\ number' = [number EXCEPT ![w] = td[phase.of][Cell(e)]]
    /\ Stop(w, e, "loaded")
    /\ UNCHANGED <<block, cells, updates, stream, shared>>

Increment(pre) == (pre + 1) % CounterRange

StoreCounter(w) ==
    /\ phase.kind = "tdrop" /\ wpc[w] = "loaded"
    /\ td' = [td EXCEPT ![phase.of][Cell(at[w])] = Increment(number[w])]
    /\ pass' = [pass EXCEPT ![phase.of][at[w]] = Lets(number[w])]
    /\ number' = [number EXCEPT ![w] = 0]
    /\ WalkOn(w)
    /\ UNCHANGED <<phase, size, slot, feat, contrib, hidden, preds, version,
                   updates, stream, shared>>

\* process_patch_cell and its state-only variant: the hidden state is read,
\* and updated with the slot's features.
LoadCell(w, e) ==
    /\ phase.kind = "layer" /\ ComesTo(w, e)
    /\ updates' = [updates EXCEPT ![w] =
                      Append(hidden[phase.of][Target(w, e)],
                             [event |-> Number(e), from |-> feat[e]])]
    /\ Stop(w, e, "loaded")
    /\ UNCHANGED <<block, cells, number, stream, shared>>

StoreCell(w) ==
    LET e == at[w]
    IN  /\ phase.kind = "layer" /\ wpc[w] = "loaded"
        /\ hidden' = [hidden EXCEPT ![phase.of][Target(w, e)] = updates[w]]
        /\ contrib' = IF Wanted(e, phase.of)
                      THEN [contrib EXCEPT ![e][w] =
                               [cell |-> Target(w, e), updates |-> updates[w]]]
                      ELSE contrib
        /\ updates' = [updates EXCEPT ![w] = << >>]
        /\ WalkOn(w)
        /\ UNCHANGED <<phase, size, slot, feat, pass, td, preds, version,
                       number, stream, shared>>

\* do_two_layer_head: the prediction in two parts, then version += 1.
WriteBox(w, e) ==
    /\ phase = InHead /\ ComesTo(w, e)
    /\ preds' = [preds EXCEPT ![Cell(e)].box = Number(e)]
    /\ Stop(w, e, "box")
    /\ UNCHANGED <<block, td, hidden, version, number, updates, stream, shared>>

WriteClass(w) ==
    /\ wpc[w] = "box"
    /\ preds' = [preds EXCEPT ![Cell(at[w])].class = Number(at[w])]
    /\ Stop(w, at[w], "class")
    /\ UNCHANGED <<block, td, hidden, version, number, updates, stream, shared>>

LoadVersion(w) ==
    /\ wpc[w] = "class"
    /\ number' = [number EXCEPT ![w] = version[Cell(at[w])]]
    /\ Stop(w, at[w], "version")
    /\ UNCHANGED <<block, cells, updates, stream, shared>>

StoreVersion(w) ==
    /\ wpc[w] = "version"
    /\ version' = [version EXCEPT ![Cell(at[w])] = number[w] + 1]
    /\ number' = [number EXCEPT ![w] = 0]
    /\ WalkOn(w)
    /\ UNCHANGED <<block, td, hidden, preds, updates, stream, shared>>

-----------------------------------------------------------------------------
(* The barriers.                                                           *)

\* Mutant: the barrier is inside the walk, and a warp without a task misses it.
AllArrivedWorking == \A w \in Warps : Arrived(w) /\ at[w] > 1
AllArrived == \A w \in Warps : Arrived(w)

Enter(next) ==
    /\ phase' = next
    /\ at' = [w \in Warps |-> 1]
    /\ wpc' = [w \in Warps |-> "walk"]
    /\ UNCHANGED <<size, pass, cells, number, updates, stream>>

EndTdrop ==
    /\ phase.kind = "tdrop" /\ AllArrived
    /\ Enter(Layer(IF phase.of = 2 THEN 4 ELSE 6))
    /\ contrib' = NoContribs
    /\ UNCHANGED <<slot, feat, shared>>

\* The sum of the contributions becomes the slot's features.
Gathered ==
    [e \in Slots |->
        IF e <= size /\ Wanted(e, phase.of) THEN phase.of ELSE feat[e]]

\* After layers 4 and 6: the next layer of the stage.
EndFirstLayer ==
    /\ phase \in {Layer(4), Layer(6)} /\ AllArrived
    /\ Enter(Layer(phase.of + 1))
    /\ feat' = Gathered
    /\ contrib' = NoContribs
    /\ UNCHANGED <<slot, shared>>

\* After layer 5: pooling.
EndStage2 ==
    /\ phase = Layer(5) /\ AllArrived
    /\ Enter(Tdrop(3))
    /\ feat' = Gathered
    /\ slot' = [e \in Slots |->
                  IF e <= size
                  THEN [slot[e] EXCEPT !.x = @ \div 2, !.y = @ \div 2]
                  ELSE slot[e]]
    /\ UNCHANGED <<contrib, shared>>

EndStage3 ==
    /\ phase = Layer(7) /\ AllArrived
    /\ Enter(InHead)
    /\ feat' = Gathered
    /\ UNCHANGED <<slot, contrib, shared>>

EndHead ==
    /\ phase = InHead /\ AllArrived
    /\ Enter(Pop)
    /\ shared' = shared \cup
                   {Cell(e) : e \in {d \in 1 .. size :
                       Predicts(d) /\ \E f \in 1 .. size :
                           f # d /\ Predicts(f) /\ Cell(f) = Cell(d)}}
    /\ UNCHANGED <<slot, feat, contrib>>

Barrier == EndTdrop \/ EndFirstLayer \/ EndStage2 \/ EndStage3 \/ EndHead

WarpStep(w) ==
    \/ \E e \in Slots : \/ MaskOut(w, e) \/ LoadCounter(w, e)
                        \/ LoadCell(w, e) \/ WriteBox(w, e)
    \/ StoreCounter(w) \/ StoreCell(w)
    \/ WriteClass(w) \/ LoadVersion(w) \/ StoreVersion(w)

Next ==
    \/ \E n \in Slots : \E events \in [1 .. n -> EventCells] : LoadBatch(events)
    \/ \E w \in Warps : WarpStep(w)
    \/ Barrier

Spec == Init /\ [][Next]_vars

\* A block that can go on goes on: an SM runs some warp that is not waiting at
\* a barrier, and opens a barrier at which all have arrived.
FairSpec == Spec /\ WF_vars(Barrier \/ \E w \in Warps : WarpStep(w))

-----------------------------------------------------------------------------
(* "No two warps ever write to the same hidden-state cell", nor to the     *)
(* same counter: two warps between the load and the store of a cell are at *)
(* different cells, so no update is lost without any atomic.               *)
InHand(w) == IF phase.kind = "tdrop" THEN Cell(at[w]) ELSE Target(w, at[w])
OneWarpPerCell ==
    \A v, w \in Warps :
        v # w /\ wpc[v] = "loaded" /\ wpc[w] = "loaded" => InHand(v) # InHand(w)

\* Coordinates are pooled from tdrop 3 on; a warp in the middle of a step has
\* the counter that is its own, or a prediction cell of the strip.
Pooled ==
    phase \in {Tdrop(3), Layer(6), Layer(7), InHead} =>
        \A e \in 1 .. size : Cell(e) \in Cells(3)
Holding ==
    \A w \in Warps :
        /\ wpc[w] # "walk" => at[w] <= size
        /\ wpc[w] = "loaded" => \/ phase.kind = "layer"
                                \/ phase.kind = "tdrop" /\ HasCenter(w, at[w])
        /\ wpc[w] \in {"box", "class", "version"} =>
              phase = InHead /\ Cell(at[w]) \in OwnedS3

(* The inductive invariant behind OneWarpPerCell: with it, a cell in hand  *)
(* has the remainder modulo 3 that belongs to its warp, whatever event the *)
(* warp is at and whatever the others do.                                  *)
IndInv == TypeOK /\ Pooled /\ Holding

(* Between two batches, counters and hidden states are those of the        *)
(* oracle, which takes the events one at a time: every cell has had the    *)
(* updates of the same events, from the same layers, in the same order,    *)
(* however the warps overtook one another.                                 *)
StateAsSequential ==
    phase = Pop =>
        LET n == Len(stream) IN
        /\ \A layer \in Layers : \A c \in Cells(StageOf(layer)) :
              hidden[layer][c] = History(stream, n, c, layer)
        /\ \A stage \in Stages : \A c \in Cells(stage) :
              td[stage][c] = Counted(stream, n + 1, c, stage) % CounterRange

(* An event's output is summed from all the cells of its patch, each as    *)
(* that very event left it and not as a later event of the batch did.      *)
SumsAsSequential ==
    phase.kind = "layer" /\ AllArrived =>
        \A e \in 1 .. size :
            Outputs(stream, Number(e), phase.of) =>
                {contrib[e][w] : w \in Warps} \ {NoContrib}
                    = Summed(stream, Number(e), phase.of)

\* The events predicted on a cell.
Predicted(c) ==
    {n \in 1 .. Len(stream) : /\ stream[n] \in Owned
                             /\ Halve(stream[n]) = c
                             /\ Passes3(stream, n)}

(* Between two batches, where no two events of one batch predicted on the  *)
(* same cell, the cell has both parts of the last prediction made on it    *)
(* and its version counts the predictions.                                 *)
PredictionsAsSequential ==
    phase = Pop =>
        \A c \in OwnedS3 \ shared :
            /\ version[c] = Cardinality(Predicted(c))
            /\ \A n \in Predicted(c) :
                  (\A m \in Predicted(c) : m <= n) =>
                      preds[c] = [box |-> n, class |-> n]

(* The runner prints the sum of the versions as the total of prediction    *)
(* writes (orin/hybrid_runner.py:544): between two batches a version       *)
(* counts the predictions made on its cell.                                *)
VersionCountsWrites ==
    phase = Pop => \A c \in OwnedS3 : version[c] = Cardinality(Predicted(c))

(* No warp misses a barrier the others wait at: every batch loaded comes   *)
(* to its end.                                                             *)
BatchesEnd == phase # Pop ~> phase = Pop
=============================================================================

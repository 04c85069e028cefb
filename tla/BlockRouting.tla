---------------------------- MODULE BlockRouting ----------------------------
(***************************************************************************)
(* An event on its way from a shard worker to the prediction cells.  A     *)
(* worker walks over the GPU blocks and pushes the event to each whose     *)
(* processing range contains its s2 cell                                   *)
(* (src/lib_stage01_to_gpu.cpp, shard_worker); a block takes the events of *)
(* its ring in order, and for an event it owns that passes both tdrops it  *)
(* writes a prediction (ssla_s2_s3_head_celled.cuh, do_two_layer_head).    *)
(* The rings are unbounded queues here (GpuRing has the ring itself), and  *)
(* the tdrops pass or drop at will.                                        *)
(***************************************************************************)
EXTENDS GridTopology, Sequences, FiniteSets

CONSTANTS Worker,     \* shard workers
          Grids,      \* the grids to look at: [W2, H2, n]
          Columns,    \* bound: the columns on which events fall
          MaxEvents   \* bound: events that reach the push loop

\* A grid has cells, and grid_topology raises for any other number of blocks.
ASSUME GridsAssumption ==
    \A g \in Grids : g \in [W2 : Nat \ {0}, H2 : Nat \ {0}, n : {2, 4, 8}]

VARIABLES grid,       \* W2, H2 and n_blocks, as attached
          event,      \* the events pushed so far: s2 cell and worker
          at,         \* the worker's event, and the block its loop is at
          ring,       \* each block's ring: numbers of events
          done,       \* history: the events each block has processed, in order
          produced,   \* history: events timed as producing a prediction
          written     \* history: the prediction cells written

vars == <<grid, event, at, ring, done, produced, written>>

Blocks == 0 .. grid.n - 1
Cells == [x : Columns \cap (0 .. grid.W2 - 1), y : 0 .. grid.H2 - 1]
NoEvent == [event |-> 0, block |-> 0]

TypeOK ==
    /\ grid \in Grids
    /\ event \in Seq([x : Nat, y : Nat, worker : Worker])
    /\ at \in [Worker -> [event : 0 .. Len(event), block : Blocks]]
    /\ ring \in [Blocks -> Seq(1 .. Len(event))]
    /\ done \in [Blocks -> Seq(1 .. Len(event))]
    /\ produced \subseteq 1 .. Len(event)
    /\ written \subseteq [event : 1 .. Len(event), block : Blocks,
                          x : Nat, y : Nat, index : Nat]

Init ==
    /\ grid \in Grids
    /\ event = << >> /\ at = [w \in Worker |-> NoEvent]
    /\ ring = [b \in Blocks |-> << >>] /\ done = [b \in Blocks |-> << >>]
    /\ produced = {} /\ written = {}

\* An event survives stage 1 on worker w, at s2 cell c.
Survive(w, c) ==
    /\ at[w] = NoEvent
    /\ Len(event) < MaxEvents
    /\ event' = Append(event, [x |-> c.x, y |-> c.y, worker |-> w])
    /\ at' = [at EXCEPT ![w] = [event |-> Len(event'), block |-> 0]]
    /\ UNCHANGED <<grid, ring, done, produced, written>>

\* Mutant: the loop goes one block too far.
LastBlockPast(b) == b = grid.n
LastBlock(b) == b + 1 = grid.n

\* One round of the push loop.
PushTo(w) ==
    LET e == at[w].event
        b == at[w].block
    IN  /\ e # 0
        /\ ring' = IF Processes(grid, b, event[e])
                   THEN [ring EXCEPT ![b] = Append(@, e)] ELSE ring
        /\ at' = [at EXCEPT ![w] = IF LastBlock(b) THEN NoEvent
                                   ELSE [event |-> e, block |-> b + 1]]
        /\ UNCHANGED <<grid, event, done, produced, written>>

TakeOldest(b) == Head(ring[b])

\* The kernel processes an event: pass = pass2 && pass3.
ProcessEvent(b, pass) ==
    /\ ring[b] # << >>
    /\ LET e == TakeOldest(b)
           s3 == [x |-> event[e].x \div 2, y |-> event[e].y \div 2]
           predict == pass /\ Owns(grid, b, event[e])
       IN  /\ ring' = [ring EXCEPT ![b] = Tail(@)]
           /\ done' = [done EXCEPT ![b] = Append(@, e)]
           /\ produced' = IF predict THEN produced \cup {e} ELSE produced
           /\ written' = IF predict /\ HasPrediction(grid, b, s3)
                         THEN written \cup {[event |-> e, block |-> b,
                                             x |-> s3.x, y |-> s3.y,
                                             index |-> PredictionIndex(grid, b, s3)]}
                         ELSE written
    /\ UNCHANGED <<grid, event, at>>

Next ==
    \/ \E w \in Worker : PushTo(w) \/ (\E c \in Cells : Survive(w, c))
    \/ \E b \in Blocks, pass \in BOOLEAN : ProcessEvent(b, pass)

Spec == Init /\ [][Next]_vars

-----------------------------------------------------------------------------
Elements(s) == {s[i] : i \in 1 .. Len(s)}
Before(e, b) == {n \in Elements(done[b]) :
                   \E i, j \in 1 .. Len(done[b]) :
                      i < j /\ done[b][i] = n /\ done[b][j] = e}

Near(e, n, d) ==
    /\ event[e].x - event[n].x \in -d .. d
    /\ event[e].y - event[n].y \in -d .. d

(* Whatever way the extents divide, one block and only one owns an event   *)
(* and gets it: its prediction is neither lost nor made twice.             *)
OwnedOnce ==
    \A e \in 1 .. Len(event) :
        (\A w \in Worker : at[w].event # e) =>
            Cardinality({b \in Blocks : /\ Owns(grid, b, event[e])
                                        /\ e \in Elements(ring[b] \o done[b])}) = 1

(* When a block processes an event it owns, the hidden states of the 3x3   *)
(* patch it reads have had the update of every earlier event of the same   *)
(* worker: those within two cells, which all lie within the halo.          *)
PatchCovered ==
    \A b \in Blocks : \A e \in Elements(done[b]) :
        Owns(grid, b, event[e]) =>
            \A n \in 1 .. e - 1 :
                event[n].worker = event[e].worker /\ Near(e, n, 2) =>
                    n \in Before(e, b)

(* Each block has its own prediction cells: no s3 cell is predicted by two *)
(* blocks, and no two s3 cells of a block share a place in its buffer.     *)
OwnDestination ==
    \A v, w \in written :
        /\ v.x = w.x /\ v.y = w.y => v.block = w.block
        /\ v.block = w.block /\ v.index = w.index => v.x = w.x /\ v.y = w.y

(* "Each block's grid is sized to its (s3_owned_h x s3_owned_w)": a        *)
(* prediction lands in its block's buffer.                                 *)
PredictionInBuffer ==
    \A w \in written : w.index < PredictionCells(grid, w.block)

(* Where the boundaries of every block are even, both hold: each event     *)
(* that is timed as a prediction has one, within its block's buffer.       *)
EvenBoundaries ==
    \A b \in Blocks : \A range \in {OwnedX(grid, b), OwnedY(grid, b)} :
        range.lo % 2 = 0 /\ range.hi % 2 = 0

PredictionsOnEvenGrids ==
    EvenBoundaries =>
        /\ \A e \in produced : \E w \in written : w.event = e
        /\ PredictionInBuffer

(* "The post-pool 3x3 dependencies for s3 conv are all satisfied by the    *)
(* block's own hidden state copy": an owned event's s3 patch has had the   *)
(* update of every earlier event that passed its tdrops, those within two  *)
(* s3 cells.                                                               *)
S3PatchCovered ==
    \A b \in Blocks : \A e \in Elements(done[b]) :
        Owns(grid, b, event[e]) =>
            \A n \in produced \cap (1 .. e - 1) :
                /\ event[n].worker = event[e].worker
                /\ (event[e].x \div 2) - (event[n].x \div 2) \in -2 .. 2
                /\ (event[e].y \div 2) - (event[n].y \div 2) \in -2 .. 2
                => n \in Before(e, b)
=============================================================================

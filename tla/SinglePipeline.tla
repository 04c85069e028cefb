---------------------------- MODULE SinglePipeline ----------------------------
(***************************************************************************)
(* One thread takes the events of the input through SslaSPipeline one      *)
(* after the other: the decomposed reference (s2_decomp_st, "decomp"), the *)
(* measurement of stage 0 (s_stage0_only, "stage0"), and what the worker   *)
(* of a CPU shard does (lib_stage01_to_gpu, "shard"), which asks tdrop     *)
(* before it runs a stage and leaves out the output nobody will read.      *)
(* Here an event has two coordinates, and a cell its row too. The state of *)
(* a cell is the sequence of the events it has taken, each with the        *)
(* position of the weights it was taken with. An event is its number.      *)
(***************************************************************************)
EXTENDS LayerPatch, FiniteSets, SequencesExt

CONSTANTS Program,   \* "decomp", "stage0" or "shard"
          Pixels,    \* <<x, y>> of the events, in the order of the input
          Halo,      \* the events that the shard takes as a neighbour of their owner
          W, H,      \* the sensor: multiples of 8
          Levels,    \* head levels
          Window, Warmup, Every

VARIABLES log,       \* the arrays of the pipeline
          thr,       \* the event in hand, how far it is, the counters of the program
          snaps      \* the oracle's checkpoints

Inputs == DOMAIN Pixels
LastStage == CASE Program = "decomp" -> 3 [] Program = "stage0" -> 0 [] Program = "shard" -> 1
Layers == 0 .. 2 * LastStage + 1
Ws(s) == W \div 2^s
Hs(s) == H \div 2^s
Grid(s) == 0 .. Ws(s) * Hs(s) - 1
InSensor(e) == Pixels[e] \in (0 .. W - 1) \X (0 .. H - 1)
\* The cell of an event at stage s: tdrop_and_pool halves the coordinates.
X(e, s) == Pixels[e][1] \div 2^s
Y(e, s) == Pixels[e][2] \div 2^s
CellAt(e, s) == Y(e, s) * Ws(s) + X(e, s)

\* head_stage_idx_: the last Levels stages emit, each into its own rows of the predictions.
HeadStages == 4 - Levels .. 3
RowOffset(s) == SumFunctionOnSet([k \in HeadStages |-> Hs(k) * Ws(k)], {k \in HeadStages : k < s})
Row(e, s) == RowOffset(s) + CellAt(e, s)

\* reset
Zeroed ==
  [hidden |-> [l \in Layers |-> [c \in Grid(l \div 2) |-> <<>>]],
   tdrop |-> [s \in 0 .. 2 |-> [c \in Grid(s + 1) |-> 0]],
   lastT |-> [c \in Grid(0) |-> 0],
   preds |-> [row \in 0 .. RowOffset(4) - 1 |-> 0]]

Init ==
  /\ log = Zeroed /\ snaps = <<>>
  /\ thr = [e |-> 1, at |-> "next", s |-> 0, dt |-> 0, fed |-> TRUE, measuring |-> FALSE,
            pass |-> 0, oob |-> 0]
-----------------------------------------------------------------------------
\* The counters start with the first event after the warm-up.
StartMeasuring ==
  /\ thr.at = "next" /\ thr.e = Warmup + 1 /\ ~thr.measuring
  /\ thr' = [thr EXCEPT !.measuring = TRUE, !.pass = 0, !.oob = 0]
  /\ UNCHANGED <<log, snaps>>

\* An event outside the sensor is skipped; otherwise preprocess: the time since the last event
\* of the pixel (dt holds that event).
TakeNext ==
  /\ thr.at = "next" /\ thr.e \in Inputs /\ (thr.e <= Warmup \/ thr.measuring)
  /\ \/ /\ ~InSensor(thr.e)
        /\ thr' = [thr EXCEPT !.oob = @ + 1, !.at = "over"] /\ UNCHANGED log
     \/ /\ InSensor(thr.e)
        /\ thr' = [thr EXCEPT !.at = "stage", !.s = 0, !.fed = TRUE,
                              !.dt = log.lastT[CellAt(thr.e, 0)]]
        /\ log' = [log EXCEPT !.lastT[CellAt(thr.e, 0)] = thr.e]
  /\ UNCHANGED snaps

\* Whether the counter lets the event pass; the shard does not ask for a halo event.
Passes(e, s) ==
  /\ ~(Program = "shard" /\ e \in Halo)
  /\ \/ s > 2
     \/ log.tdrop[s][CellAt(e, s + 1)] % Window = 0
Counted(e, s) ==
  IF s > 2 \/ (Program = "shard" /\ e \in Halo) THEN log.tdrop
  ELSE [log.tdrop EXCEPT ![s][CellAt(e, s + 1)] = (@ + 1) % 256]

\* The two layers of the stage: the shard has asked tdrop already.
Layered(e, s) ==
  IF Program = "shard" /\ ~Passes(e, s)
  THEN StageForwardStateOnly(s, X(e, s), Y(e, s), Ws(s), Hs(s))
  ELSE StageForward(s, X(e, s), Y(e, s), Ws(s), Hs(s))
Updated(cells, e, visits) ==
  [c \in DOMAIN cells |->
     cells[c] \o SetToSeq({<<e, v.pos>> : v \in {u \in visits : u.cell = c}})]

RunStage ==
  /\ thr.at = "stage"
  /\ LET e == thr.e
         s == thr.s
         runs == Layered(e, s)
     IN  /\ log' = [log EXCEPT !.hidden[2 * s] = Updated(@, e, runs[1].visits),
                               !.hidden[2 * s + 1] = Updated(@, e, runs[2].visits),
                               !.tdrop = Counted(e, s)]
         /\ thr' = [thr EXCEPT !.fed = runs[2].output, !.s = s + 1,
                               !.at = IF ~Passes(e, s) THEN "over"
                                      ELSE IF s < LastStage THEN "stage" ELSE "out"]
  /\ UNCHANGED snaps

\* The feature of the last stage is used: the heads decode their cells, the shard pushes the
\* event to the GPU, the measurement counts it.
UseOutput ==
  /\ thr.at = "out"
  /\ thr' = [thr EXCEPT !.at = "over", !.pass = @ + 1]
  /\ log' = IF Program # "decomp" THEN log
            ELSE [log EXCEPT !.preds =
                    [row \in DOMAIN @ |-> IF \E s \in HeadStages : row = Row(thr.e, s)
                                          THEN thr.e ELSE @[row]]]
  /\ UNCHANGED snaps

\* OracleRecorder.record after every measured event of s2_decomp_st.
Over ==
  /\ thr.at = "over"
  /\ thr' = [thr EXCEPT !.at = "next", !.e = @ + 1]
  /\ snaps' = IF Program = "decomp" /\ thr.measuring /\ Every > 0
                 /\ (thr.e - Warmup - 1) % Every = 0
              THEN Append(snaps, <<thr.e, log.preds>>) ELSE snaps
  /\ UNCHANGED log

Thread(t) == t = 0 /\ (StartMeasuring \/ TakeNext \/ RunStage \/ UseOutput \/ Over)
Spec == Init /\ [][Thread(0)]_<<log, thr, snaps>>
RunEnded == thr.e > Len(Pixels) /\ thr.measuring
-----------------------------------------------------------------------------
(* What it is compared with. *)
\* The last stage that each event runs, and whether it passes the tdrop behind it.
Ends[e \in Inputs] ==
  LET Before(s) == {d \in 1 .. e - 1 : /\ InSensor(d) /\ Ends[d].s >= s /\ d \notin Halo
                                       /\ CellAt(d, s + 1) = CellAt(e, s + 1)}
      Drops == {s \in 0 .. LastStage : \/ e \in Halo
                                       \/ s <= 2 /\ Cardinality(Before(s)) % Window # 0}
  IN  IF ~InSensor(e) THEN [s |-> -1, passed |-> FALSE]
      ELSE IF Drops = {} THEN [s |-> LastStage, passed |-> TRUE]
      ELSE [s |-> CHOOSE s \in Drops : \A t \in Drops : s <= t, passed |-> FALSE]

\* The events that have been through stage s.
Been(e, s) == /\ \/ e < thr.e
                 \/ e = thr.e /\ thr.at # "next" /\ thr.s > s
              /\ Ends[e].s >= s
Near(a, b) == a - b \in -1 .. 1
Entries(cell) == {cell[i] : i \in DOMAIN cell}
InOrder(cell) == \A i \in DOMAIN cell : \A j \in 1 .. i - 1 : cell[j][1] < cell[i][1]

\* Of a layer with 3 x 3 weights a cell takes the events at most one column and one row away,
\* each once, in order, with the weights of the event's place as seen from the cell.
Takes(e, l, x, y) == /\ Been(e, l \div 2)
                     /\ IF l = 0 THEN X(e, 0) = x /\ Y(e, 0) = y
                        ELSE Near(X(e, l \div 2), x) /\ Near(Y(e, l \div 2), y)
PosOf(e, l, x, y) == IF l = 0 THEN 0
                     ELSE (1 - (y - Y(e, l \div 2))) * 3 + (1 - (x - X(e, l \div 2)))
AppliedOnce ==
  \A l \in Layers : \A x \in 0 .. Ws(l \div 2) - 1, y \in 0 .. Hs(l \div 2) - 1 :
    LET cell == log.hidden[l][y * Ws(l \div 2) + x]
    IN  /\ InOrder(cell)
        /\ Entries(cell) = {<<e, PosOf(e, l, x, y)>> : e \in {d \in Inputs : Takes(d, l, x, y)}}

\* Whichever code runs a layer, the cells are computed from the weights and inputs that the
\* definition of the layer names; a stage is only run on, and used, where it has an output.
RoutinesAgree ==
  /\ thr.at \in {"stage", "out"} => thr.fed
  /\ thr.at = "stage" => \A i \in 1 .. 2 :
       LET run == Layered(thr.e, thr.s)[i]
           l == 2 * thr.s + i - 1
           patch == PatchOf(run.patch, l)
           reference == Reference(InDim(l), OutDim(l))
       IN  IF run.output THEN patch = reference
           ELSE StateUpdate(patch) = StateUpdate(reference)

\* The time difference is to the event before at the same pixel.
DtOfPixel ==
  thr.at = "stage" =>
    LET before == {d \in 1 .. thr.e - 1 : Pixels[d] = Pixels[thr.e]}
    IN  IF before = {} THEN thr.dt = 0 ELSE thr.dt \in before /\ \A d \in before : d <= thr.dt

\* Each row of the predictions is of the last event that passed and has its cell there, and the
\* checkpoints have them as they were.
PredictionsLatest ==
  \A at \in {<<thr.e, log.preds, thr.at = "over">>} \cup {<<snap[1], snap[2], TRUE>> :
                                                         snap \in {snaps[i] : i \in DOMAIN snaps}} :
    \A s \in HeadStages : \A c \in Grid(s) :
      LET here == {e \in Inputs : /\ Program = "decomp" /\ Ends[e].passed /\ CellAt(e, s) = c
                                  /\ \/ e < at[1]
                                     \/ e = at[1] /\ at[3]}
      IN  at[2][RowOffset(s) + c] = IF here = {} THEN 0 ELSE CHOOSE e \in here : \A d \in here : d <= e

\* At the end the counters are those of the measured events.
EndsClean ==
  RunEnded => /\ thr.pass = Cardinality({e \in Inputs : e > Warmup /\ Ends[e].passed})
              /\ thr.oob = Cardinality({e \in Inputs : e > Warmup /\ ~InSensor(e)})
===============================================================================

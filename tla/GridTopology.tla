---------------------------- MODULE GridTopology ----------------------------
(***************************************************************************)
(* How the s2 grid is divided among the GPU blocks                         *)
(* (orin/orin/multi_block.py): _balanced_splits, grid_topology, the s3     *)
(* ranges of build_n_block_config and the buffers of                       *)
(* alloc_predictions_n_block.  A range is [lo, hi), half open as in the    *)
(* code.  Python's // and >> round down, like \div.                        *)
(***************************************************************************)
EXTENDS Integers

HALO == 2

In(v, range) == range.lo <= v /\ v < range.hi
Size(range) == range.hi - range.lo

\* _balanced_splits: boundary i of n strips of [0, extent).  The middle strips
\* have a halo on both sides, so the two at the ends own HALO cells more.
Uniform(extent, n, i) == IF i < n THEN i * (extent \div n) ELSE extent

Middle(extent, n) == (extent - 2 * HALO) \div n
Deficit(extent, n) ==
    extent - (2 * (Middle(extent, n) + HALO) + (n - 2) * Middle(extent, n))

\* Mutant: what the division leaves over is not given to the corners.
SplitNoRemainder(extent, n, i) ==
    IF n <= 2 \/ Middle(extent, n) < 1
    THEN Uniform(extent, n, i)
    ELSE LET first == Middle(extent, n) + HALO
         IN  CASE i = 0 -> 0
               [] 0 < i /\ i < n -> first + (i - 1) * Middle(extent, n)
               [] i = n -> 2 * first + (n - 2) * Middle(extent, n)

Split(extent, n, i) ==
    IF n <= 2 \/ Middle(extent, n) < 1
    THEN Uniform(extent, n, i)
    ELSE LET corner == Middle(extent, n) + HALO
             first == corner + Deficit(extent, n) \div 2
             last == corner + Deficit(extent, n) - Deficit(extent, n) \div 2
         IN  CASE i = 0 -> 0
               [] 0 < i /\ i < n -> first + (i - 1) * Middle(extent, n)
               [] i = n -> first + (n - 2) * Middle(extent, n) + last

\* grid_topology: strips across and down for 2, 4 and 8 blocks, and the range
\* block b owns on each axis.
Across(n) == 2
Down(n) == n \div Across(n)

Strip(extent, n, i) == [lo |-> Split(extent, n, i), hi |-> Split(extent, n, i + 1)]
OwnedX(g, b) == Strip(g.W2, Across(g.n), b \div Down(g.n))
OwnedY(g, b) == Strip(g.H2, Down(g.n), b % Down(g.n))

\* Mutant: a halo of one cell.
WidenedByOne(range, extent) ==
    [lo |-> IF range.lo < 1 THEN 0 ELSE range.lo - 1,
     hi |-> IF range.hi + 1 > extent THEN extent ELSE range.hi + 1]

\* The processing range: owned +- HALO, clamped to the grid.
Widened(range, extent) ==
    [lo |-> IF range.lo < HALO THEN 0 ELSE range.lo - HALO,
     hi |-> IF range.hi + HALO > extent THEN extent ELSE range.hi + HALO]

Owns(g, b, cell) == In(cell.x, OwnedX(g, b)) /\ In(cell.y, OwnedY(g, b))

Processes(g, b, cell) ==
    /\ In(cell.x, Widened(OwnedX(g, b), g.W2))
    /\ In(cell.y, Widened(OwnedY(g, b), g.H2))

\* build_n_block_config: the s3 range is the owned s2 range, both ends halved.
\* Mutant: the upper end as if the range were closed.
HalvedClosed(range) == [lo |-> range.lo \div 2, hi |-> (range.hi - 1) \div 2]
Halved(range) == [lo |-> range.lo \div 2, hi |-> range.hi \div 2]
S3X(g, b) == Halved(OwnedX(g, b))
S3Y(g, b) == Halved(OwnedY(g, b))

\* alloc_predictions_n_block: one cell per (owned width / 2) x (owned height / 2).
PredictionCells(g, b) ==
    LET cells == (Size(OwnedX(g, b)) \div 2) * (Size(OwnedY(g, b)) \div 2)
    IN  IF cells < 1 THEN 1 ELSE cells

\* do_two_layer_head: the cell of the block's predictions for an s3 cell.
\* Mutant: rows laid out by the height.
PredictionIndexByHeight(g, b, cell) ==
    (cell.y - S3Y(g, b).lo) * Size(S3Y(g, b)) + (cell.x - S3X(g, b).lo)

PredictionIndex(g, b, cell) ==
    (cell.y - S3Y(g, b).lo) * Size(S3X(g, b)) + (cell.x - S3X(g, b).lo)

HasPrediction(g, b, cell) == In(cell.x, S3X(g, b)) /\ In(cell.y, S3Y(g, b))
=============================================================================

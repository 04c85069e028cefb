--------------------------- MODULE MCBlockRouting ---------------------------
(* Grids for TLC.                                                          *)
EXTENDS BlockRouting

Grid(w, h, n) == [W2 |-> w, H2 |-> h, n |-> n]

\* A grid whose halos all overlap; small ones with odd and even extents; and
\* wide ones of eight blocks, one with what the division leaves over and one
\* with the uniform fall-back of a short axis.
ManyGrids ==
    {Grid(6, 5, 4), Grid(4, 4, 4), Grid(4, 5, 2), Grid(14, 5, 8), Grid(14, 9, 8)}

\* The production grid: 20 x 16 cells, 8 blocks.
Production == {Grid(20, 16, 8)}
=============================================================================

--------------------------- MODULE MCCelledKernel ---------------------------
(* Grids and strips for TLC.                                               *)
EXTENDS CelledKernel

C(x, y) == [x |-> x, y |-> y]

\* The left half of a 4 x 2 grid is the block's strip, the right half its halo.
OwnedLeft == {c \in Cells(2) : c.x < 2}
OwnedLeftS3 == {C(0, 0)}
Spread == {C(0, 1), C(3, 0)}

\* A 2 x 2 grid: four cells that pool into one.
Whole == Cells(2)
WholeS3 == Cells(3)
Corner == {C(0, 0), C(1, 0), C(0, 1)}
=============================================================================

------------------------------ MODULE LayerPatch ------------------------------
(***************************************************************************)
(* The cells that an event updates in a layer, and the position of the     *)
(* weights each of them is updated with: the loop of the generic code, its *)
(* unrolled form, the arrays of the fused interior code and the owner mask *)
(* of the sharded code. And which code a stage takes. A cell is its index  *)
(* y * w + x in a grid of w columns and h rows.                            *)
(***************************************************************************)
EXTENDS PatchChannels, Sequences

Offsets == (-1 .. 1) \X (-1 .. 1)
Position(d) == (1 - d[2]) * 3 + (1 - d[1])
Visit(cell, pos) == [cell |-> cell, pos |-> pos]

Interior(x, y, w, h) == x > 0 /\ x + 1 < w /\ y > 0 /\ y + 1 < h

\* The loop over dy and dx skips what is outside the grid.
ClippedVisits(x, y, w, h) ==
  {Visit((y + d[2]) * w + (x + d[1]), Position(d)) :
     d \in {o \in Offsets : x + o[1] \in 0 .. w - 1 /\ y + o[2] \in 0 .. h - 1}}

UnrolledVisits(base, w) ==
  {Visit(base - w - 1, 8), Visit(base - w, 7), Visit(base - w + 1, 6),
   Visit(base - 1, 5), Visit(base, 4), Visit(base + 1, 3),
   Visit(base + w - 1, 2), Visit(base + w, 1), Visit(base + w + 1, 0)}

DxArr == <<-1, 0, 1, -1, 0, 1, -1, 0, 1>>
DyArr == <<-1, -1, -1, 0, 0, 0, 1, 1, 1>>
DeltaArr == <<8, 7, 6, 5, 4, 3, 2, 1, 0>>
FusedVisits(base, w) ==
  {Visit(base + DyArr[k] * w + DxArr[k], DeltaArr[k]) : k \in 1 .. 9}

GenericVisits(x, y, w, h, numPos) ==
  IF numPos = 1 THEN {Visit(y * w + x, 0)}
  ELSE IF Interior(x, y, w, h) THEN UnrolledVisits(y * w + x, w)
  ELSE ClippedVisits(x, y, w, h)

\* The nine indices by weight position, -1 outside the grid.
PatchIndices(x, y, w, h) ==
  LET visits == IF Interior(x, y, w, h) THEN UnrolledVisits(y * w + x, w)
                ELSE ClippedVisits(x, y, w, h)
  IN  [p \in 0 .. 8 |-> IF \E v \in visits : v.pos = p
                        THEN (CHOOSE v \in visits : v.pos = p).cell ELSE -1]

\* A shard goes through the positions of its mask; the one position of layer 0 has bit 0.
MaskedVisits(mask, x, y, w, h, numPos) ==
  LET at == PatchIndices(x, y, w, h)
  IN  IF numPos = 1 THEN {Visit(y * w + x, p) : p \in mask \cap {0}}
      ELSE {Visit(at[p], p) : p \in {o \in mask : at[o] >= 0}}

\* The positions whose column is in the grid and belongs to shard k; owner is a function of the
\* columns.
OwnerMask(owner, k, x, w) ==
  {p \in 0 .. 8 : /\ x + 1 - (p % 3) \in 0 .. w - 1
                  /\ owner[x + 1 - (p % 3)] = k}
-----------------------------------------------------------------------------
(* One layer for one event: the code that does the cells, and whether feat_out is computed. *)
Channels == <<2, 12, 24, 48, 96>>
InDim(l) == Channels[IF l % 2 = 0 THEN (l \div 2) + 1 ELSE (l \div 2) + 2]
OutDim(l) == Channels[(l \div 2) + 2]
NumPos(l) == IF l = 0 THEN 1 ELSE 9

PatchOf(name, l) ==
  CASE name = "generic" -> Generic(InDim(l), OutDim(l))
    [] name = "patch_2_12" -> Patch212
    [] name = "patch_12_12" -> Patch1212
    [] name = "patch_12_12_state_only" -> Patch1212StateOnly
    [] name = "patch_12_24" -> Patch1224
    [] name = "patch_12_24_tiled" -> Patch1224Tiled
    [] name = "patch_24_24" -> Patch2424
    [] name = "patch_24_24_tiled" -> Patch2424Tiled
    [] name = "patch_24_24_tiled_state_only" -> Patch2424TiledStateOnly

Run(visits, patch, output) == [visits |-> visits, patch |-> patch, output |-> output]

LayerForward(l, x, y, w, h) ==
  Run(GenericVisits(x, y, w, h, NumPos(l)), "generic", TRUE)
S0L0Interior(x, y, w) == Run({Visit(y * w + x, 0)}, "patch_2_12", TRUE)
S0L1Interior(x, y, w) == Run(FusedVisits(y * w + x, w), "patch_12_12", TRUE)
S0L1InteriorStateOnly(x, y, w) == Run(FusedVisits(y * w + x, w), "patch_12_12_state_only", FALSE)
S1L0Interior(x, y, w) == Run(FusedVisits(y * w + x, w), "patch_12_24", TRUE)
S1L0InteriorTiled(x, y, w) == Run(FusedVisits(y * w + x, w), "patch_12_24_tiled", TRUE)
S1L1Interior(x, y, w) == Run(FusedVisits(y * w + x, w), "patch_24_24", TRUE)
S1L1InteriorTiled(x, y, w) == Run(FusedVisits(y * w + x, w), "patch_24_24_tiled", TRUE)
S1L1InteriorTiledStateOnly(x, y, w) ==
  Run(FusedVisits(y * w + x, w), "patch_24_24_tiled_state_only", FALSE)

\* The two layers of a stage.
StageForward(s, x, y, w, h) ==
  IF s = 0 /\ Interior(x, y, w, h) THEN <<S0L0Interior(x, y, w), S0L1Interior(x, y, w)>>
  ELSE IF s = 1 /\ Interior(x, y, w, h)
  THEN <<S1L0InteriorTiled(x, y, w), S1L1InteriorTiled(x, y, w)>>
  ELSE <<LayerForward(2 * s, x, y, w, h), LayerForward(2 * s + 1, x, y, w, h)>>

\* The output of the second layer is not wanted; at the border and in the last stages it is
\* computed all the same, into a scratch buffer.
StageForwardStateOnly(s, x, y, w, h) ==
  IF s = 0 /\ Interior(x, y, w, h)
  THEN <<S0L0Interior(x, y, w), S0L1InteriorStateOnly(x, y, w)>>
  ELSE IF s = 1 /\ Interior(x, y, w, h)
  THEN <<S1L0InteriorTiled(x, y, w), S1L1InteriorTiledStateOnly(x, y, w)>>
  ELSE <<LayerForward(2 * s, x, y, w, h), LayerForward(2 * s + 1, x, y, w, h)>>
===============================================================================

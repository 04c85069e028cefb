-------------------------------- MODULE Strips --------------------------------
(***************************************************************************)
(* The columns of stage 0 cut into vertical strips, one for each shard.    *)
(* The legacy schemes repeat this arithmetic file by file; s3_sharded is   *)
(* mapped, and s4, s7, s8 and s_stage0_multicore where they differ.        *)
(***************************************************************************)
EXTENDS Integers

CONSTANTS W,         \* columns at stage 0
          N          \* shards

Shards == 0 .. N - 1
GridColumns == 0 .. W - 1

\* Columns of one strip of a grid of w columns; the last strips may be short, or empty.
StripOf(w) == (w + N - 1) \div N
Clamped(c) == IF c < 0 THEN 0 ELSE IF c >= W THEN W - 1 ELSE c
ShardOf(c) == LET k == Clamped(c) \div StripOf(W) IN IF k >= N THEN N - 1 ELSE k

\* The cells that an event in column x updates, and those of them shard k owns.
PatchColumns(x) == (x - 1 .. x + 1) \cap GridColumns
OwnedPatch(k, x) == {c \in PatchColumns(x) : ShardOf(c) = k}

\* The shards an event in column x is sent to. The mutant looks right only.
AffectedRight(x) == {ShardOf(c) : c \in {x, x + 1}}
Affected(x) == {ShardOf(c) : c \in {x - 1, x, x + 1}}

\* With a halo, on a grid of w columns: the shards whose widened strip has column c,
\* looked for among the neighbours of the one whose own strip has it.
OwnerIn(c, w) == c \div StripOf(w)
\* The mutant has no halo on the left of a strip.
CoveringLeftless(c, w, halo) ==
  {k \in {OwnerIn(c, w) + dk : dk \in -1 .. 1} \cap Shards :
     k * StripOf(w) <= c /\ c < (k + 1) * StripOf(w) + halo}
Covering(c, w, halo) ==
  {k \in {OwnerIn(c, w) + dk : dk \in -1 .. 1} \cap Shards :
     k * StripOf(w) - halo <= c /\ c < (k + 1) * StripOf(w) + halo}
===============================================================================

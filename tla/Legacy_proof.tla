---------------------------- MODULE Legacy_proof ----------------------------
(***************************************************************************)
(* What is proved about the reference pipeline and the legacy schemes.     *)
(*                                                                         *)
(* For every grid and every number of channels: the ways in which the code *)
(* walks over the patch of an event update the same cells with the weights *)
(* of the same positions, inside the grid and each cell once, and the      *)
(* fused kernels compute a cell from the elements of the arrays that the   *)
(* definition of the layer names.  Then, for every sensor, window, warm-up *)
(* and input of the programs with one thread: what its cells hold, which   *)
(* code computed them, its times, its predictions and its counters.        *)
(* Last, for every number of shards, sensor, queue and input of the locked *)
(* scheme s6, in every interleaving of its threads: no update of a shared  *)
(* cell is lost or made twice, a drain waits for all that was not          *)
(* overtaken, and the run ends with every event taken once.                *)
(***************************************************************************)
EXTENDS SinglePipeline, InductionFacts, SequenceTheorems
CONSTANTS N,         \* shards of s6
          Deepest,   \* its last stage
          Cap,       \* capacity of its queues
          Columns    \* the columns of its events
VARIABLES todo, drained, q, pushed, mark, done    \* what s6 has besides log, thr and snaps

LEMMA NextRow ==
  ASSUME NEW y \in Int, NEW w \in Int
  PROVE  /\ (y + 1) * w = y * w + w /\ (y + (-1)) * w = y * w - w /\ (y + 0) * w = y * w
         /\ 1 * w = w /\ (-1) * w = -w /\ 0 * w = 0
  OBVIOUS

LEMMA OffsetType ==
  ASSUME NEW d \in Offsets
  PROVE  d[1] \in {-1, 0, 1} /\ d[2] \in {-1, 0, 1} /\ d = <<d[1], d[2]>>
  BY DEF Offsets

\* The visits of an event whose whole patch is in the grid, offset by offset.
LEMMA AllOffsets ==
  ASSUME NEW x \in Int, NEW y \in Int, NEW w \in Int
  PROVE  UnrolledVisits(y * w + x, w)
           = {Visit((y + d[2]) * w + (x + d[1]), Position(d)) : d \in Offsets}
  <1> DEFINE At(d) == Visit((y + d[2]) * w + (x + d[1]), Position(d))
  <1> DEFINE b == y * w + x
  <1>0. b \in Int
    OBVIOUS
  <1>1. /\ <<-1, -1>> \in Offsets /\ <<0, -1>> \in Offsets /\ <<1, -1>> \in Offsets
        /\ <<-1, 0>> \in Offsets /\ <<0, 0>> \in Offsets /\ <<1, 0>> \in Offsets
        /\ <<-1, 1>> \in Offsets /\ <<0, 1>> \in Offsets /\ <<1, 1>> \in Offsets
    BY DEF Offsets
  <1>2. /\ At(<<-1, -1>>) = Visit(b - w - 1, 8) /\ At(<<0, -1>>) = Visit(b - w, 7)
        /\ At(<<1, -1>>) = Visit(b - w + 1, 6)
    BY NextRow DEF Visit, Position
  <1>3. /\ At(<<-1, 0>>) = Visit(b - 1, 5) /\ At(<<0, 0>>) = Visit(b, 4)
        /\ At(<<1, 0>>) = Visit(b + 1, 3)
    BY NextRow DEF Visit, Position
  <1>4. /\ At(<<-1, 1>>) = Visit(b + w - 1, 2) /\ At(<<0, 1>>) = Visit(b + w, 1)
        /\ At(<<1, 1>>) = Visit(b + w + 1, 0)
    BY NextRow DEF Visit, Position
  <1>5. \A d \in Offsets :
          \/ d = <<-1, -1>> \/ d = <<0, -1>> \/ d = <<1, -1>>
          \/ d = <<-1, 0>> \/ d = <<0, 0>> \/ d = <<1, 0>>
          \/ d = <<-1, 1>> \/ d = <<0, 1>> \/ d = <<1, 1>>
    BY OffsetType
  <1> HIDE DEF At, b
  <1>6. UnrolledVisits(b, w) = {At(d) : d \in Offsets}
    BY <1>1, <1>2, <1>3, <1>4, <1>5, Zenon DEF UnrolledVisits
  <1> QED
    BY <1>6 DEF At, b

\* The arrays of the fused kernels list the nine cells that the unrolled code lists.
THEOREM FusedAsUnrolled ==
  ASSUME NEW base \in Int, NEW w \in Int
  PROVE  FusedVisits(base, w) = UnrolledVisits(base, w)
  <1> DEFINE At(k) == Visit(base + DyArr[k] * w + DxArr[k], DeltaArr[k])
  <1>1. /\ At(1) = Visit(base - w - 1, 8) /\ At(2) = Visit(base - w, 7)
        /\ At(3) = Visit(base - w + 1, 6)
    BY NextRow DEF Visit, DxArr, DyArr, DeltaArr
  <1>2. /\ At(4) = Visit(base - 1, 5) /\ At(5) = Visit(base, 4) /\ At(6) = Visit(base + 1, 3)
    BY NextRow DEF Visit, DxArr, DyArr, DeltaArr
  <1>3. /\ At(7) = Visit(base + w - 1, 2) /\ At(8) = Visit(base + w, 1)
        /\ At(9) = Visit(base + w + 1, 0)
    BY NextRow DEF Visit, DxArr, DyArr, DeltaArr
  <1>4. 1 .. 9 = {1, 2, 3, 4, 5, 6, 7, 8, 9}
    OBVIOUS
  <1>5. FusedVisits(base, w) = {At(k) : k \in {1, 2, 3, 4, 5, 6, 7, 8, 9}}
    BY <1>4 DEF FusedVisits
  <1> HIDE DEF At
  <1>6. {At(k) : k \in {1, 2, 3, 4, 5, 6, 7, 8, 9}} = UnrolledVisits(base, w)
    BY <1>1, <1>2, <1>3, Zenon DEF UnrolledVisits
  <1> QED
    BY <1>5, <1>6

\* In the interior the clipped loop skips nothing, so that the fused kernels of s0_l1, s1_l0 and
\* s1_l1 update the cells of layer_forward_ct, each with the weights of its position.
THEOREM InteriorAsClipped ==
  ASSUME NEW x \in Int, NEW y \in Int, NEW w \in Int, NEW h \in Int, Interior(x, y, w, h)
  PROVE  FusedVisits(y * w + x, w) = ClippedVisits(x, y, w, h)
  <1>1. \A d \in Offsets : x + d[1] \in 0 .. w - 1 /\ y + d[2] \in 0 .. h - 1
    BY OffsetType DEF Interior
  <1>2. {o \in Offsets : x + o[1] \in 0 .. w - 1 /\ y + o[2] \in 0 .. h - 1} = Offsets
    BY <1>1
  <1>3. ClippedVisits(x, y, w, h)
          = {Visit((y + d[2]) * w + (x + d[1]), Position(d)) : d \in Offsets}
    BY <1>2 DEF ClippedVisits
  <1>4. y * w + x \in Int
    OBVIOUS
  <1> QED
    BY <1>3, <1>4, AllOffsets, FusedAsUnrolled
-----------------------------------------------------------------------------
LEMMA ProductNat ==
  ASSUME NEW a \in Nat, NEW b \in Nat
  PROVE  a * b \in Nat
  OBVIOUS

\* The columns of two rows of w do not meet.
LEMMA RowsDisjoint ==
  ASSUME NEW w \in Nat, NEW y \in Int, NEW z \in Int,
         NEW a \in 0 .. w - 1, NEW b \in 0 .. w - 1, y * w + a = z * w + b
  PROVE  y = z /\ a = b
  <1>1. ~(y < z)
    <2> SUFFICES ASSUME y < z PROVE FALSE
      OBVIOUS
    <2>1. z - y - 1 \in Nat
      OBVIOUS
    <2>2. (z - y - 1) * w \in Nat
      BY <2>1, ProductNat
    <2>3. (z - y - 1) * w = z * w - y * w - w
      OBVIOUS
    <2>4. y * w \in Int /\ z * w \in Int
      OBVIOUS
    <2> QED
      BY <2>2, <2>3, <2>4
  <1>2. ~(z < y)
    <2> SUFFICES ASSUME z < y PROVE FALSE
      OBVIOUS
    <2>1. y - z - 1 \in Nat
      OBVIOUS
    <2>2. (y - z - 1) * w \in Nat
      BY <2>1, ProductNat
    <2>3. (y - z - 1) * w = y * w - z * w - w
      OBVIOUS
    <2>4. y * w \in Int /\ z * w \in Int
      OBVIOUS
    <2> QED
      BY <2>2, <2>3, <2>4
  <1>3. y = z
    BY <1>1, <1>2
  <1>4. y * w \in Int
    OBVIOUS
  <1> QED
    BY <1>3, <1>4

\* A cell of a grid has its index in the array of the grid.
LEMMA CellInArray ==
  ASSUME NEW w \in Nat, NEW h \in Nat, NEW x \in 0 .. w - 1, NEW y \in 0 .. h - 1
  PROVE  y * w + x \in 0 .. w * h - 1
  <1>1. h - 1 - y \in Nat /\ y \in Nat
    OBVIOUS
  <1>2. (h - 1 - y) * w \in Nat /\ y * w \in Nat
    BY <1>1, ProductNat
  <1>3. (h - 1 - y) * w = w * h - w - y * w
    OBVIOUS
  <1>4. w * h \in Int
    OBVIOUS
  <1> QED
    BY <1>2, <1>3, <1>4

\* No code writes outside the array of hidden states, even for an event one row or column past
\* the grid, which a pooled coordinate of an odd extent is.
THEOREM VisitsInGrid ==
  ASSUME NEW w \in Nat, NEW h \in Nat, NEW x \in 0 .. w, NEW y \in 0 .. h,
         NEW v \in GenericVisits(x, y, w, h, 9)
  PROVE  v.cell \in 0 .. w * h - 1 /\ v.pos \in 0 .. 8
  <1>1. v \in ClippedVisits(x, y, w, h)
    <2>1. CASE Interior(x, y, w, h)
      BY <2>1, InteriorAsClipped, FusedAsUnrolled, y * w + x \in Int DEF GenericVisits
    <2>2. CASE ~Interior(x, y, w, h)
      BY <2>2 DEF GenericVisits
    <2> QED
      BY <2>1, <2>2
  <1>2. PICK d \in Offsets : /\ x + d[1] \in 0 .. w - 1 /\ y + d[2] \in 0 .. h - 1
                             /\ v = Visit((y + d[2]) * w + (x + d[1]), Position(d))
    BY <1>1 DEF ClippedVisits
  <1>3. v.cell = (y + d[2]) * w + (x + d[1]) /\ v.pos = Position(d)
    BY <1>2 DEF Visit
  <1>4. Position(d) \in 0 .. 8
    BY OffsetType DEF Position
  <1>5. (y + d[2]) * w + (x + d[1]) \in 0 .. w * h - 1
    BY <1>2, CellInArray
  <1> QED
    BY <1>3, <1>4, <1>5

\* An event takes each cell of its patch once: no two weight positions meet in a cell, and no two
\* cells are taken with the same weights.
THEOREM EachCellOnce ==
  ASSUME NEW w \in Nat, NEW h \in Nat, NEW x \in Int, NEW y \in Int,
         NEW u \in GenericVisits(x, y, w, h, 9), NEW v \in GenericVisits(x, y, w, h, 9)
  PROVE  /\ u.cell = v.cell => u = v
         /\ u.pos = v.pos => u = v
  <1>1. u \in ClippedVisits(x, y, w, h) /\ v \in ClippedVisits(x, y, w, h)
    <2>1. CASE Interior(x, y, w, h)
      BY <2>1, InteriorAsClipped, FusedAsUnrolled, y * w + x \in Int DEF GenericVisits
    <2>2. CASE ~Interior(x, y, w, h)
      BY <2>2 DEF GenericVisits
    <2> QED
      BY <2>1, <2>2
  <1>2. PICK d \in Offsets : /\ x + d[1] \in 0 .. w - 1 /\ y + d[2] \in 0 .. h - 1
                             /\ u = Visit((y + d[2]) * w + (x + d[1]), Position(d))
    BY <1>1 DEF ClippedVisits
  <1>3. PICK e \in Offsets : /\ x + e[1] \in 0 .. w - 1 /\ y + e[2] \in 0 .. h - 1
                             /\ v = Visit((y + e[2]) * w + (x + e[1]), Position(e))
    BY <1>1 DEF ClippedVisits
  <1>4. /\ u.cell = (y + d[2]) * w + (x + d[1]) /\ u.pos = Position(d)
        /\ v.cell = (y + e[2]) * w + (x + e[1]) /\ v.pos = Position(e)
    BY <1>2, <1>3 DEF Visit
  <1>5. ASSUME u.cell = v.cell PROVE d = e
    <2>1. y + d[2] \in Int /\ y + e[2] \in Int
      BY OffsetType
    <2>2. y + d[2] = y + e[2] /\ x + d[1] = x + e[1]
      BY <1>2, <1>3, <1>4, <1>5, <2>1, RowsDisjoint
    <2>3. d[1] = e[1] /\ d[2] = e[2]
      BY <2>2, OffsetType
    <2> QED
      BY <2>3, OffsetType
  <1>6. ASSUME u.pos = v.pos PROVE d = e
    <2>1. (1 - d[2]) * 3 + (1 - d[1]) = (1 - e[2]) * 3 + (1 - e[1])
      BY <1>4, <1>6 DEF Position
    <2>2. d[1] = e[1] /\ d[2] = e[2]
      BY <2>1, OffsetType
    <2> QED
      BY <2>2, OffsetType
  <1> QED
    BY <1>2, <1>3, <1>5, <1>6

\* With nine positions a shard visits those of its mask that are in the grid, and no others.
LEMMA MaskedNine ==
  ASSUME NEW w \in Nat, NEW h \in Nat, NEW x \in 0 .. w, NEW y \in 0 .. h,
         NEW mask \in SUBSET (0 .. 8)
  PROVE  MaskedVisits(mask, x, y, w, h, 9)
           = {v \in GenericVisits(x, y, w, h, 9) : v.pos \in mask}
  <1> DEFINE all == GenericVisits(x, y, w, h, 9)
  <1> DEFINE at == PatchIndices(x, y, w, h)
  <1>1. at = [p \in 0 .. 8 |-> IF \E v \in all : v.pos = p
                               THEN (CHOOSE v \in all : v.pos = p).cell ELSE -1]
    BY DEF PatchIndices, GenericVisits
  <1>2. \A v \in all : v.cell \in 0 .. w * h - 1 /\ v.pos \in 0 .. 8
    BY VisitsInGrid
  <1>3. \A u, v \in all : u.pos = v.pos => u = v
    BY EachCellOnce
  <1>4. \A v \in all : v = Visit(v.cell, v.pos)
    BY DEF GenericVisits, UnrolledVisits, ClippedVisits, Visit
  <1> HIDE DEF all
  <1>5. \A v \in all : at[v.pos] = v.cell
    <2> TAKE v \in all
    <2>1. v.pos \in 0 .. 8
      BY <1>2
    <2>2. (CHOOSE u \in all : u.pos = v.pos) = v
      BY <1>3
    <2> QED
      BY <1>1, <2>1, <2>2
  <1>6. \A p \in 0 .. 8 : at[p] >= 0 => \E v \in all : v.pos = p
    BY <1>1
  <1> HIDE DEF at
  <1>7. w * h \in Int
    OBVIOUS
  <1>8. ASSUME NEW v \in all, v.pos \in mask
        PROVE  v \in MaskedVisits(mask, x, y, w, h, 9)
    <2>1. v.pos \in {o \in mask : at[o] >= 0}
      BY <1>2, <1>5, <1>7, <1>8
    <2>2. v = Visit(at[v.pos], v.pos)
      BY <1>4, <1>5
    <2> QED
      BY <2>1, <2>2 DEF MaskedVisits, at
  <1>9. ASSUME NEW m \in MaskedVisits(mask, x, y, w, h, 9)
        PROVE  m \in all /\ m.pos \in mask
    <2>1. PICK p \in mask : at[p] >= 0 /\ m = Visit(at[p], p)
      BY DEF MaskedVisits, at
    <2>2. PICK v \in all : v.pos = p
      BY <1>6, <2>1
    <2>3. m = v
      BY <1>4, <1>5, <2>1, <2>2
    <2> QED
      BY <2>2, <2>3
  <1> QED
    BY <1>8, <1>9 DEF all

\* The position of the weights of a cell says in which column it is.
LEMMA OffsetOfPosition ==
  ASSUME NEW d \in Offsets, NEW x \in Int
  PROVE  Position(d) \in 0 .. 8 /\ x + 1 - (Position(d) % 3) = x + d[1]
  <1>1. CASE d[2] = -1
    BY <1>1, OffsetType DEF Position
  <1>2. CASE d[2] = 0
    BY <1>2, OffsetType DEF Position
  <1>3. CASE d[2] = 1
    BY <1>3, OffsetType DEF Position
  <1> QED
    BY <1>1, <1>2, <1>3, OffsetType

\* What the shards of s3 and s4 do of a patch. In layer 1 shard k updates exactly the cells of
\* the patch whose columns it owns, each with the weights of its place. In layer 0, which has one
\* position, the cell of the event is not updated by the owner of its column but by the owner
\* of the column to its right, and in the last column by nobody.
THEOREM MaskSelects ==
  ASSUME NEW w \in Nat, NEW h \in Nat, NEW x \in 0 .. w - 1, NEW y \in 0 .. h - 1,
         NEW K, NEW owner \in [0 .. w - 1 -> K], NEW k \in K
  PROVE  /\ MaskedVisits(OwnerMask(owner, k, x, w), x, y, w, h, 9)
              = {Visit((y + d[2]) * w + (x + d[1]), Position(d)) :
                   d \in {o \in Offsets : /\ x + o[1] \in 0 .. w - 1 /\ y + o[2] \in 0 .. h - 1
                                         /\ owner[x + o[1]] = k}}
         /\ MaskedVisits(OwnerMask(owner, k, x, w), x, y, w, h, 1)
              = IF x + 1 < w /\ owner[x + 1] = k THEN GenericVisits(x, y, w, h, 1) ELSE {}
  <1> DEFINE mask == OwnerMask(owner, k, x, w)
  <1> DEFINE Inside(o) == x + o[1] \in 0 .. w - 1 /\ y + o[2] \in 0 .. h - 1
  <1>1. mask \in SUBSET (0 .. 8) /\ x \in 0 .. w /\ y \in 0 .. h /\ x \in Int
    BY DEF OwnerMask
  <1>2. GenericVisits(x, y, w, h, 9) = ClippedVisits(x, y, w, h)
    BY InteriorAsClipped, FusedAsUnrolled, y * w + x \in Int DEF GenericVisits
  <1>3. MaskedVisits(mask, x, y, w, h, 9) = {v \in ClippedVisits(x, y, w, h) : v.pos \in mask}
    BY <1>1, <1>2, MaskedNine
  <1>4. ASSUME NEW d \in Offsets, Inside(d)
        PROVE  Position(d) \in mask <=> owner[x + d[1]] = k
    BY <1>1, <1>4, OffsetOfPosition DEF OwnerMask
  <1>5. ASSUME NEW d \in Offsets
        PROVE  Visit((y + d[2]) * w + (x + d[1]), Position(d)).pos = Position(d)
    BY DEF Visit
  <1>6. {v \in ClippedVisits(x, y, w, h) : v.pos \in mask}
          = {Visit((y + d[2]) * w + (x + d[1]), Position(d)) :
               d \in {o \in Offsets : Inside(o) /\ owner[x + o[1]] = k}}
    BY <1>4, <1>5 DEF ClippedVisits
  <1>7. 0 \in mask <=> x + 1 < w /\ owner[x + 1] = k
    BY DEF OwnerMask
  <1>8. MaskedVisits(mask, x, y, w, h, 1) = {Visit(y * w + x, p) : p \in mask \cap {0}}
    BY DEF MaskedVisits
  <1>9. GenericVisits(x, y, w, h, 1) = {Visit(y * w + x, 0)}
    BY DEF GenericVisits
  <1>10. MaskedVisits(mask, x, y, w, h, 1)
           = IF x + 1 < w /\ owner[x + 1] = k THEN GenericVisits(x, y, w, h, 1) ELSE {}
    <2> HIDE DEF mask
    <2> QED
      BY <1>7, <1>8, <1>9
  <1> QED
    BY <1>3, <1>6, <1>10
-----------------------------------------------------------------------------
(* Channels: the vector code of four lanes against the plain loops. *)
LEMMA SplitChannel ==
  ASSUME NEW n \in Nat
  PROVE  /\ (4 * n) \div 4 = n
         /\ \A c \in 0 .. 4 * n - 1 : /\ c \div 4 \in 0 .. n - 1 /\ c % 4 \in Lanes
                                      /\ c = 4 * (c \div 4) + (c % 4)
         /\ \A b \in 0 .. n - 1, l \in Lanes : 4 * b + l \in 0 .. 4 * n - 1
  <1>1. (4 * n) \div 4 = n
    OBVIOUS
  <1>2. ASSUME NEW c \in 0 .. 4 * n - 1
        PROVE  c \div 4 \in 0 .. n - 1 /\ c % 4 \in Lanes /\ c = 4 * (c \div 4) + (c % 4)
    BY DEF Lanes
  <1>3. ASSUME NEW b \in 0 .. n - 1, NEW l \in Lanes
        PROVE  4 * b + l \in 0 .. 4 * n - 1
    BY DEF Lanes
  <1> QED
    BY <1>1, <1>2, <1>3

\* A number of channels that fills its vectors.
LEMMA FourVectors ==
  ASSUME NEW c \in Nat, c % 4 = 0
  PROVE  /\ \A i \in 0 .. c - 1 : \E b \in Vectors(c), l \in Lanes : i = 4 * b + l
         /\ \A b \in Vectors(c), l \in Lanes : 4 * b + l \in 0 .. c - 1
         /\ Vectors(c) \subseteq Nat /\ Lanes \subseteq Nat
  <1> DEFINE n == c \div 4
  <1>1. n \in Nat /\ c = 4 * n /\ Vectors(c) = 0 .. n - 1
    BY DEF Vectors
  <1> HIDE DEF n
  <1>2. ASSUME NEW i \in 0 .. c - 1
        PROVE  \E b \in Vectors(c), l \in Lanes : i = 4 * b + l
    <2>1. i \div 4 \in Vectors(c) /\ i % 4 \in Lanes /\ i = 4 * (i \div 4) + (i % 4)
      BY <1>1, SplitChannel
    <2> QED
      BY <2>1
  <1>3. \A b \in Vectors(c), l \in Lanes : 4 * b + l \in 0 .. c - 1
    BY <1>1, SplitChannel
  <1>4. Vectors(c) \subseteq Nat /\ Lanes \subseteq Nat
    BY <1>1 DEF Lanes
  <1> QED
    BY <1>2, <1>3, <1>4

\* Four rows and four inputs at a time are all rows and inputs, each weight in its place.
THEOREM VectorAsMatvec ==
  ASSUME NEW in \in Nat, NEW rows \in Nat, in % 4 = 0, rows % 4 = 0
  PROVE  VectorMatvec(in, 0, rows) = Matvec(in, rows)
  <1> DEFINE At(r, i) == [row |-> r, with |-> i, at |-> r * in + i]
  <1>1. Matvec(in, rows) = {At(r, i) : r \in 0 .. rows - 1, i \in 0 .. in - 1}
    BY DEF Matvec
  <1>2. VectorMatvec(in, 0, rows)
          = {At(4 * g + r, 4 * b + l) :
               g \in Vectors(rows), r \in Lanes, b \in Vectors(in), l \in Lanes}
    <2>1. \A g \in Vectors(rows), r \in Lanes : 0 + 4 * g + r = 4 * g + r
      BY FourVectors
    <2> QED
      BY <2>1 DEF VectorMatvec
  <1> HIDE DEF At
  <1>3. ASSUME NEW k \in Matvec(in, rows) PROVE k \in VectorMatvec(in, 0, rows)
    <2>1. PICK r \in 0 .. rows - 1, i \in 0 .. in - 1 : k = At(r, i)
      BY <1>1
    <2>2. PICK g \in Vectors(rows), a \in Lanes : r = 4 * g + a
      BY FourVectors
    <2>3. PICK b \in Vectors(in), l \in Lanes : i = 4 * b + l
      BY FourVectors
    <2> QED
      BY <1>2, <2>1, <2>2, <2>3
  <1>4. ASSUME NEW k \in VectorMatvec(in, 0, rows) PROVE k \in Matvec(in, rows)
    <2>1. PICK g \in Vectors(rows), a \in Lanes, b \in Vectors(in), l \in Lanes :
             k = At(4 * g + a, 4 * b + l)
      BY <1>2
    <2>2. 4 * g + a \in 0 .. rows - 1 /\ 4 * b + l \in 0 .. in - 1
      BY FourVectors
    <2> QED
      BY <1>1, <2>1, <2>2
  <1> QED
    BY <1>3, <1>4

\* Vector after vector, the recurrence takes the query, value and gate of its own channel.
THEOREM VectorsAsLru ==
  ASSUME NEW out \in Nat, out % 4 = 0
  PROVE  LruStep(out) = Lru(out) /\ VectorLru(out) = Lru(out)
  <1> DEFINE At(c) == [h |-> c, q |-> c, v |-> out + c, g |-> 2 * out + c]
  <1> DEFINE n == out \div 4
  <1>1. n \in Nat /\ out = 4 * n
    OBVIOUS
  <1>2. LruStep(out) = {At(4 * b + l) : b \in Vectors(out), l \in Lanes}
    BY DEF LruStep
  <1>3. VectorLru(out) = {At(4 * b + l) : b \in Vectors(out), l \in Lanes}
    <2> DEFINE InRegisters(b, l) == [h |-> 4 * b + l, q |-> 4 * b + l, v |-> 4 * (n + b) + l,
                                     g |-> 4 * (2 * n + b) + l]
    <2>1. VectorLru(out) = {InRegisters(b, l) : b \in Vectors(out), l \in Lanes}
      BY DEF VectorLru
    <2>2. ASSUME NEW b \in Nat, NEW l \in Nat PROVE InRegisters(b, l) = At(4 * b + l)
      BY <1>1
    <2> HIDE DEF InRegisters, At
    <2>3. \A b \in Vectors(out), l \in Lanes : InRegisters(b, l) = At(4 * b + l)
      BY <2>2, FourVectors
    <2> QED
      BY <2>1, <2>3
  <1>4. Lru(out) = {At(c) : c \in 0 .. out - 1}
    BY DEF Lru
  <1> HIDE DEF At, n
  <1>5. /\ \A c \in 0 .. out - 1 : \E b \in Vectors(out), l \in Lanes : c = 4 * b + l
        /\ \A b \in Vectors(out), l \in Lanes : 4 * b + l \in 0 .. out - 1
    BY FourVectors
  <1>6. ASSUME NEW k \in Lru(out)
        PROVE  k \in {At(4 * b + l) : b \in Vectors(out), l \in Lanes}
    BY <1>4, <1>5
  <1>7. ASSUME NEW k \in {At(4 * b + l) : b \in Vectors(out), l \in Lanes}
        PROVE  k \in Lru(out)
    BY <1>4, <1>5
  <1>8. {At(4 * b + l) : b \in Vectors(out), l \in Lanes} = Lru(out)
    BY <1>6, <1>7
  <1>9. LruStep(out) = Lru(out)
    BY <1>2, <1>8
  <1>10. VectorLru(out) = Lru(out)
    BY <1>3, <1>8
  <1> QED
    BY <1>9, <1>10

LEMMA Division ==
  ASSUME NEW k \in Nat, NEW n \in Nat \ {0}
  PROVE  k = (k \div n) * n + (k % n) /\ k % n \in 0 .. n - 1 /\ k \div n \in Nat
  OBVIOUS

LEMMA TransposedPlace ==
  ASSUME NEW out \in Nat, NEW i \in 0 .. out - 1, NEW j \in 0 .. out - 1
  PROVE  Transposed(out)[i * out + j] = j * out + i
  <1> DEFINE k == i * out + j
  <1>1. k \in 0 .. out * out - 1
    BY CellInArray
  <1>2. out \in Nat \ {0} /\ k \in Nat
    <2>1. out * out \in Int
      OBVIOUS
    <2> QED
      BY <1>1, <2>1
  <1> HIDE DEF k
  <1>3. k = (k \div out) * out + (k % out) /\ k % out \in 0 .. out - 1 /\ k \div out \in Nat
    BY <1>2, Division
  <1>4. k \div out = i /\ k % out = j
    <2> DEFINE a == k \div out
    <2> DEFINE b == k % out
    <2>1. a * out + b = i * out + j
      BY <1>3 DEF k
    <2>2. a \in Int /\ i \in Int /\ b \in 0 .. out - 1
      BY <1>3
    <2> HIDE DEF a, b
    <2>3. a = i /\ b = j
      BY <2>1, <2>2, RowsDisjoint
    <2> QED
      BY <2>3 DEF a, b
  <1>5. Transposed(out)[k] = (k % out) * out + (k \div out)
    BY <1>1 DEF Transposed
  <1> QED
    BY <1>4, <1>5 DEF k

\* A tile that walks down goW_T adds to each channel of the output what a row of goW does.
THEOREM TiledGatherAsMatvec ==
  ASSUME NEW out \in Nat, out % 4 = 0
  PROVE  TiledGather(out) = Matvec(out, out)
  <1> DEFINE At(j, i) == [row |-> j, with |-> i, at |-> j * out + i]
  <1>1. Matvec(out, out) = {At(j, i) : j \in 0 .. out - 1, i \in 0 .. out - 1}
    BY DEF Matvec
  <1>2. TiledGather(out) = {At(4 * v + l, 4 * t + r) :
                              v \in Vectors(out), l \in Lanes, t \in Vectors(out), r \in Lanes}
    <2>1. \A v \in Vectors(out), l \in Lanes, t \in Vectors(out), r \in Lanes :
             Transposed(out)[(4 * t + r) * out + (4 * v + l)] = (4 * v + l) * out + (4 * t + r)
      BY FourVectors, TransposedPlace
    <2> QED
      BY <2>1 DEF TiledGather
  <1> HIDE DEF At
  <1>3. ASSUME NEW k \in Matvec(out, out) PROVE k \in TiledGather(out)
    <2>1. PICK j \in 0 .. out - 1, i \in 0 .. out - 1 : k = At(j, i)
      BY <1>1
    <2>2. PICK v \in Vectors(out), l \in Lanes : j = 4 * v + l
      BY FourVectors
    <2>3. PICK t \in Vectors(out), r \in Lanes : i = 4 * t + r
      BY FourVectors
    <2> QED
      BY <1>2, <2>1, <2>2, <2>3
  <1>4. ASSUME NEW k \in TiledGather(out) PROVE k \in Matvec(out, out)
    <2>1. PICK v \in Vectors(out), l \in Lanes, t \in Vectors(out), r \in Lanes :
             k = At(4 * v + l, 4 * t + r)
      BY <1>2
    <2>2. 4 * v + l \in 0 .. out - 1 /\ 4 * t + r \in 0 .. out - 1
      BY FourVectors
    <2> QED
      BY <1>1, <2>1, <2>2
  <1> QED
    BY <1>3, <1>4

\* The rows of the tiles of the parts: of part p the rows p * out to (p + 1) * out - 1.
LEMMA RowsOfTiles ==
  ASSUME NEW in \in Nat, NEW out \in Nat, in % 4 = 0, out % 4 = 0, NEW parts \in SUBSET (0 .. 2)
  PROVE  \A k : k \in TiledRows(in, out, parts)
                <=> \E p \in parts, c \in 0 .. out - 1, i \in 0 .. in - 1 :
                       k = [row |-> p * out + c, with |-> i, at |-> (p * out + c) * in + i]
  <1>a. \A c \in 0 .. out - 1 : \E t \in Vectors(out), r \in Lanes : c = 4 * t + r
    BY FourVectors
  <1>b. \A i \in 0 .. in - 1 : \E b \in Vectors(in), l \in Lanes : i = 4 * b + l
    BY FourVectors
  <1>0. Vectors(out) \subseteq Int /\ Lanes \subseteq Int
    BY DEF Vectors, Lanes
  <1> DEFINE At(r, i) == [row |-> r, with |-> i, at |-> r * in + i]
  <1>1. ASSUME NEW p \in parts, NEW t \in Vectors(out)
        PROVE  VectorMatvec(in, p * out + 4 * t, 4)
                 = {At(p * out + (4 * t + r), 4 * b + l) : r \in Lanes, b \in Vectors(in), l \in Lanes}
    <2>1. Vectors(4) = {0}
      BY DEF Vectors
    <2>2. \A r \in Lanes : p * out + 4 * t + 4 * 0 + r = p * out + (4 * t + r)
      <3>1. p \in Int /\ t \in Int /\ Lanes \subseteq Int
        BY <1>0
      <3>2. p * out \in Int
        BY <3>1
      <3> QED
        BY <3>1, <3>2
    <2> QED
      BY <2>1, <2>2 DEF VectorMatvec
  <1> HIDE DEF At
  <1>2. ASSUME NEW k \in TiledRows(in, out, parts) 
        PROVE  \E p \in parts, c \in 0 .. out - 1, i \in 0 .. in - 1 : k = At(p * out + c, i)
    <2>1. PICK p \in parts, t \in Vectors(out) : k \in VectorMatvec(in, p * out + 4 * t, 4)
      BY DEF TiledRows
    <2>2. PICK r \in Lanes, b \in Vectors(in), l \in Lanes :
             k = At(p * out + (4 * t + r), 4 * b + l)
      BY <1>1, <2>1
    <2>3. 4 * t + r \in 0 .. out - 1 /\ 4 * b + l \in 0 .. in - 1
      BY FourVectors
    <2> QED
      BY <2>2, <2>3
  <1>3. ASSUME NEW p \in parts, NEW c \in 0 .. out - 1, NEW i \in 0 .. in - 1,
               NEW k, k = At(p * out + c, i)
        PROVE  k \in TiledRows(in, out, parts)
    <2>2. PICK t \in Vectors(out), r \in Lanes : c = 4 * t + r
      BY <1>a
    <2>3. PICK b \in Vectors(in), l \in Lanes : i = 4 * b + l
      BY <1>b
    <2>4. k \in VectorMatvec(in, p * out + 4 * t, 4)
      BY <1>1, <1>3, <2>2, <2>3
    <2> QED
      BY <2>4 DEF TiledRows
  <1> QED
    BY <1>2, <1>3 DEF At

LEMMA PartOfRow ==
  ASSUME NEW out \in Nat, NEW r \in 0 .. 3 * out - 1
  PROVE  \E p \in 0 .. 2, c \in 0 .. out - 1 : r = p * out + c
  <1>1. CASE r < out
    <2>1. r = 0 * out + r
      OBVIOUS
    <2> QED
      BY <1>1, <2>1
  <1>2. CASE out <= r /\ r < 2 * out
    <2>1. r = 1 * out + (r - out) /\ r - out \in 0 .. out - 1
      BY <1>2
    <2> QED
      BY <2>1
  <1>3. CASE 2 * out <= r
    <2>1. r = 2 * out + (r - 2 * out) /\ r - 2 * out \in 0 .. out - 1
      BY <1>3
    <2> QED
      BY <2>1
  <1> QED
    BY <1>1, <1>2, <1>3

\* The tiles of q, v and g are all rows of qvgIn.
THEOREM TiledRowsAsMatvec ==
  ASSUME NEW in \in Nat, NEW out \in Nat, in % 4 = 0, out % 4 = 0
  PROVE  TiledRows(in, out, 0 .. 2) = Matvec(in, 3 * out)
  <1> DEFINE At(r, i) == [row |-> r, with |-> i, at |-> r * in + i]
  <1>1. Matvec(in, 3 * out) = {At(r, i) : r \in 0 .. 3 * out - 1, i \in 0 .. in - 1}
    BY DEF Matvec
  <1>2. \A k : k \in TiledRows(in, out, 0 .. 2)
                <=> \E p \in 0 .. 2, c \in 0 .. out - 1, i \in 0 .. in - 1 : k = At(p * out + c, i)
    BY 0 .. 2 \in SUBSET (0 .. 2), RowsOfTiles, ZenonT(60)
  <1>3. \A p \in 0 .. 2, c \in 0 .. out - 1 : p * out + c \in 0 .. 3 * out - 1
    <2> TAKE p \in 0 .. 2, c \in 0 .. out - 1
    <2>1. p = 0 \/ p = 1 \/ p = 2
      OBVIOUS
    <2> QED
      BY <2>1
  <1>4. \A r \in 0 .. 3 * out - 1 : \E p \in 0 .. 2, c \in 0 .. out - 1 : r = p * out + c
    BY PartOfRow
  <1> HIDE DEF At
  <1>5. ASSUME NEW k \in Matvec(in, 3 * out) PROVE k \in TiledRows(in, out, 0 .. 2)
    <2>1. PICK r \in 0 .. 3 * out - 1, i \in 0 .. in - 1 : k = At(r, i)
      BY <1>1
    <2>2. PICK p \in 0 .. 2, c \in 0 .. out - 1 : r = p * out + c
      BY <1>4, Zenon
    <2> QED
      BY <1>2, <2>1, <2>2
  <1>6. ASSUME NEW k \in TiledRows(in, out, 0 .. 2) PROVE k \in Matvec(in, 3 * out)
    <2>1. PICK p \in 0 .. 2, c \in 0 .. out - 1, i \in 0 .. in - 1 : k = At(p * out + c, i)
      BY <1>2
    <2>2. p * out + c \in 0 .. 3 * out - 1
      BY <1>3
    <2> QED
      BY <1>1, <2>1, <2>2
  <1> QED
    BY <1>5, <1>6

\* A deinterleaving load gives every row both of its weights.
THEOREM PairedAsMatvec ==
  ASSUME NEW rows \in Nat, rows % 4 = 0
  PROVE  PairedMatvec(rows) = Matvec(2, rows)
  <1> DEFINE At(r, i) == [row |-> r, with |-> i, at |-> r * 2 + i]
  <1>1. Matvec(2, rows) = {At(r, i) : r \in 0 .. rows - 1, i \in 0 .. 1}
    BY DEF Matvec
  <1>2. PairedMatvec(rows) = {At(4 * g + l, m) : g \in Vectors(rows), l \in Lanes, m \in 0 .. 1}
    <2>1. ASSUME NEW g \in Int, NEW l \in Int, NEW m \in Int
          PROVE  8 * g + 2 * l + m = (4 * g + l) * 2 + m
      OBVIOUS
    <2>2. Vectors(rows) \subseteq Int /\ Lanes \subseteq Int /\ 0 .. 1 \subseteq Int
      BY DEF Vectors, Lanes
    <2>3. \A g \in Vectors(rows), l \in Lanes, m \in 0 .. 1 :
             8 * g + 2 * l + m = (4 * g + l) * 2 + m
      BY <2>1, <2>2
    <2> QED
      BY <2>3 DEF PairedMatvec
  <1> HIDE DEF At
  <1>3. ASSUME NEW k \in Matvec(2, rows) PROVE k \in PairedMatvec(rows)
    <2>1. PICK r \in 0 .. rows - 1, i \in 0 .. 1 : k = At(r, i)
      BY <1>1
    <2>2. PICK g \in Vectors(rows), l \in Lanes : r = 4 * g + l
      BY FourVectors
    <2> QED
      BY <1>2, <2>1, <2>2
  <1>4. ASSUME NEW k \in PairedMatvec(rows) PROVE k \in Matvec(2, rows)
    <2>1. PICK g \in Vectors(rows), l \in Lanes, m \in 0 .. 1 : k = At(4 * g + l, m)
      BY <1>2
    <2>2. 4 * g + l \in 0 .. rows - 1
      BY FourVectors
    <2> QED
      BY <1>1, <2>1, <2>2
  <1> QED
    BY <1>3, <1>4

LEMMA ThreeParts ==
  ASSUME NEW out \in Nat, out % 4 = 0
  PROVE  3 * out \in Nat /\ (3 * out) % 4 = 0
  OBVIOUS

\* Every way in which the programs write the cell of a layer (generic, all in registers, in
\* tiles) multiplies the same weights with the same inputs, and takes query, value and gate of
\* each channel from the same rows.
THEOREM WaysAsReference ==
  ASSUME NEW in \in Nat, NEW out \in Nat, in % 4 = 0, out % 4 = 0
  PROVE  /\ Generic(in, out) = Reference(in, out)
         /\ AllAtOnce(in, out) = Reference(in, out)
         /\ Tiled(in, out) = Reference(in, out)
  <1>1. LruStep(out) = Lru(out) /\ VectorLru(out) = Lru(out)
    BY VectorsAsLru
  <1>2. /\ VectorMatvec(in, 0, 3 * out) = Matvec(in, 3 * out)
        /\ VectorMatvec(in, 0, out) = Matvec(in, out)
        /\ VectorMatvec(out, 0, out) = Matvec(out, out)
    BY ThreeParts, VectorAsMatvec
  <1>3. TiledRows(in, out, 0 .. 2) = Matvec(in, 3 * out)
    BY TiledRowsAsMatvec
  <1>4. TiledGather(out) = Matvec(out, out)
    BY TiledGatherAsMatvec
  <1>5. /\ MatvecCt(in, 3 * out) = Matvec(in, 3 * out) /\ MatvecCt(in, out) = Matvec(in, out)
        /\ MatvecCt(out, out) = Matvec(out, out)
    BY <1>2, VectorAsMatvec, ThreeParts DEF MatvecCt
  <1> QED
    BY <1>1, <1>2, <1>3, <1>4, <1>5 DEF Generic, AllAtOnce, Tiled, Reference

\* The six fused routines that compute an output, at the sizes they are written for.
THEOREM FusedAsReference ==
  /\ Patch212 = Reference(2, 12)
  /\ Patch1212 = Reference(12, 12)
  /\ Patch1224 = Reference(12, 24) /\ Patch1224Tiled = Reference(12, 24)
  /\ Patch2424 = Reference(24, 24) /\ Patch2424Tiled = Reference(24, 24)
  <1>1. Patch212 = Reference(2, 12)
    <2>1. PairedMatvec(36) = Matvec(2, 36) /\ PairedMatvec(12) = Matvec(2, 12)
      BY PairedAsMatvec
    <2>2. VectorLru(12) = Lru(12)
      BY VectorsAsLru
    <2>3. VectorMatvec(12, 0, 12) = Matvec(12, 12)
      BY VectorAsMatvec
    <2> QED
      BY <2>1, <2>2, <2>3 DEF Patch212, Reference, Residual
  <1>2. Patch1212 = Reference(12, 12)
    BY WaysAsReference DEF Patch1212
  <1>3. Patch1224 = Reference(12, 24) /\ Patch1224Tiled = Reference(12, 24)
    BY WaysAsReference DEF Patch1224, Patch1224Tiled
  <1>4. Patch2424 = Reference(24, 24) /\ Patch2424Tiled = Reference(24, 24)
    BY WaysAsReference DEF Patch2424, Patch2424Tiled
  <1> QED
    BY <1>1, <1>2, <1>3, <1>4

\* In the interior every fused routine updates the cells that layer_forward updates, each with
\* the weights of its position, and computes each cell as layer_forward does: which of them a
\* stage calls, tiled or not, changes nothing.
THEOREM FusedAsForward ==
  ASSUME NEW x \in Int, NEW y \in Int, NEW w \in Int, NEW h \in Int, Interior(x, y, w, h)
  PROVE  /\ S0L0Interior(x, y, w).visits = LayerForward(0, x, y, w, h).visits
         /\ \A run \in {S0L1Interior(x, y, w), S0L1InteriorStateOnly(x, y, w)} :
              run.visits = LayerForward(1, x, y, w, h).visits
         /\ \A run \in {S1L0Interior(x, y, w), S1L0InteriorTiled(x, y, w)} :
              /\ run.visits = LayerForward(2, x, y, w, h).visits
              /\ PatchOf(run.patch, 2) = PatchOf("generic", 2)
         /\ \A run \in {S1L1Interior(x, y, w), S1L1InteriorTiled(x, y, w)} :
              /\ run.visits = LayerForward(3, x, y, w, h).visits
              /\ PatchOf(run.patch, 3) = PatchOf("generic", 3)
         /\ S1L1InteriorTiledStateOnly(x, y, w).visits = LayerForward(3, x, y, w, h).visits
  <1>1. y * w + x \in Int
    OBVIOUS
  <1>2. FusedVisits(y * w + x, w) = UnrolledVisits(y * w + x, w)
    BY <1>1, FusedAsUnrolled
  <1>3. GenericVisits(x, y, w, h, 1) = {Visit(y * w + x, 0)}
    BY DEF GenericVisits
  <1>4. GenericVisits(x, y, w, h, 9) = FusedVisits(y * w + x, w)
    BY <1>2 DEF GenericVisits
  <1>5. NumPos(0) = 1 /\ NumPos(1) = 9 /\ NumPos(2) = 9 /\ NumPos(3) = 9
    BY DEF NumPos
  <1>6. InDim(2) = 12 /\ OutDim(2) = 24 /\ InDim(3) = 24 /\ OutDim(3) = 24
    BY DEF InDim, OutDim, Channels
  <1>7. /\ Generic(12, 24) = Reference(12, 24)
        /\ Generic(24, 24) = Reference(24, 24)
    BY WaysAsReference
  <1>8. /\ PatchOf("patch_12_24", 2) = PatchOf("generic", 2)
        /\ PatchOf("patch_12_24_tiled", 2) = PatchOf("generic", 2)
        /\ PatchOf("patch_24_24", 3) = PatchOf("generic", 3)
        /\ PatchOf("patch_24_24_tiled", 3) = PatchOf("generic", 3)
    BY <1>6, <1>7, FusedAsReference DEF PatchOf
  <1> QED
    BY <1>3, <1>4, <1>5, <1>8
       DEF LayerForward, Run, S0L0Interior, S0L1Interior, S0L1InteriorStateOnly, S1L0Interior,
           S1L0InteriorTiled, S1L1Interior, S1L1InteriorTiled, S1L1InteriorTiledStateOnly

\* The routines without an output leave the same hidden state: what they skip of the query and
\* of the gather is no part of it.
THEOREM StateOnlyKeepsState ==
  /\ StateUpdate(Patch1212StateOnly) = StateUpdate(Reference(12, 12))
  /\ StateUpdate(Patch2424TiledStateOnly) = StateUpdate(Reference(24, 24))
  <1>1. StateUpdate(Patch1212StateOnly) = StateUpdate(Reference(12, 12))
    <2>1. AllAtOnce(12, 12) = Reference(12, 12)
      BY WaysAsReference
    <2>2. /\ Patch1212StateOnly.qvg = Reference(12, 12).qvg
          /\ Patch1212StateOnly.lru = Reference(12, 12).lru
      BY <2>1 DEF Patch1212StateOnly, Reference
    <2> QED
      BY <2>2 DEF StateUpdate, RowOf
  <1>2. StateUpdate(Patch2424TiledStateOnly) = StateUpdate(Reference(24, 24))
    <2> DEFINE At(p, c, i) == [row |-> p * 24 + c, with |-> i, at |-> (p * 24 + c) * 24 + i]
    <2> DEFINE two == TiledRows(24, 24, 1 .. 2)
    <2> DEFINE three == TiledRows(24, 24, 0 .. 2)
    <2>1. \A k : k \in two
                  <=> \E p \in 1 .. 2, c \in 0 .. 24 - 1, i \in 0 .. 24 - 1 : k = At(p, c, i)
      <3>1. 1 .. 2 \in SUBSET (0 .. 2) /\ 24 \in Nat /\ 24 % 4 = 0
        OBVIOUS
      <3> QED
        BY <3>1, RowsOfTiles, ZenonT(60)
    <2>2. \A k : k \in three
                  <=> \E p \in 0 .. 2, c \in 0 .. 24 - 1, i \in 0 .. 24 - 1 : k = At(p, c, i)
      <3>1. 0 .. 2 \in SUBSET (0 .. 2) /\ 24 \in Nat /\ 24 % 4 = 0
        OBVIOUS
      <3> QED
        BY <3>1, RowsOfTiles, ZenonT(60)
    <2> HIDE DEF two, three
    <2>3. \A r \in 24 .. 71 : {k \in two : k.row = r} = {k \in three : k.row = r}
      <3> TAKE r \in 24 .. 71
      <3>1. ASSUME NEW k \in three, k.row = r PROVE k \in two
        <4>1. PICK p \in 0 .. 2, c \in 0 .. 24 - 1, i \in 0 .. 24 - 1 : k = At(p, c, i)
          BY <2>2
        <4>2. p * 24 + c = r
          BY <3>1, <4>1
        <4>3. p \in 1 .. 2
          BY <4>2
        <4> QED
          BY <2>1, <4>1, <4>3
      <3>2. two \subseteq three
        <4> SUFFICES ASSUME NEW k \in two PROVE k \in three
          OBVIOUS
        <4>1. PICK p \in 1 .. 2, c \in 0 .. 24 - 1, i \in 0 .. 24 - 1 : k = At(p, c, i)
          BY <2>1
        <4>2. p \in 0 .. 2
          OBVIOUS
        <4> QED
          BY <2>2, <4>1, <4>2, ZenonT(30)
      <3> QED
        BY <3>1, <3>2
    <2>4. Tiled(24, 24) = Reference(24, 24)
      BY WaysAsReference
    <2>5. Reference(24, 24).qvg = three /\ Patch2424TiledStateOnly.qvg = two
      BY <2>4 DEF Tiled, Patch2424TiledStateOnly, two, three
    <2>6. LruStep(24) = Lru(24)
      BY VectorsAsLru
    <2>7. Patch2424TiledStateOnly.lru = Lru(24) /\ Reference(24, 24).lru = Lru(24)
      BY <2>6 DEF Patch2424TiledStateOnly, Reference
    <2>8. \A r \in 24 .. 71 :
             RowOf(Patch2424TiledStateOnly, r) = RowOf(Reference(24, 24), r)
      BY <2>3, <2>5 DEF RowOf
    <2>9. \A u \in Lru(24) : u.v \in 24 .. 71 /\ u.g \in 24 .. 71
      BY DEF Lru
    <2> QED
      BY <2>7, <2>8, <2>9 DEF StateUpdate
  <1> QED
    BY <1>1, <1>2

-----------------------------------------------------------------------------
(* What the programs are run with: a sensor of whole cells of the last stage, one to four    *)
(* head levels, a window that divides the 256 values of a counter.                           *)
PipelineAssumption ==
  /\ Program \in {"decomp", "stage0", "shard"}
  /\ Pixels \in Seq(Int \X Int)
  /\ Program # "shard" => Halo = {}
  /\ W \in Nat \ {0} /\ H \in Nat \ {0} /\ W % 8 = 0 /\ H % 8 = 0
  /\ Levels \in 1 .. 4
  /\ Window \in Nat \ {0} /\ 256 % Window = 0
  /\ Warmup \in 0 .. Len(Pixels) /\ Every \in Nat

LEMMA LastStages ==
  ASSUME PipelineAssumption
  PROVE  /\ LastStage \in {0, 1, 3} /\ (Program = "decomp" => LastStage = 3)
         /\ Layers = 0 .. 2 * LastStage + 1
         /\ \A s \in 0 .. LastStage : 2 * s \in Layers /\ 2 * s + 1 \in Layers /\ s \in 0 .. 3
         /\ \A l \in Layers : l \div 2 \in 0 .. LastStage
                              /\ (l = 2 * (l \div 2) \/ l = 2 * (l \div 2) + 1)
  <1>1. Program \in {"decomp", "stage0", "shard"}
    BY DEF PipelineAssumption
  <1>2. /\ Program = "decomp" => LastStage = 3
        /\ Program = "stage0" => LastStage = 0
        /\ Program = "shard" => LastStage = 1
    BY DEF LastStage
  <1>3. LastStage \in {0, 1, 3}
    BY <1>1, <1>2
  <1> QED
    BY <1>2, <1>3 DEF Layers

LEMMA Powers == 2 ^ 0 = 1 /\ 2 ^ 1 = 2 /\ 2 ^ 2 = 4 /\ 2 ^ 3 = 8
  BY SMT

\* An extent that is a multiple of eight halves without a rest, and coordinates with it.
LEMMA Halved ==
  ASSUME NEW w \in Nat \ {0}, w % 8 = 0, NEW s \in 0 .. 3
  PROVE  /\ w \div 2 ^ s \in Nat \ {0}
         /\ \A x \in 0 .. w - 1 : x \div 2 ^ s \in 0 .. (w \div 2 ^ s) - 1
  <1>1. PICK a \in Nat : w = 8 * a
    BY w = 8 * (w \div 8) + (w % 8)
  <1>2. CASE s = 0
    BY <1>2, Powers
  <1>3. CASE s = 1
    BY <1>1, <1>3, Powers
  <1>4. CASE s = 2
    BY <1>1, <1>4, Powers
  <1>5. CASE s = 3
    BY <1>1, <1>5, Powers
  <1> QED
    BY <1>2, <1>3, <1>4, <1>5

LEMMA InputType ==
  ASSUME PipelineAssumption
  PROVE  /\ Inputs = 1 .. Len(Pixels) /\ Len(Pixels) \in Nat
         /\ \A e \in Inputs : Pixels[e][1] \in Int /\ Pixels[e][2] \in Int
                              /\ Pixels[e] = <<Pixels[e][1], Pixels[e][2]>>
         /\ \A e \in Inputs : InSensor(e) <=> Pixels[e][1] \in 0 .. W - 1 /\ Pixels[e][2] \in 0 .. H - 1
  <1>1. Pixels \in Seq(Int \X Int)
    BY DEF PipelineAssumption
  <1>2. Inputs = 1 .. Len(Pixels) /\ Len(Pixels) \in Nat
    BY <1>1 DEF Inputs
  <1>3. \A e \in Inputs : Pixels[e] \in Int \X Int
    BY <1>1, <1>2
  <1>4. \A e \in Inputs : Pixels[e][1] \in Int /\ Pixels[e][2] \in Int
                              /\ Pixels[e] = <<Pixels[e][1], Pixels[e][2]>>
    BY <1>3
  <1>5. \A a, b : \A p \in Int \X Int : p \in a \X b <=> p[1] \in a /\ p[2] \in b
    OBVIOUS
  <1>6. \A e \in Inputs : InSensor(e) <=> Pixels[e][1] \in 0 .. W - 1 /\ Pixels[e][2] \in 0 .. H - 1
    BY <1>3, <1>5 DEF InSensor
  <1> QED
    BY <1>2, <1>4, <1>6

LEMMA SizeType ==
  ASSUME PipelineAssumption, NEW s \in 0 .. 3
  PROVE  Ws(s) \in Nat \ {0} /\ Hs(s) \in Nat \ {0}
  BY Halved DEF PipelineAssumption, Ws, Hs

LEMMA CoordinateType ==
  ASSUME PipelineAssumption, NEW s \in 0 .. 3, NEW e \in Inputs, InSensor(e)
  PROVE  /\ X(e, s) \in 0 .. Ws(s) - 1 /\ Y(e, s) \in 0 .. Hs(s) - 1
         /\ CellAt(e, s) \in Grid(s)
  <1>1. X(e, s) \in 0 .. Ws(s) - 1 /\ Y(e, s) \in 0 .. Hs(s) - 1
    BY Halved, InputType DEF PipelineAssumption, Ws, Hs, X, Y
  <1> QED
    BY <1>1, SizeType, CellInArray DEF CellAt, Grid

\* Pixels in the sensor have one cell each at stage 0.
LEMMA OneCell ==
  ASSUME PipelineAssumption, NEW d \in Inputs, NEW e \in Inputs, InSensor(d), InSensor(e)
  PROVE  CellAt(d, 0) = CellAt(e, 0) <=> Pixels[d] = Pixels[e]
  <1>1. /\ X(d, 0) = Pixels[d][1] /\ Y(d, 0) = Pixels[d][2]
        /\ X(e, 0) = Pixels[e][1] /\ Y(e, 0) = Pixels[e][2]
    BY Powers, InputType DEF X, Y
  <1>2. CellAt(d, 0) = CellAt(e, 0) => Y(d, 0) = Y(e, 0) /\ X(d, 0) = X(e, 0)
    <2>1. /\ X(d, 0) \in 0 .. Ws(0) - 1 /\ X(e, 0) \in 0 .. Ws(0) - 1
          /\ Y(d, 0) \in Int /\ Y(e, 0) \in Int /\ Ws(0) \in Nat
      BY CoordinateType, SizeType
    <2> QED
      BY <2>1, RowsDisjoint DEF CellAt
  <1>3. CellAt(d, 0) = CellAt(e, 0) => Pixels[d] = Pixels[e]
    BY <1>1, <1>2, InputType
  <1>4. Pixels[d] = Pixels[e] => CellAt(d, 0) = CellAt(e, 0)
    BY DEF CellAt, X, Y
  <1> QED
    BY <1>3, <1>4
-----------------------------------------------------------------------------
(* One stage, one cell. *)

\* What an event leaves in a cell of a layer: nothing, or itself with one position of weights.
Left(l, x, y, cx, cy) == IF l = 0 THEN x = cx /\ y = cy ELSE Near(x, cx) /\ Near(y, cy)
With(l, x, y, cx, cy) == IF l = 0 THEN 0 ELSE (1 - (cy - y)) * 3 + (1 - (cx - x))

PositionsIn(V, c) == {u.pos : u \in {v \in V : v.cell = c}}

LEMMA VisitsOfCell ==
  ASSUME NEW l \in Nat, NEW w \in Nat \ {0}, NEW h \in Nat \ {0},
         NEW x \in 0 .. w - 1, NEW y \in 0 .. h - 1,
         NEW cx \in 0 .. w - 1, NEW cy \in 0 .. h - 1
  PROVE  PositionsIn(LayerForward(l, x, y, w, h).visits, cy * w + cx)
           = IF Left(l, x, y, cx, cy) THEN {With(l, x, y, cx, cy)} ELSE {}
  <1> DEFINE V == LayerForward(l, x, y, w, h).visits
             c == cy * w + cx
  <1> SUFFICES {u.pos : u \in {v \in V : v.cell = c}}
                 = IF Left(l, x, y, cx, cy) THEN {With(l, x, y, cx, cy)} ELSE {}
    BY DEF PositionsIn
  <1>1. CASE l = 0
    <2>1. V = {Visit(y * w + x, 0)}
      BY <1>1 DEF LayerForward, Run, NumPos, GenericVisits
    <2>2. y * w + x = cy * w + cx <=> x = cx /\ y = cy
      BY RowsDisjoint
    <2>3. \A v \in V : v = Visit(y * w + x, 0) /\ v.cell = y * w + x /\ v.pos = 0
      BY <2>1 DEF Visit
    <2> HIDE DEF V
    <2>4. CASE x = cx /\ y = cy
      <3>1. {v \in V : v.cell = c} = {Visit(y * w + x, 0)}
        BY <2>1, <2>2, <2>3, <2>4
      <3>2. {u.pos : u \in {Visit(y * w + x, 0)}} = {0}
        BY DEF Visit
      <3>3. {u.pos : u \in {v \in V : v.cell = c}} = {0}
        BY <3>1, <3>2
      <3>4. Left(l, x, y, cx, cy) /\ With(l, x, y, cx, cy) = 0
        BY <1>1, <2>4 DEF Left, With
      <3> HIDE DEF c
      <3> QED
        BY <3>3, <3>4 DEF V, c
    <2>5. CASE ~(x = cx /\ y = cy)
      <3>1. {v \in V : v.cell = c} = {}
        BY <2>2, <2>3, <2>5
      <3>2. {u.pos : u \in {v \in V : v.cell = c}} = {}
        BY <3>1
      <3>3. ~Left(l, x, y, cx, cy)
        BY <1>1, <2>5 DEF Left
      <3> HIDE DEF c
      <3> QED
        BY <3>2, <3>3 DEF V, c
    <2> QED
      BY <2>4, <2>5
  <1>2. CASE l # 0
    <2>1. V = ClippedVisits(x, y, w, h)
      <3>1. V = GenericVisits(x, y, w, h, 9)
        BY <1>2 DEF LayerForward, Run, NumPos
      <3>2. CASE Interior(x, y, w, h)
        BY <3>1, <3>2, InteriorAsClipped, FusedAsUnrolled, y * w + x \in Int DEF GenericVisits
      <3>3. CASE ~Interior(x, y, w, h)
        BY <3>1, <3>3 DEF GenericVisits
      <3> QED
        BY <3>2, <3>3
    <2>2. ASSUME NEW v \in V, v.cell = c
          PROVE  Left(l, x, y, cx, cy) /\ v.pos = With(l, x, y, cx, cy)
      <3>1. PICK d \in Offsets : /\ x + d[1] \in 0 .. w - 1 /\ y + d[2] \in 0 .. h - 1
                                 /\ v = Visit((y + d[2]) * w + (x + d[1]), Position(d))
        BY <2>1 DEF ClippedVisits
      <3>2. (y + d[2]) * w + (x + d[1]) = cy * w + cx /\ v.pos = Position(d)
        BY <2>2, <3>1 DEF Visit
      <3>3. y + d[2] = cy /\ x + d[1] = cx
        <4> DEFINE p == x + d[1]
                   r == y + d[2]
        <4>1. p \in 0 .. w - 1 /\ r \in Int /\ cy \in Int /\ w \in Nat
          BY <3>1, OffsetType
        <4>2. r * w + p = cy * w + cx
          BY <3>2
        <4> HIDE DEF p, r
        <4>3. r = cy /\ p = cx
          BY <4>1, <4>2, RowsDisjoint
        <4> QED
          BY <4>3 DEF p, r
      <3>4. d[1] = cx - x /\ d[2] = cy - y /\ d[1] \in {-1, 0, 1} /\ d[2] \in {-1, 0, 1}
        BY <3>3, OffsetType
      <3> QED
        BY <1>2, <3>2, <3>4 DEF Left, With, Near, Position
    <2>3. ASSUME Left(l, x, y, cx, cy)
          PROVE  \E v \in V : v.cell = c /\ v.pos = With(l, x, y, cx, cy)
      <3> DEFINE d == <<cx - x, cy - y>>
      <3>1. d \in Offsets
        BY <1>2, <2>3 DEF Left, Near, Offsets
      <3>2. x + d[1] = cx /\ y + d[2] = cy /\ Position(d) = With(l, x, y, cx, cy)
        BY <1>2 DEF Position, With
      <3> HIDE DEF d
      <3>3. Visit((y + d[2]) * w + (x + d[1]), Position(d)) \in V
        BY <2>1, <3>1, <3>2 DEF ClippedVisits
      <3>4. Visit(c, With(l, x, y, cx, cy)) \in V
        BY <3>2, <3>3
      <3> HIDE DEF V
      <3> QED
        BY <3>4 DEF Visit
    <2> HIDE DEF V, c
    <2>4. CASE Left(l, x, y, cx, cy)
      <3>1. {u.pos : u \in {v \in V : v.cell = c}} = {With(l, x, y, cx, cy)}
        BY <2>2, <2>3, <2>4
      <3> QED
        BY <2>4, <3>1 DEF V, c
    <2>5. CASE ~Left(l, x, y, cx, cy)
      <3>1. {v \in V : v.cell = c} = {}
        BY <2>2, <2>5
      <3>2. {u.pos : u \in {v \in V : v.cell = c}} = {}
        BY <3>1
      <3> QED
        BY <2>5, <3>2 DEF V, c
    <2> QED
      BY <2>4, <2>5
  <1> QED
    BY <1>1, <1>2

LEMMA InteriorVisits ==
  ASSUME NEW x \in Int, NEW y \in Int, NEW w \in Int, NEW h \in Int, Interior(x, y, w, h)
  PROVE  /\ S0L0Interior(x, y, w).visits = LayerForward(0, x, y, w, h).visits
         /\ S0L1Interior(x, y, w).visits = LayerForward(1, x, y, w, h).visits
         /\ S0L1InteriorStateOnly(x, y, w).visits = LayerForward(1, x, y, w, h).visits
         /\ S1L0InteriorTiled(x, y, w).visits = LayerForward(2, x, y, w, h).visits
         /\ S1L1InteriorTiled(x, y, w).visits = LayerForward(3, x, y, w, h).visits
         /\ S1L1InteriorTiledStateOnly(x, y, w).visits = LayerForward(3, x, y, w, h).visits
  BY FusedAsForward

\* Whatever code runs a stage, the cells are those of the generic code.
LEMMA LayeredVisits ==
  ASSUME PipelineAssumption, NEW s \in 0 .. 3, NEW e \in Inputs, InSensor(e)
  PROVE  /\ Layered(e, s)[1].visits = LayerForward(2 * s, X(e, s), Y(e, s), Ws(s), Hs(s)).visits
         /\ Layered(e, s)[2].visits = LayerForward(2 * s + 1, X(e, s), Y(e, s), Ws(s), Hs(s)).visits
  <1> DEFINE x == X(e, s)
             y == Y(e, s)
             w == Ws(s)
             h == Hs(s)
  <1>1. x \in Int /\ y \in Int /\ w \in Int /\ h \in Int
    BY CoordinateType, SizeType
  <1> HIDE DEF x, y, w, h
  <1>2. ASSUME NEW runs, runs = StageForward(s, x, y, w, h) \/ runs = StageForwardStateOnly(s, x, y, w, h)
        PROVE  /\ runs[1].visits = LayerForward(2 * s, x, y, w, h).visits
               /\ runs[2].visits = LayerForward(2 * s + 1, x, y, w, h).visits
    <2>0. Interior(x, y, w, h) =>
            /\ S0L0Interior(x, y, w).visits = LayerForward(0, x, y, w, h).visits
            /\ S0L1Interior(x, y, w).visits = LayerForward(1, x, y, w, h).visits
            /\ S0L1InteriorStateOnly(x, y, w).visits = LayerForward(1, x, y, w, h).visits
            /\ S1L0InteriorTiled(x, y, w).visits = LayerForward(2, x, y, w, h).visits
            /\ S1L1InteriorTiled(x, y, w).visits = LayerForward(3, x, y, w, h).visits
            /\ S1L1InteriorTiledStateOnly(x, y, w).visits = LayerForward(3, x, y, w, h).visits
      BY <1>1, InteriorVisits
    <2>1. CASE s = 0 /\ Interior(x, y, w, h)
      <3>1. /\ runs[1] = S0L0Interior(x, y, w)
            /\ runs[2] \in {S0L1Interior(x, y, w), S0L1InteriorStateOnly(x, y, w)}
        BY <1>2, <2>1 DEF StageForward, StageForwardStateOnly
      <3>2. 2 * s = 0 /\ 2 * s + 1 = 1
        BY <2>1
      <3> QED
        BY <2>0, <2>1, <3>1, <3>2
    <2>2. CASE s = 1 /\ Interior(x, y, w, h)
      <3>1. /\ runs[1] = S1L0InteriorTiled(x, y, w)
            /\ runs[2] \in {S1L1InteriorTiled(x, y, w), S1L1InteriorTiledStateOnly(x, y, w)}
        BY <1>2, <2>2 DEF StageForward, StageForwardStateOnly
      <3>2. 2 * s = 2 /\ 2 * s + 1 = 3
        BY <2>2
      <3> QED
        BY <2>0, <2>2, <3>1, <3>2
    <2>3. CASE ~((s = 0 \/ s = 1) /\ Interior(x, y, w, h))
      <3>1. runs = <<LayerForward(2 * s, x, y, w, h), LayerForward(2 * s + 1, x, y, w, h)>>
        BY <1>2, <2>3 DEF StageForward, StageForwardStateOnly
      <3> QED
        BY <3>1
    <2> QED
      BY <2>1, <2>2, <2>3
  <1>3. \/ Layered(e, s) = StageForward(s, x, y, w, h)
        \/ Layered(e, s) = StageForwardStateOnly(s, x, y, w, h)
    BY DEF Layered, x, y, w, h
  <1>4. /\ Layered(e, s)[1].visits = LayerForward(2 * s, x, y, w, h).visits
        /\ Layered(e, s)[2].visits = LayerForward(2 * s + 1, x, y, w, h).visits
    BY <1>2, <1>3
  <1> QED
    BY <1>4 DEF x, y, w, h

LEMMA OneOrNone ==
  /\ SetToSeq({}) = <<>>
  /\ \A a : SetToSeq({a}) = <<a>>
  <1>1. SetToSeq({}) = <<>>
    <2>1. Cardinality({}) = 0
      BY FS_EmptySet
    <2>2. \A f : f \in [1 .. 0 -> {}] => f = <<>>
      OBVIOUS
    <2>3. <<>> \in [1 .. 0 -> {}] /\ IsInjective(<<>>)
      BY DEF IsInjective
    <2> QED
      BY <2>1, <2>2, <2>3 DEF SetToSeq
  <1>2. ASSUME NEW a PROVE SetToSeq({a}) = <<a>>
    <2>1. Cardinality({a}) = 1
      BY FS_Singleton
    <2>2. \A f : f \in [1 .. 1 -> {a}] /\ IsInjective(f) <=> f = <<a>>
      BY DEF IsInjective
    <2> QED
      BY <2>1, <2>2 DEF SetToSeq
  <1> QED
    BY <1>1, <1>2
-----------------------------------------------------------------------------
(* The reference: what one event's end is made of. *)

Results == [s : -1 .. 3, passed : BOOLEAN]
\* The events before e that reached the counter of its pooled cell behind stage s.
BeforeIn(ends, e, s) == {d \in 1 .. e - 1 : /\ InSensor(d) /\ ends[d].s >= s /\ d \notin Halo
                                            /\ CellAt(d, s + 1) = CellAt(e, s + 1)}
DropsIn(ends, e) == {s \in 0 .. LastStage : \/ e \in Halo
                                            \/ s <= 2 /\ Cardinality(BeforeIn(ends, e, s)) % Window # 0}
First(drops) == CHOOSE s \in drops : \A t \in drops : s <= t
EndIn(ends, e) ==
  IF ~InSensor(e) THEN [s |-> -1, passed |-> FALSE]
  ELSE IF DropsIn(ends, e) = {} THEN [s |-> LastStage, passed |-> TRUE]
  ELSE [s |-> First(DropsIn(ends, e)), passed |-> FALSE]

LEMMA FirstIs ==
  ASSUME NEW drops, drops # {}, NEW n \in Nat, drops \subseteq 0 .. n
  PROVE  First(drops) \in drops /\ \A t \in drops : First(drops) <= t
  <1>1. drops \subseteq Nat
    OBVIOUS
  <1>2. \E s \in drops : \A t \in drops : s <= t
    BY <1>1, LeastNat
  <1> QED
    BY <1>2 DEF First

LEMMA EndType ==
  ASSUME PipelineAssumption, NEW ends, NEW e
  PROVE  EndIn(ends, e) \in Results
  <1>1. LastStage \in 0 .. 3
    BY LastStages
  <1>2. DropsIn(ends, e) # {} => First(DropsIn(ends, e)) \in 0 .. LastStage
    BY <1>1, FirstIs DEF DropsIn
  <1> QED
    BY <1>1, <1>2 DEF EndIn, Results

\* The recursive definition of the ends is one.
LEMMA EndsIs ==
  ASSUME PipelineAssumption
  PROVE  /\ Ends \in [Inputs -> Results]
         /\ \A e \in Inputs : Ends[e] = EndIn(Ends, e)
  <1> DEFINE Tables == [Nat -> Results]
             none == [e \in Nat |-> [s |-> -1, passed |-> FALSE]]
             step == [a \in Tables \X Nat |-> [a[1] EXCEPT ![a[2] + 1] = EndIn(a[1], a[2] + 1)]]
  <1>1. none \in Tables
    BY DEF Results
  <1>2. step \in Steps(Tables)
    BY EndType DEF Steps
  <1>3. PICK f : Follows(f, Tables, none, step)
    <2> HIDE DEF Tables, none, step
    <2> QED
      BY <1>1, <1>2, Recursion
  <1>4. \A n \in Nat : /\ f[n] \in Tables
                       /\ f[n + 1] = [f[n] EXCEPT ![n + 1] = EndIn(f[n], n + 1)]
    BY <1>3 DEF Follows
  <1> DEFINE h == [e \in Inputs |-> f[e][e]]
             Kept == {n \in Nat : \A d \in 1 .. n : f[n][d] = f[d][d]}
  <1>5. 0 \in Kept
    OBVIOUS
  <1>6. ASSUME NEW n \in Nat, n \in Kept PROVE n + 1 \in Kept
    <2> SUFFICES ASSUME NEW d \in 1 .. n + 1 PROVE f[n + 1][d] = f[d][d]
      OBVIOUS
    <2>1. CASE d = n + 1
      BY <2>1
    <2>2. CASE d # n + 1
      <3>1. d \in 1 .. n /\ d \in Nat
        BY <2>2
      <3>2. f[n + 1][d] = f[n][d]
        BY <1>4, <2>2, <3>1
      <3> QED
        BY <1>6, <3>1, <3>2
    <2> QED
      BY <2>1, <2>2
  <1>7. Nat \subseteq Kept
    <2> HIDE DEF Kept
    <2> QED
      BY <1>5, <1>6, SetInduction
  <1>8. Inputs = 1 .. Len(Pixels) /\ Len(Pixels) \in Nat
    BY InputType
  <1>9. ASSUME NEW e \in Inputs PROVE h[e] = EndIn(h, e) /\ h[e] \in Results
    <2>1. e \in Nat /\ e - 1 \in Nat /\ (e - 1) + 1 = e
      BY <1>8
    <2>2. f[e][e] = EndIn(f[e - 1], e)
      BY <1>4, <2>1
    <2>3. \A d \in 1 .. e - 1 : f[e - 1][d] = h[d]
      BY <1>7, <1>8, <2>1
    <2> HIDE DEF h
    <2>4. \A s : BeforeIn(f[e - 1], e, s) = BeforeIn(h, e, s)
      BY <2>3 DEF BeforeIn
    <2>5. EndIn(f[e - 1], e) = EndIn(h, e)
      <3>1. DropsIn(f[e - 1], e) = DropsIn(h, e)
        BY <2>4 DEF DropsIn
      <3> QED
        BY <3>1 DEF EndIn
    <2>6. h[e] = f[e][e]
      BY DEF h
    <2> QED
      BY <2>2, <2>5, <2>6, EndType
  <1>10. h = [e \in Inputs |-> EndIn(h, e)]
    BY <1>9
  <1>11. Ends = CHOOSE g : g = [e \in Inputs |-> EndIn(g, e)]
    BY DEF Ends, EndIn, DropsIn, BeforeIn, First
  <1> HIDE DEF h
  <1>12. Ends = [e \in Inputs |-> EndIn(Ends, e)]
    BY <1>10, <1>11
  <1> QED
    BY <1>12, EndType

Drops(e) == DropsIn(Ends, e)

\* How far an event gets: a stage that drops it is its last.
Reaches(e, end) ==
  /\ end.s \in -1 .. LastStage /\ end.passed \in BOOLEAN
  /\ end.s >= 0 <=> InSensor(e)
  /\ ~InSensor(e) => ~end.passed
  /\ \A s \in 0 .. LastStage : end.s >= s =>
       /\ s \in Drops(e) => end.s = s /\ ~end.passed
       /\ s \notin Drops(e) => IF s < LastStage THEN end.s >= s + 1 ELSE end.passed
  /\ end.passed => end.s = LastStage

LEMMA EndFacts ==
  ASSUME PipelineAssumption, NEW e \in Inputs
  PROVE  Reaches(e, Ends[e])
  <1>1. Ends[e] = EndIn(Ends, e) /\ LastStage \in 0 .. 3
    BY EndsIs, LastStages
  <1>2. Drops(e) \subseteq 0 .. LastStage
    BY DEF Drops, DropsIn
  <1>3. CASE ~InSensor(e)
    <2>1. Ends[e] = [s |-> -1, passed |-> FALSE]
      BY <1>1, <1>3 DEF EndIn
    <2>2. Reaches(e, [s |-> -1, passed |-> FALSE])
      BY <1>1, <1>3 DEF Reaches
    <2> QED
      BY <2>1, <2>2
  <1>4. CASE InSensor(e) /\ Drops(e) = {}
    <2>1. Ends[e] = [s |-> LastStage, passed |-> TRUE]
      BY <1>1, <1>4 DEF EndIn, Drops
    <2>2. Reaches(e, [s |-> LastStage, passed |-> TRUE])
      BY <1>1, <1>4 DEF Reaches
    <2> QED
      BY <2>1, <2>2
  <1>5. CASE InSensor(e) /\ Drops(e) # {}
    <2> DEFINE first == First(Drops(e))
    <2>1. Ends[e] = [s |-> first, passed |-> FALSE]
      BY <1>1, <1>5 DEF EndIn, Drops
    <2>2. first \in Drops(e) /\ \A t \in Drops(e) : first <= t
      BY <1>1, <1>2, <1>5, FirstIs
    <2> HIDE DEF first
    <2>3. first \in 0 .. LastStage
      BY <1>2, <2>2
    <2>4. ASSUME NEW s \in 0 .. LastStage, first >= s
          PROVE  /\ s \in Drops(e) => first = s
                 /\ s \notin Drops(e) => s < LastStage /\ first >= s + 1
      <3>1. s \in Drops(e) => first <= s
        BY <2>2
      <3>2. s \notin Drops(e) => first # s
        BY <2>2
      <3> QED
        BY <1>1, <2>3, <2>4, <3>1, <3>2
    <2>5. Reaches(e, [s |-> first, passed |-> FALSE])
      BY <1>1, <1>5, <2>3, <2>4 DEF Reaches
    <2> QED
      BY <2>1, <2>5
  <1> QED
    BY <1>3, <1>4, <1>5
-----------------------------------------------------------------------------
(* The state, and what an event in a given place has behind it. *)

Updates == Nat \X Int
CellsOf(l) == [Grid(l \div 2) -> Seq(Updates)]
HiddenType == {h \in [Layers -> UNION {CellsOf(l) : l \in Layers}] : \A l \in Layers : h[l] \in CellsOf(l)}
CountersOf(s) == [Grid(s + 1) -> Nat]
TdropType == {f \in [0 .. 2 -> UNION {CountersOf(s) : s \in 0 .. 2}] : \A s \in 0 .. 2 : f[s] \in CountersOf(s)}
Rows == 0 .. RowOffset(4) - 1
LogType == [hidden : HiddenType, tdrop : TdropType, lastT : [Grid(0) -> Nat], preds : [Rows -> Nat]]
ThrType == [e : Nat, at : {"next", "stage", "out", "over"}, s : 0 .. 4, dt : Nat, fed : BOOLEAN,
            measuring : BOOLEAN, pass : Nat, oob : Nat]
TypeInv == log \in LogType /\ thr \in ThrType /\ snaps \in Seq(Nat \X [Rows -> Nat])

BeenAt(t, e, s) == /\ \/ e < t.e
                      \/ e = t.e /\ t.at # "next" /\ t.s > s
                   /\ Ends[e].s >= s
PositionOf(e, l, x, y) == With(l, X(e, l \div 2), Y(e, l \div 2), x, y)
TakesAt(t, e, l, x, y) == BeenAt(t, e, l \div 2) /\ Left(l, X(e, l \div 2), Y(e, l \div 2), x, y)
Taken(t, l, x, y) == {<<e, PositionOf(e, l, x, y)>> : e \in {d \in Inputs : TakesAt(t, d, l, x, y)}}
CellTakes(cell, t, l, x, y) == InOrder(cell) /\ Entries(cell) = Taken(t, l, x, y)
AppliedIn(hidden, t) ==
  \A l \in Layers : \A x \in 0 .. Ws(l \div 2) - 1, y \in 0 .. Hs(l \div 2) - 1 :
    CellTakes(hidden[l][y * Ws(l \div 2) + x], t, l, x, y)

LEMMA AppliedSame == AppliedOnce <=> AppliedIn(log.hidden, thr)
  BY DEF AppliedOnce, AppliedIn, CellTakes, Taken, TakesAt, Takes, PosOf, PositionOf, BeenAt, Been,
         Left, With

LEMMA AppendKeeps ==
  ASSUME NEW S, NEW cell \in Seq(S), NEW new
  PROVE  /\ Len(Append(cell, new)) = Len(cell) + 1 /\ Append(cell, new)[Len(cell) + 1] = new
         /\ \A i \in 1 .. Len(cell) : Append(cell, new)[i] = cell[i]
         /\ DOMAIN Append(cell, new) = 1 .. Len(cell) + 1 /\ DOMAIN cell = 1 .. Len(cell)
         /\ Len(cell) \in Nat
  <1>1. cell \in Seq(S \cup {new}) /\ new \in S \cup {new}
    OBVIOUS
  <1>2. Append(cell, new) \in Seq(S \cup {new})
    BY <1>1
  <1> QED
    BY <1>1, <1>2

\* A cell that an event reaches has it at its end, one that it does not reach is as before.
LEMMA CellGrows ==
  ASSUME PipelineAssumption, NEW l \in Layers,
         NEW x \in 0 .. Ws(l \div 2) - 1, NEW y \in 0 .. Hs(l \div 2) - 1,
         NEW t, NEW u, NEW e \in Inputs, NEW cell \in Seq(Updates), CellTakes(cell, t, l, x, y),
         \A d \in Inputs : BeenAt(u, d, l \div 2) <=> BeenAt(t, d, l \div 2) \/ d = e,
         \A d \in Inputs : BeenAt(t, d, l \div 2) => d < e
  PROVE  CellTakes(IF Left(l, X(e, l \div 2), Y(e, l \div 2), x, y)
                   THEN Append(cell, <<e, PositionOf(e, l, x, y)>>) ELSE cell, u, l, x, y)
  <1> DEFINE hit == Left(l, X(e, l \div 2), Y(e, l \div 2), x, y)
             new == <<e, PositionOf(e, l, x, y)>>
             more == Append(cell, new)
  <1>1. CASE ~hit
    <2>1. \A d \in Inputs : TakesAt(u, d, l, x, y) <=> TakesAt(t, d, l, x, y)
      BY <1>1 DEF TakesAt
    <2>2. Taken(u, l, x, y) = Taken(t, l, x, y)
      BY <2>1 DEF Taken
    <2> QED
      BY <1>1, <2>2 DEF CellTakes
  <1>2. CASE hit
    <2>1. \A d \in Inputs : TakesAt(u, d, l, x, y) <=> TakesAt(t, d, l, x, y) \/ d = e
      BY <1>2 DEF TakesAt
    <2>2. Taken(u, l, x, y) = Taken(t, l, x, y) \cup {new}
      BY <2>1 DEF Taken
    <2>3. \A i \in 1 .. Len(cell) : cell[i] \in Taken(t, l, x, y)
      BY DEF CellTakes, Entries
    <2>4. \A i \in 1 .. Len(cell) : cell[i][1] \in Inputs /\ cell[i][1] < e
      BY <2>3 DEF Taken, TakesAt
    <2>5. /\ Len(more) = Len(cell) + 1 /\ more[Len(cell) + 1] = new
          /\ \A i \in 1 .. Len(cell) : more[i] = cell[i]
          /\ DOMAIN more = 1 .. Len(cell) + 1 /\ DOMAIN cell = 1 .. Len(cell) /\ Len(cell) \in Nat
      <3> HIDE DEF new
      <3> QED
        BY AppendKeeps
    <2> HIDE DEF more
    <2>6. InOrder(more)
      <3> SUFFICES ASSUME NEW i \in 1 .. Len(cell) + 1, NEW j \in 1 .. i - 1 PROVE more[j][1] < more[i][1]
        BY <2>5 DEF InOrder
      <3>1. j \in 1 .. Len(cell)
        BY <2>5
      <3>2. CASE i = Len(cell) + 1
        BY <2>4, <2>5, <3>1, <3>2
      <3>3. CASE i # Len(cell) + 1
        <4>1. i \in DOMAIN cell
          BY <2>5, <3>3
        <4>2. cell[j][1] < cell[i][1]
          BY <4>1 DEF CellTakes, InOrder
        <4> QED
          BY <2>5, <3>1, <4>1, <4>2
      <3> QED
        BY <3>2, <3>3
    <2>7. Entries(more) = Entries(cell) \cup {new}
      <3> HIDE DEF new
      <3>1. Entries(more) = {more[i] : i \in 1 .. Len(cell) + 1}
        BY <2>5 DEF Entries
      <3>2. \A i \in 1 .. Len(cell) + 1 : i \in 1 .. Len(cell) \/ i = Len(cell) + 1
        BY <2>5
      <3>3. \A i \in 1 .. Len(cell) : i \in 1 .. Len(cell) + 1
        BY <2>5
      <3>4. Entries(cell) = {cell[i] : i \in 1 .. Len(cell)}
        BY <2>5 DEF Entries
      <3>5. \A v \in Entries(more) : v \in Entries(cell) \cup {new}
        BY <2>5, <3>1, <3>2, <3>4
      <3>6. \A v \in Entries(cell) : v \in Entries(more)
        BY <2>5, <3>1, <3>3, <3>4
      <3>7. new \in Entries(more)
        BY <2>5, <3>1
      <3> QED
        BY <3>5, <3>6, <3>7
    <2> QED
      BY <1>2, <2>2, <2>6, <2>7 DEF CellTakes, more
  <1> QED
    BY <1>1, <1>2

\* Every index of a grid is of one row and one column of it.
LEMMA RowAndColumn ==
  ASSUME NEW w \in Nat \ {0}, NEW h \in Nat, NEW c \in 0 .. w * h - 1
  PROVE  \E x \in 0 .. w - 1, y \in 0 .. h - 1 : c = y * w + x
  <1> DEFINE y == c \div w
             x == c % w
  <1>1. c \in Nat /\ w * h \in Nat
    OBVIOUS
  <1>2. y \in Nat /\ x \in Nat /\ x < w /\ c = w * y + x
    BY <1>1, RemainderIs
  <1> HIDE DEF x, y
  <1>3. w * y = y * w /\ w * y \in Nat /\ h * w = w * h
    BY <1>2
  <1>4. y * w <= c /\ c < h * w
    BY <1>1, <1>2, <1>3
  <1>5. y < h
    BY <1>1, <1>2, <1>4, QuotientBelow
  <1>6. x \in 0 .. w - 1 /\ y \in 0 .. h - 1 /\ c = y * w + x
    BY <1>2, <1>3, <1>5
  <1> QED
    BY <1>6

\* What an event leaves in a cell, by the positions it visits the cell with.
EntriesOf(e, V, c) == {<<e, v.pos>> : v \in {u \in V : u.cell = c}}

LEMMA EntryOfCell ==
  ASSUME NEW V, NEW c, NEW e
  PROVE  /\ \A p : PositionsIn(V, c) = {p} => EntriesOf(e, V, c) = {<<e, p>>}
         /\ PositionsIn(V, c) = {} => EntriesOf(e, V, c) = {}
  <1>1. ASSUME NEW p, PositionsIn(V, c) = {p} PROVE EntriesOf(e, V, c) = {<<e, p>>}
    <2>1. \A v \in V : v.cell = c => v.pos = p
      BY <1>1 DEF PositionsIn
    <2>2. \E v \in V : v.cell = c
      BY <1>1 DEF PositionsIn
    <2> QED
      BY <2>1, <2>2 DEF EntriesOf
  <1>2. PositionsIn(V, c) = {} => EntriesOf(e, V, c) = {}
    BY DEF PositionsIn, EntriesOf
  <1> QED
    BY <1>1, <1>2

LEMMA AppendIs ==
  ASSUME NEW S, NEW cell \in Seq(S), NEW new
  PROVE  cell \o <<new>> = Append(cell, new)
  OBVIOUS

LEMMA AppendType ==
  ASSUME NEW S, NEW cell \in Seq(S), NEW new \in S
  PROVE  Append(cell, new) \in Seq(S)
  OBVIOUS

LEMMA UpdatedCell ==
  ASSUME PipelineAssumption, NEW i \in 1 .. 2, NEW s \in 0 .. LastStage, NEW e \in Inputs, InSensor(e),
         NEW l, l = 2 * s + i - 1, NEW cells \in CellsOf(l),
         NEW x \in 0 .. Ws(s) - 1, NEW y \in 0 .. Hs(s) - 1
  PROVE  /\ y * Ws(s) + x \in Grid(s)
         /\ Updated(cells, e, Layered(e, s)[i].visits)[y * Ws(s) + x] =
              IF Left(l, X(e, s), Y(e, s), x, y)
              THEN Append(cells[y * Ws(s) + x], <<e, With(l, X(e, s), Y(e, s), x, y)>>)
              ELSE cells[y * Ws(s) + x]
  <1> DEFINE c == y * Ws(s) + x
             V == Layered(e, s)[i].visits
             hit == Left(l, X(e, s), Y(e, s), x, y)
             pos == With(l, X(e, s), Y(e, s), x, y)
  <1>1. /\ s \in 0 .. 3 /\ l \in Nat /\ l \div 2 = s
    BY LastStages
  <1>2. /\ X(e, s) \in 0 .. Ws(s) - 1 /\ Y(e, s) \in 0 .. Hs(s) - 1
        /\ Ws(s) \in Nat \ {0} /\ Hs(s) \in Nat \ {0}
    BY <1>1, CoordinateType, SizeType
  <1>3. V = LayerForward(l, X(e, s), Y(e, s), Ws(s), Hs(s)).visits
    BY <1>1, LayeredVisits
  <1>4. c \in Grid(s)
    BY <1>2, CellInArray DEF Grid
  <1>5. PositionsIn(V, c) = IF hit THEN {pos} ELSE {}
    <2> DEFINE w == Ws(s)
               h == Hs(s)
               a == X(e, s)
               b == Y(e, s)
    <2>1. /\ w \in Nat \ {0} /\ h \in Nat \ {0} /\ a \in 0 .. w - 1 /\ b \in 0 .. h - 1
          /\ x \in 0 .. w - 1 /\ y \in 0 .. h - 1
      BY <1>2
    <2> HIDE DEF w, h, a, b
    <2>2. PositionsIn(LayerForward(l, a, b, w, h).visits, y * w + x)
            = IF Left(l, a, b, x, y) THEN {With(l, a, b, x, y)} ELSE {}
      BY <1>1, <2>1, VisitsOfCell
    <2> QED
      BY <1>3, <2>2 DEF w, h, a, b
  <1>6. cells[c] \in Seq(Updates) /\ DOMAIN cells = Grid(s)
    BY <1>1, <1>4 DEF CellsOf
  <1> HIDE DEF c, V, hit, pos
  <1>7. Updated(cells, e, V)[c] = cells[c] \o SetToSeq(EntriesOf(e, V, c))
    BY <1>4, <1>6 DEF Updated, EntriesOf
  <1>8. CASE hit
    <2>1. PositionsIn(V, c) = {pos}
      BY <1>5, <1>8
    <2>2. EntriesOf(e, V, c) = {<<e, pos>>}
      BY <2>1, EntryOfCell
    <2>4. Updated(cells, e, V)[c] = cells[c] \o <<<<e, pos>>>>
      BY <1>7, <2>2, OneOrNone
    <2>5. Updated(cells, e, V)[c] = Append(cells[c], <<e, pos>>)
      BY <1>6, <2>4, AppendIs
    <2> QED
      BY <1>4, <1>8, <2>5 DEF c, V, hit, pos
  <1>9. CASE ~hit
    <2>1. PositionsIn(V, c) = {}
      BY <1>5, <1>9
    <2>2. EntriesOf(e, V, c) = {}
      BY <2>1, EntryOfCell
    <2>4. Updated(cells, e, V)[c] = cells[c] \o <<>>
      BY <1>7, <2>2, OneOrNone
    <2>5. Updated(cells, e, V)[c] = cells[c]
      BY <1>6, <2>4, ConcatEmptySeq
    <2> QED
      BY <1>4, <1>9, <2>5 DEF c, V, hit, pos
  <1> QED
    BY <1>8, <1>9

LEMMA UpdatedType ==
  ASSUME PipelineAssumption, NEW i \in 1 .. 2, NEW s \in 0 .. LastStage, NEW e \in Inputs, InSensor(e),
         NEW l, l = 2 * s + i - 1, NEW cells \in CellsOf(l)
  PROVE  Updated(cells, e, Layered(e, s)[i].visits) \in CellsOf(l)
  <1> DEFINE new == Updated(cells, e, Layered(e, s)[i].visits)
  <1>1. s \in 0 .. 3 /\ l \div 2 = s
    BY LastStages
  <1>2. Ws(s) \in Nat \ {0} /\ Hs(s) \in Nat \ {0}
    BY <1>1, SizeType
  <1>3. DOMAIN cells = Grid(s)
    BY <1>1 DEF CellsOf
  <1>4. new = [c \in Grid(s) |-> new[c]]
    BY <1>3 DEF Updated
  <1> HIDE DEF new
  <1>5. ASSUME NEW c \in Grid(s) PROVE new[c] \in Seq(Updates)
    <2>1. PICK x \in 0 .. Ws(s) - 1, y \in 0 .. Hs(s) - 1 : c = y * Ws(s) + x
      BY <1>2, RowAndColumn DEF Grid
    <2> DEFINE position == With(l, X(e, s), Y(e, s), x, y)
               entry == <<e, position>>
    <2>2. entry \in Updates
      <3>1. x \in Int /\ y \in Int /\ e \in Nat
        BY <1>2, InputType
      <3>2. X(e, s) \in Int /\ Y(e, s) \in Int
        BY <1>1, CoordinateType
      <3>3. position \in Int
        BY <3>1, <3>2 DEF With
      <3> HIDE DEF position
      <3> QED
        BY <3>1, <3>3 DEF Updates
    <2>3. cells[c] \in Seq(Updates)
      BY <1>1 DEF CellsOf
    <2>4. new[c] = Append(cells[c], entry) \/ new[c] = cells[c]
      <3>1. Updated(cells, e, Layered(e, s)[i].visits)[y * Ws(s) + x] =
              IF Left(l, X(e, s), Y(e, s), x, y)
              THEN Append(cells[y * Ws(s) + x], <<e, With(l, X(e, s), Y(e, s), x, y)>>)
              ELSE cells[y * Ws(s) + x]
        BY UpdatedCell
      <3> QED
        BY <2>1, <3>1 DEF new
    <2> HIDE DEF entry
    <2> QED
      BY <2>2, <2>3, <2>4, AppendType
  <1>6. new \in [Grid(s) -> Seq(Updates)]
    BY <1>4, <1>5
  <1> QED
    BY <1>1, <1>6 DEF new, CellsOf

\* The two layers of stage t.s take the event, the others are left alone.
AfterStage(hidden, e, s) ==
  [hidden EXCEPT ![2 * s] = Updated(@, e, Layered(e, s)[1].visits),
                 ![2 * s + 1] = Updated(@, e, Layered(e, s)[2].visits)]

LEMMA AfterStageIs ==
  ASSUME PipelineAssumption, NEW hidden \in HiddenType, NEW s \in 0 .. LastStage, NEW e \in Inputs, InSensor(e)
  PROVE  /\ AfterStage(hidden, e, s) \in HiddenType
         /\ \A l \in Layers : AfterStage(hidden, e, s)[l] =
              IF l = 2 * s THEN Updated(hidden[l], e, Layered(e, s)[1].visits)
              ELSE IF l = 2 * s + 1 THEN Updated(hidden[l], e, Layered(e, s)[2].visits)
              ELSE hidden[l]
  <1> DEFINE all == UNION {CellsOf(l) : l \in Layers}
             after == AfterStage(hidden, e, s)
             one == Updated(hidden[2 * s], e, Layered(e, s)[1].visits)
             two == Updated(hidden[2 * s + 1], e, Layered(e, s)[2].visits)
  <1>1. hidden \in [Layers -> all] /\ \A l \in Layers : hidden[l] \in CellsOf(l)
    BY DEF HiddenType
  <1>2. 2 * s \in Layers /\ 2 * s + 1 \in Layers /\ s \in Nat
    BY LastStages
  <1>3. one \in CellsOf(2 * s) /\ two \in CellsOf(2 * s + 1)
    <2>1. hidden[2 * s] \in CellsOf(2 * s) /\ hidden[2 * s + 1] \in CellsOf(2 * s + 1)
      BY <1>1, <1>2
    <2>2. 2 * s = 2 * s + 1 - 1 /\ 2 * s + 1 = 2 * s + 2 - 1
      BY <1>2
    <2> QED
      BY <2>1, <2>2, UpdatedType
  <1>4. after = [l \in Layers |-> IF l = 2 * s + 1 THEN two ELSE IF l = 2 * s THEN one ELSE hidden[l]]
    BY <1>1, <1>2 DEF AfterStage
  <1> HIDE DEF after, one, two
  <1>5. \A l \in Layers : after[l] = IF l = 2 * s + 1 THEN two ELSE IF l = 2 * s THEN one ELSE hidden[l]
    BY <1>4
  <1>6. \A l \in Layers : after[l] \in CellsOf(l)
    BY <1>1, <1>3, <1>5
  <1>7. after \in [Layers -> all]
    BY <1>4, <1>6
  <1>8. after \in HiddenType
    BY <1>6, <1>7 DEF HiddenType
  <1>9. 2 * s # 2 * s + 1
    BY <1>2
  <1> QED
    BY <1>5, <1>8, <1>9 DEF after, one, two

\* The cells after a stage, from the cells before it.
LEMMA StageApplies ==
  ASSUME PipelineAssumption, NEW hidden \in HiddenType, NEW t, NEW u,
         NEW s \in 0 .. LastStage, NEW e \in Inputs, InSensor(e), AppliedIn(hidden, t),
         \A d \in Inputs : \A k \in 0 .. LastStage :
           BeenAt(u, d, k) <=> BeenAt(t, d, k) \/ (d = e /\ k = s),
         \A d \in Inputs : BeenAt(t, d, s) => d < e
  PROVE  AppliedIn(AfterStage(hidden, e, s), u)
  <1> DEFINE after == AfterStage(hidden, e, s)
  <1> SUFFICES ASSUME NEW l \in Layers,
                      NEW x \in 0 .. Ws(l \div 2) - 1, NEW y \in 0 .. Hs(l \div 2) - 1
               PROVE  CellTakes(after[l][y * Ws(l \div 2) + x], u, l, x, y)
    BY DEF AppliedIn
  <1> DEFINE c == y * Ws(l \div 2) + x
  <1>1. l \div 2 \in 0 .. LastStage /\ (l = 2 * (l \div 2) \/ l = 2 * (l \div 2) + 1)
    BY LastStages
  <1>2. CellTakes(hidden[l][c], t, l, x, y)
    BY DEF AppliedIn
  <1>3. hidden[l] \in CellsOf(l)
    BY DEF HiddenType
  <1>4. CASE l \div 2 = s
    <2>1. PICK i \in 1 .. 2 : l = 2 * s + i - 1
      <3>1. l = 2 * s + 1 - 1 \/ l = 2 * s + 2 - 1
        BY <1>1, <1>4
      <3> QED
        BY <3>1
    <2>2. s \in Nat
      OBVIOUS
    <2>3. after[l] = Updated(hidden[l], e, Layered(e, s)[i].visits)
      <3>1. CASE i = 1
        <4>1. l = 2 * s
          BY <2>1, <2>2, <3>1
        <4> QED
          BY <3>1, <4>1, AfterStageIs
      <3>2. CASE i = 2
        <4>1. l = 2 * s + 1 /\ l # 2 * s
          BY <2>1, <2>2, <3>2
        <4> QED
          BY <3>2, <4>1, AfterStageIs
      <3> QED
        BY <3>1, <3>2
    <2>4. /\ c \in Grid(s)
          /\ after[l][c] = IF Left(l, X(e, s), Y(e, s), x, y)
                           THEN Append(hidden[l][c], <<e, PositionOf(e, l, x, y)>>) ELSE hidden[l][c]
      BY <1>3, <1>4, <2>1, <2>3, UpdatedCell DEF PositionOf
    <2>5. hidden[l][c] \in Seq(Updates)
      BY <1>3, <1>4, <2>4 DEF CellsOf
    <2>6. /\ \A d \in Inputs : BeenAt(u, d, l \div 2) <=> BeenAt(t, d, l \div 2) \/ d = e
          /\ \A d \in Inputs : BeenAt(t, d, l \div 2) => d < e
      BY <1>4
    <2> HIDE DEF after, c
    <2>7. CellTakes(IF Left(l, X(e, l \div 2), Y(e, l \div 2), x, y)
                    THEN Append(hidden[l][c], <<e, PositionOf(e, l, x, y)>>) ELSE hidden[l][c], u, l, x, y)
      BY <1>2, <2>5, <2>6, CellGrows
    <2>8. CellTakes(after[l][c], u, l, x, y)
      BY <1>4, <2>4, <2>7
    <2> QED
      BY <2>8 DEF after, c
  <1>5. CASE l \div 2 # s
    <2>1. l # 2 * s /\ l # 2 * s + 1
      BY <1>1, <1>5
    <2>2. after[l] = hidden[l]
      BY <2>1, AfterStageIs
    <2>3. \A d \in Inputs : BeenAt(u, d, l \div 2) <=> BeenAt(t, d, l \div 2)
      BY <1>1, <1>5
    <2>4. Taken(u, l, x, y) = Taken(t, l, x, y)
      BY <2>3 DEF Taken, TakesAt
    <2> QED
      BY <1>2, <2>2, <2>4 DEF CellTakes
  <1> QED
    BY <1>4, <1>5

LEMMA AppliedStays ==
  ASSUME PipelineAssumption, NEW hidden, NEW t, NEW u, AppliedIn(hidden, t),
         \A d \in Inputs : \A k \in 0 .. LastStage : BeenAt(u, d, k) <=> BeenAt(t, d, k)
  PROVE  AppliedIn(hidden, u)
  <1> SUFFICES ASSUME NEW l \in Layers,
                      NEW x \in 0 .. Ws(l \div 2) - 1, NEW y \in 0 .. Hs(l \div 2) - 1
               PROVE  CellTakes(hidden[l][y * Ws(l \div 2) + x], u, l, x, y)
    BY DEF AppliedIn
  <1>1. l \div 2 \in 0 .. LastStage
    BY LastStages
  <1>2. Taken(u, l, x, y) = Taken(t, l, x, y)
    BY <1>1 DEF Taken, TakesAt
  <1> QED
    BY <1>2 DEF AppliedIn, CellTakes

\* The generic code computes every layer as it is defined.
LEMMA GenericLayers ==
  ASSUME NEW l \in 0 .. 7
  PROVE  PatchOf("generic", l) = Reference(InDim(l), OutDim(l))
  <1>1. /\ InDim(0) = 2 /\ OutDim(0) = 12
        /\ InDim(1) = 12 /\ OutDim(1) = 12
        /\ InDim(2) = 12 /\ OutDim(2) = 24
        /\ InDim(3) = 24 /\ OutDim(3) = 24
        /\ InDim(4) = 24 /\ OutDim(4) = 48
        /\ InDim(5) = 48 /\ OutDim(5) = 48
        /\ InDim(6) = 48 /\ OutDim(6) = 96
        /\ InDim(7) = 96 /\ OutDim(7) = 96
    BY DEF InDim, OutDim, Channels
  <1>2. PatchOf("generic", l) = Generic(InDim(l), OutDim(l))
    BY DEF PatchOf
  <1>3. CASE l = 0
    <2>1. LruStep(12) = Lru(12)
      BY VectorsAsLru
    <2>2. MatvecCt(2, 36) = Matvec(2, 36) /\ MatvecCt(2, 12) = Matvec(2, 12)
      BY DEF MatvecCt
    <2>3. MatvecCt(12, 12) = Matvec(12, 12)
      BY VectorAsMatvec DEF MatvecCt
    <2>4. Generic(2, 12) = Reference(2, 12)
      BY <2>1, <2>2, <2>3 DEF Generic, Reference
    <2> QED
      BY <1>1, <1>2, <1>3, <2>4
  <1>4. CASE l # 0
    <2>1. InDim(l) \in {12, 24, 48, 96} /\ OutDim(l) \in {12, 24, 48, 96}
      BY <1>1, <1>4
    <2> DEFINE in == InDim(l)
               out == OutDim(l)
    <2>2. in \in Nat /\ out \in Nat /\ in % 4 = 0 /\ out % 4 = 0
      BY <2>1
    <2> HIDE DEF in, out
    <2>3. Generic(in, out) = Reference(in, out)
      BY <2>2, WaysAsReference
    <2> QED
      BY <1>2, <2>3 DEF in, out
  <1> QED
    BY <1>3, <1>4

RunRight(run, l) ==
  IF run.output THEN PatchOf(run.patch, l) = Reference(InDim(l), OutDim(l))
  ELSE StateUpdate(PatchOf(run.patch, l)) = StateUpdate(Reference(InDim(l), OutDim(l)))

LEMMA RunsRight ==
  ASSUME NEW s \in 0 .. 3, NEW x, NEW y, NEW w, NEW h
  PROVE  /\ \A run \in {StageForward(s, x, y, w, h)[1], StageForwardStateOnly(s, x, y, w, h)[1]} :
              run.output = TRUE /\ RunRight(run, 2 * s)
         /\ StageForward(s, x, y, w, h)[2].output = TRUE
         /\ RunRight(StageForward(s, x, y, w, h)[2], 2 * s + 1)
         /\ StageForwardStateOnly(s, x, y, w, h)[2].output \in BOOLEAN
         /\ RunRight(StageForwardStateOnly(s, x, y, w, h)[2], 2 * s + 1)
  <1>1. /\ InDim(0) = 2 /\ OutDim(0) = 12
        /\ InDim(1) = 12 /\ OutDim(1) = 12
        /\ InDim(2) = 12 /\ OutDim(2) = 24
        /\ InDim(3) = 24 /\ OutDim(3) = 24
    BY DEF InDim, OutDim, Channels
  <1>2. \A v : /\ RunRight(Run(v, "patch_2_12", TRUE), 0)
               /\ RunRight(Run(v, "patch_12_12", TRUE), 1)
               /\ RunRight(Run(v, "patch_12_24_tiled", TRUE), 2)
               /\ RunRight(Run(v, "patch_24_24_tiled", TRUE), 3)
    BY <1>1, FusedAsReference DEF RunRight, Run, PatchOf
  <1>3. \A v : /\ RunRight(Run(v, "patch_12_12_state_only", FALSE), 1)
               /\ RunRight(Run(v, "patch_24_24_tiled_state_only", FALSE), 3)
    BY <1>1, StateOnlyKeepsState DEF RunRight, Run, PatchOf
  <1>4. 2 * s \in 0 .. 7 /\ 2 * s + 1 \in 0 .. 7
    OBVIOUS
  <1>5. \A l \in 0 .. 7 : RunRight(LayerForward(l, x, y, w, h), l) /\ LayerForward(l, x, y, w, h).output = TRUE
    BY GenericLayers DEF LayerForward, RunRight, Run
  <1>6. \A v, p, o : Run(v, p, o).output = o
    BY DEF Run
  <1>7. CASE s = 0 /\ Interior(x, y, w, h)
    <2>1. /\ StageForward(s, x, y, w, h)[1] = S0L0Interior(x, y, w)
          /\ StageForward(s, x, y, w, h)[2] = S0L1Interior(x, y, w)
          /\ StageForwardStateOnly(s, x, y, w, h)[1] = S0L0Interior(x, y, w)
          /\ StageForwardStateOnly(s, x, y, w, h)[2] = S0L1InteriorStateOnly(x, y, w)
          /\ 2 * s = 0 /\ 2 * s + 1 = 1
      BY <1>7 DEF StageForward, StageForwardStateOnly
    <2>2. S0L0Interior(x, y, w).output = TRUE /\ RunRight(S0L0Interior(x, y, w), 0)
      BY <1>2, <1>6 DEF S0L0Interior
    <2>3. S0L1Interior(x, y, w).output = TRUE /\ RunRight(S0L1Interior(x, y, w), 1)
      BY <1>2, <1>6 DEF S0L1Interior
    <2>4. S0L1InteriorStateOnly(x, y, w).output \in BOOLEAN /\ RunRight(S0L1InteriorStateOnly(x, y, w), 1)
      BY <1>3, <1>6 DEF S0L1InteriorStateOnly
    <2> QED
      BY <2>1, <2>2, <2>3, <2>4
  <1>8. CASE s = 1 /\ Interior(x, y, w, h)
    <2>1. /\ StageForward(s, x, y, w, h)[1] = S1L0InteriorTiled(x, y, w)
          /\ StageForward(s, x, y, w, h)[2] = S1L1InteriorTiled(x, y, w)
          /\ StageForwardStateOnly(s, x, y, w, h)[1] = S1L0InteriorTiled(x, y, w)
          /\ StageForwardStateOnly(s, x, y, w, h)[2] = S1L1InteriorTiledStateOnly(x, y, w)
          /\ 2 * s = 2 /\ 2 * s + 1 = 3
      BY <1>8 DEF StageForward, StageForwardStateOnly
    <2>2. S1L0InteriorTiled(x, y, w).output = TRUE /\ RunRight(S1L0InteriorTiled(x, y, w), 2)
      BY <1>2, <1>6 DEF S1L0InteriorTiled
    <2>3. S1L1InteriorTiled(x, y, w).output = TRUE /\ RunRight(S1L1InteriorTiled(x, y, w), 3)
      BY <1>2, <1>6 DEF S1L1InteriorTiled
    <2>4. S1L1InteriorTiledStateOnly(x, y, w).output \in BOOLEAN
          /\ RunRight(S1L1InteriorTiledStateOnly(x, y, w), 3)
      BY <1>3, <1>6 DEF S1L1InteriorTiledStateOnly
    <2> QED
      BY <2>1, <2>2, <2>3, <2>4
  <1>9. CASE ~((s = 0 \/ s = 1) /\ Interior(x, y, w, h))
    <2> DEFINE one == LayerForward(2 * s, x, y, w, h)
               two == LayerForward(2 * s + 1, x, y, w, h)
    <2>1. /\ StageForward(s, x, y, w, h)[1] = one /\ StageForward(s, x, y, w, h)[2] = two
          /\ StageForwardStateOnly(s, x, y, w, h)[1] = one
          /\ StageForwardStateOnly(s, x, y, w, h)[2] = two
      BY <1>9 DEF StageForward, StageForwardStateOnly
    <2>2. /\ one.output = TRUE /\ RunRight(one, 2 * s)
          /\ two.output = TRUE /\ RunRight(two, 2 * s + 1)
      BY <1>4, <1>5
    <2> HIDE DEF one, two
    <2> QED
      BY <2>1, <2>2
  <1> QED
    BY <1>7, <1>8, <1>9

\* Whichever code a stage takes is right, and has an output where the event passes.
LEMMA LayeredRight ==
  ASSUME NEW s \in 0 .. 3, NEW e
  PROVE  /\ \A i \in 1 .. 2 : RunRight(Layered(e, s)[i], 2 * s + i - 1)
         /\ Layered(e, s)[2].output \in BOOLEAN
         /\ Passes(e, s) => Layered(e, s)[2].output = TRUE
  <1> DEFINE full == StageForward(s, X(e, s), Y(e, s), Ws(s), Hs(s))
             less == StageForwardStateOnly(s, X(e, s), Y(e, s), Ws(s), Hs(s))
  <1>1. /\ RunRight(full[1], 2 * s) /\ RunRight(full[2], 2 * s + 1) /\ full[2].output = TRUE
        /\ RunRight(less[1], 2 * s) /\ RunRight(less[2], 2 * s + 1) /\ less[2].output \in BOOLEAN
    <2> DEFINE x == X(e, s)
               y == Y(e, s)
               w == Ws(s)
               h == Hs(s)
    <2> HIDE DEF x, y, w, h
    <2>1. /\ RunRight(StageForward(s, x, y, w, h)[1], 2 * s)
          /\ RunRight(StageForward(s, x, y, w, h)[2], 2 * s + 1)
          /\ StageForward(s, x, y, w, h)[2].output = TRUE
          /\ RunRight(StageForwardStateOnly(s, x, y, w, h)[1], 2 * s)
          /\ RunRight(StageForwardStateOnly(s, x, y, w, h)[2], 2 * s + 1)
          /\ StageForwardStateOnly(s, x, y, w, h)[2].output \in BOOLEAN
      BY RunsRight
    <2> QED
      BY <2>1 DEF x, y, w, h
  <1>2. Layered(e, s) \in {full, less} /\ (Passes(e, s) => Layered(e, s) = full)
    BY DEF Layered
  <1>3. 2 * s + 1 - 1 = 2 * s /\ 2 * s + 2 - 1 = 2 * s + 1
    OBVIOUS
  <1> HIDE DEF full, less
  <1>4. RunRight(Layered(e, s)[1], 2 * s + 1 - 1) /\ RunRight(Layered(e, s)[2], 2 * s + 2 - 1)
    BY <1>1, <1>2, <1>3
  <1>5. Layered(e, s)[2].output \in BOOLEAN /\ (Passes(e, s) => Layered(e, s)[2].output = TRUE)
    BY <1>1, <1>2
  <1>6. \A i \in 1 .. 2 : RunRight(Layered(e, s)[i], 2 * s + i - 1)
    <2>1. \A i \in 1 .. 2 : i = 1 \/ i = 2
      OBVIOUS
    <2> QED
      BY <1>4, <2>1
  <1> QED
    BY <1>5, <1>6

-----------------------------------------------------------------------------
(* Where the thread is, and what each step does to the state. *)
Place(t) ==
  /\ t.e \in 1 .. Len(Pixels) + 1 /\ (t.at # "next" => t.e \in Inputs)
  /\ t.at = "stage" => InSensor(t.e) /\ t.s \in 0 .. LastStage /\ Ends[t.e].s >= t.s /\ t.fed
  /\ t.at = "out" => InSensor(t.e) /\ t.s = LastStage + 1 /\ Ends[t.e].passed /\ t.fed
  /\ t.at = "over" /\ InSensor(t.e) => t.s = Ends[t.e].s + 1
  /\ t.measuring => t.e > Warmup
  /\ t.e > Warmup /\ t.at # "next" => t.measuring
  /\ t.e > Warmup + 1 => t.measuring

\* The events that reached the counter of a pooled cell behind stage s.
Through(t, s, c) == {d \in Inputs : BeenAt(t, d, s) /\ d \notin Halo /\ CellAt(d, s + 1) = c}
TdropAt(tdrop, t) ==
  \A s \in 0 .. 2 : \A c \in Grid(s + 1) : tdrop[s][c] = Cardinality(Through(t, s, c)) % 256

BasicInv == TypeInv /\ Place(thr)

LEMMA ThroughType ==
  ASSUME PipelineAssumption, NEW t, NEW s, NEW c
  PROVE  IsFiniteSet(Through(t, s, c)) /\ Cardinality(Through(t, s, c)) \in Nat
  <1>1. IsFiniteSet(Inputs)
    BY InputType, FS_Interval
  <1>2. Through(t, s, c) \subseteq Inputs
    BY DEF Through
  <1> QED
    BY <1>1, <1>2, FS_Subset, FS_CardinalityType

\* The counter that is asked is the number of the events before.
LEMMA CounterAsked ==
  ASSUME PipelineAssumption, NEW t, Place(t), t.at = "stage"
  PROVE  Through(t, t.s, CellAt(t.e, t.s + 1)) = BeforeIn(Ends, t.e, t.s)
  <1> DEFINE e == t.e
             s == t.s
  <1>1. e \in Inputs /\ s \in 0 .. LastStage /\ LastStage \in 0 .. 3
    BY LastStages DEF Place
  <1>2. Inputs = 1 .. Len(Pixels) /\ Len(Pixels) \in Nat
    BY InputType
  <1>3. \A d \in Inputs : BeenAt(t, d, s) <=> d < e /\ Ends[d].s >= s
    BY <1>1, <1>2 DEF BeenAt
  <1>4. \A d \in Inputs : Ends[d].s >= s => InSensor(d)
    <2> TAKE d \in Inputs
    <2>1. Ends[d].s \in -1 .. LastStage /\ (Ends[d].s >= 0 <=> InSensor(d))
      BY EndFacts DEF Reaches
    <2> QED
      BY <1>1, <2>1
  <1>5. \A d : d \in 1 .. e - 1 <=> d \in Inputs /\ d < e
    BY <1>1, <1>2
  <1> HIDE DEF e, s
  <1>6. Through(t, s, CellAt(e, s + 1)) = BeforeIn(Ends, e, s)
    BY <1>3, <1>4, <1>5 DEF Through, BeforeIn
  <1> QED
    BY <1>6 DEF e, s

LEMMA PassesIs ==
  ASSUME PipelineAssumption, BasicInv, TdropAt(log.tdrop, thr), thr.at = "stage"
  PROVE  Passes(thr.e, thr.s) <=> thr.s \notin Drops(thr.e)
  <1> DEFINE e == thr.e
             s == thr.s
             n == Cardinality(BeforeIn(Ends, e, s))
             m == log.tdrop[s][CellAt(e, s + 1)]
  <1>1. e \in Inputs /\ InSensor(e) /\ s \in 0 .. LastStage /\ LastStage \in 0 .. 3
    BY LastStages DEF BasicInv, Place
  <1>2. e \in Halo <=> Program = "shard" /\ e \in Halo
    BY DEF PipelineAssumption
  <1>3. s \in Drops(e) <=> e \in Halo \/ (s <= 2 /\ n % Window # 0)
    BY <1>1 DEF Drops, DropsIn
  <1>4. Passes(e, s) <=> ~(Program = "shard" /\ e \in Halo) /\ (s > 2 \/ m % Window = 0)
    BY DEF Passes
  <1>5. ASSUME s <= 2 PROVE m % Window = n % Window
    <2>1. s \in 0 .. 2 /\ s + 1 \in 0 .. 3
      BY <1>1, <1>5
    <2>2. CellAt(e, s + 1) \in Grid(s + 1)
      BY <1>1, <2>1, CoordinateType
    <2>3. Through(thr, s, CellAt(e, s + 1)) = BeforeIn(Ends, e, s)
      BY CounterAsked DEF BasicInv
    <2>4. m = n % 256
      BY <2>1, <2>2, <2>3 DEF TdropAt
    <2>5. n \in Nat
      BY <2>3, ThroughType
    <2>6. Window \in Nat \ {0} /\ 256 % Window = 0
      BY DEF PipelineAssumption
    <2> DEFINE wrap == 256
    <2>7. wrap \in Nat \ {0} /\ wrap % Window = 0 /\ m = n % wrap
      BY <2>4, <2>6
    <2>8. Window \in Nat \ {0}
      BY <2>6
    <2> HIDE DEF m, n, wrap
    <2>9. \A r : r = n % wrap => r % Window = n % Window
      BY <2>5, <2>7, <2>8, RemainderOfRemainder
    <2> QED
      BY <2>7, <2>9
  <1>6. s > 2 <=> ~(s <= 2)
    BY <1>1
  <1> HIDE DEF e, s, n, m
  <1>7. Passes(e, s) <=> s \notin Drops(e)
    BY <1>2, <1>3, <1>4, <1>5, <1>6
  <1> QED
    BY <1>7 DEF e, s

LEMMA CountedIs ==
  ASSUME PipelineAssumption, log \in LogType, NEW e \in Inputs, InSensor(e), NEW s \in 0 .. 3
  PROVE  /\ Counted(e, s) \in TdropType
         /\ \A k \in 0 .. 2 : \A c \in Grid(k + 1) : Counted(e, s)[k][c] =
              IF k = s /\ e \notin Halo /\ c = CellAt(e, s + 1)
              THEN (log.tdrop[k][c] + 1) % 256 ELSE log.tdrop[k][c]
  <1> DEFINE old == log.tdrop
             new == Counted(e, s)
             at == CellAt(e, s + 1)
             all == UNION {CountersOf(k) : k \in 0 .. 2}
  <1>1. old \in [0 .. 2 -> all] /\ \A k \in 0 .. 2 : old[k] \in CountersOf(k)
    BY DEF LogType, TdropType
  <1>2. e \in Halo <=> Program = "shard" /\ e \in Halo
    BY DEF PipelineAssumption
  <1>3. CASE s > 2 \/ e \in Halo
    <2>1. new = old
      BY <1>2, <1>3 DEF Counted
    <2>2. \A k \in 0 .. 2 : ~(k = s /\ e \notin Halo)
      BY <1>3
    <2>3. old \in TdropType
      BY DEF LogType
    <2> HIDE DEF new, old
    <2>4. /\ new \in TdropType
          /\ \A k \in 0 .. 2 : \A c \in Grid(k + 1) : new[k][c] =
              IF k = s /\ e \notin Halo /\ c = at THEN (old[k][c] + 1) % 256 ELSE old[k][c]
      BY <2>1, <2>2, <2>3
    <2> QED
      BY <2>4 DEF new, old
  <1>4. CASE ~(s > 2 \/ e \in Halo)
    <2>1. s \in 0 .. 2 /\ s + 1 \in 0 .. 3 /\ e \notin Halo
      BY <1>4
    <2>2. at \in Grid(s + 1)
      BY <2>1, CoordinateType
    <2> DEFINE one == [old[s] EXCEPT ![at] = (@ + 1) % 256]
    <2>3. new = [k \in 0 .. 2 |-> IF k = s THEN one ELSE old[k]]
      BY <1>1, <1>2, <1>4, <2>1 DEF Counted
    <2>4. old[s] \in [Grid(s + 1) -> Nat]
      BY <1>1, <2>1 DEF CountersOf
    <2>5. \A c \in Grid(s + 1) : one[c] = IF c = at THEN (old[s][c] + 1) % 256 ELSE old[s][c]
      BY <2>4
    <2>6. one \in [Grid(s + 1) -> Nat]
      <3>1. (old[s][at] + 1) % 256 \in Nat
        BY <2>2, <2>4
      <3> QED
        BY <2>4, <3>1
    <2>7. one \in CountersOf(s)
      BY <2>6 DEF CountersOf
    <2> HIDE DEF new, old, one, at
    <2>8. \A k \in 0 .. 2 : new[k] = IF k = s THEN one ELSE old[k]
      BY <2>3
    <2>9. \A k \in 0 .. 2 : new[k] \in CountersOf(k)
      BY <1>1, <2>7, <2>8
    <2>10. new \in [0 .. 2 -> all]
      BY <2>3, <2>9
    <2>11. new \in TdropType
      BY <2>9, <2>10 DEF TdropType
    <2>12. \A k \in 0 .. 2 : \A c \in Grid(k + 1) : new[k][c] =
              IF k = s /\ e \notin Halo /\ c = at THEN (old[k][c] + 1) % 256 ELSE old[k][c]
      BY <2>1, <2>5, <2>8
    <2> QED
      BY <2>11, <2>12 DEF new, old, at
  <1> QED
    BY <1>3, <1>4

\* What each step does, field by field.
LEMMA StartMeasuringIs ==
  ASSUME BasicInv, StartMeasuring
  PROVE  /\ log' = log /\ snaps' = snaps /\ thr' \in ThrType
         /\ thr.at = "next" /\ thr.e = Warmup + 1 /\ thr.measuring = FALSE
         /\ thr'.e = thr.e /\ thr'.at = thr.at /\ thr'.s = thr.s /\ thr'.dt = thr.dt
         /\ thr'.fed = thr.fed /\ thr'.measuring = TRUE /\ thr'.pass = 0 /\ thr'.oob = 0
  BY DEF BasicInv, TypeInv, ThrType, StartMeasuring

LEMMA SkipNextIs ==
  ASSUME PipelineAssumption, BasicInv, TakeNext, ~InSensor(thr.e)
  PROVE  /\ log' = log /\ snaps' = snaps /\ thr' \in ThrType
         /\ thr.at = "next" /\ thr.e \in Inputs /\ (thr.e <= Warmup \/ thr.measuring)
         /\ thr'.e = thr.e /\ thr'.at = "over" /\ thr'.s = thr.s /\ thr'.dt = thr.dt
         /\ thr'.fed = thr.fed /\ thr'.measuring = thr.measuring
         /\ thr'.pass = thr.pass /\ thr'.oob = thr.oob + 1
  <1> DEFINE more == thr.oob + 1
  <1>1. /\ thr.at = "next" /\ thr.e \in Inputs /\ (thr.e <= Warmup \/ thr.measuring)
        /\ log' = log /\ snaps' = snaps
        /\ thr' = [thr EXCEPT !.oob = more, !.at = "over"]
    BY DEF TakeNext
  <1>2. thr \in ThrType /\ more \in Nat
    BY DEF BasicInv, TypeInv, ThrType
  <1> HIDE DEF more
  <1>3. thr' \in ThrType
    BY <1>1, <1>2 DEF ThrType
  <1>4. /\ thr'.e = thr.e /\ thr'.at = "over" /\ thr'.s = thr.s /\ thr'.dt = thr.dt
        /\ thr'.fed = thr.fed /\ thr'.measuring = thr.measuring
        /\ thr'.pass = thr.pass /\ thr'.oob = more
    BY <1>1, <1>2 DEF ThrType
  <1> QED
    BY <1>1, <1>3, <1>4 DEF more

LEMMA TakeNextIs ==
  ASSUME PipelineAssumption, BasicInv, TakeNext, InSensor(thr.e)
  PROVE  /\ log' \in LogType /\ snaps' = snaps /\ thr' \in ThrType
         /\ log'.hidden = log.hidden /\ log'.tdrop = log.tdrop /\ log'.preds = log.preds
         /\ \A c \in Grid(0) : log'.lastT[c] = IF c = CellAt(thr.e, 0) THEN thr.e ELSE log.lastT[c]
         /\ thr.at = "next" /\ thr.e \in Inputs /\ (thr.e <= Warmup \/ thr.measuring)
         /\ thr'.e = thr.e /\ thr'.at = "stage" /\ thr'.s = 0 /\ thr'.dt = log.lastT[CellAt(thr.e, 0)]
         /\ thr'.fed = TRUE /\ thr'.measuring = thr.measuring
         /\ thr'.pass = thr.pass /\ thr'.oob = thr.oob
  <1>1. /\ thr.at = "next" /\ thr.e \in Inputs /\ (thr.e <= Warmup \/ thr.measuring) /\ snaps' = snaps
        /\ thr' = [thr EXCEPT !.at = "stage", !.s = 0, !.fed = TRUE,
                              !.dt = log.lastT[CellAt(thr.e, 0)]]
        /\ log' = [log EXCEPT !.lastT[CellAt(thr.e, 0)] = thr.e]
    BY DEF TakeNext
  <1>2. CellAt(thr.e, 0) \in Grid(0)
    BY <1>1, CoordinateType
  <1>3. log.lastT \in [Grid(0) -> Nat] /\ thr \in ThrType /\ log \in LogType /\ thr.e \in Nat
    BY DEF BasicInv, TypeInv, LogType, ThrType
  <1> DEFINE c == CellAt(thr.e, 0)
             dt == log.lastT[c]
             lastT == [log.lastT EXCEPT ![c] = thr.e]
  <1>4. dt \in Nat /\ lastT \in [Grid(0) -> Nat]
    BY <1>2, <1>3
  <1>5. \A a \in Grid(0) : lastT[a] = IF a = c THEN thr.e ELSE log.lastT[a]
    BY <1>3
  <1>6. log' = [log EXCEPT !.lastT = lastT]
    BY <1>1
  <1>7. thr' = [thr EXCEPT !.at = "stage", !.s = 0, !.fed = TRUE, !.dt = dt]
    BY <1>1
  <1> HIDE DEF c, dt, lastT
  <1>8. log' \in LogType /\ log'.hidden = log.hidden /\ log'.tdrop = log.tdrop /\ log'.preds = log.preds
        /\ log'.lastT = lastT
    BY <1>3, <1>4, <1>6 DEF LogType
  <1>9. thr' \in ThrType
    <2>1. dt \in Nat /\ thr \in ThrType /\ 0 \in 0 .. 4
      BY <1>3, <1>4
    <2> QED
      BY <1>7, <2>1 DEF ThrType
  <1>10. /\ thr'.e = thr.e /\ thr'.at = "stage" /\ thr'.s = 0 /\ thr'.dt = dt
         /\ thr'.fed = TRUE /\ thr'.measuring = thr.measuring
         /\ thr'.pass = thr.pass /\ thr'.oob = thr.oob
    BY <1>3, <1>4, <1>7 DEF ThrType
  <1> QED
    BY <1>1, <1>5, <1>8, <1>9, <1>10 DEF c, dt

LEMMA RunStageIs ==
  ASSUME PipelineAssumption, BasicInv, RunStage
  PROVE  /\ log' \in LogType /\ snaps' = snaps /\ thr' \in ThrType
         /\ log'.hidden = AfterStage(log.hidden, thr.e, thr.s)
         /\ log'.tdrop = Counted(thr.e, thr.s)
         /\ log'.lastT = log.lastT /\ log'.preds = log.preds
         /\ thr.at = "stage"
         /\ thr'.e = thr.e /\ thr'.s = thr.s + 1 /\ thr'.dt = thr.dt
         /\ thr'.at = IF ~Passes(thr.e, thr.s) THEN "over"
                      ELSE IF thr.s < LastStage THEN "stage" ELSE "out"
         /\ Passes(thr.e, thr.s) => thr'.fed = TRUE
         /\ thr'.measuring = thr.measuring /\ thr'.pass = thr.pass /\ thr'.oob = thr.oob
  <1> DEFINE e == thr.e
             s == thr.s
             fed == Layered(e, s)[2].output
             at == IF ~Passes(e, s) THEN "over" ELSE IF s < LastStage THEN "stage" ELSE "out"
             after == AfterStage(log.hidden, e, s)
             counted == Counted(e, s)
             next == s + 1
  <1>1. /\ thr.at = "stage" /\ snaps' = snaps
        /\ thr' = [thr EXCEPT !.fed = fed, !.s = next, !.at = at]
        /\ log' = [log EXCEPT !.hidden[2 * s] = Updated(@, e, Layered(e, s)[1].visits),
                              !.hidden[2 * s + 1] = Updated(@, e, Layered(e, s)[2].visits),
                              !.tdrop = Counted(e, s)]
    BY DEF RunStage
  <1>2. /\ e \in Inputs /\ InSensor(e) /\ s \in 0 .. LastStage /\ LastStage \in 0 .. 3 /\ s \in 0 .. 3
        /\ thr \in ThrType /\ log \in LogType
    <2>1. e \in Inputs /\ InSensor(e) /\ s \in 0 .. LastStage
      BY <1>1 DEF BasicInv, Place
    <2>2. LastStage \in {0, 1, 3}
      BY LastStages
    <2>3. s \in 0 .. 3 /\ LastStage \in 0 .. 3
      BY <2>1, <2>2
    <2> QED
      BY <2>1, <2>3 DEF BasicInv, TypeInv
  <1>3. fed \in BOOLEAN /\ (Passes(e, s) => fed = TRUE)
    BY <1>2, LayeredRight
  <1>4. at \in {"next", "stage", "out", "over"} /\ next \in 0 .. 4
    BY <1>2
  <1>5. after \in HiddenType /\ counted \in TdropType
    BY <1>2, AfterStageIs, CountedIs DEF LogType
  <1>6. log' = [log EXCEPT !.hidden = after, !.tdrop = counted]
    <2>1. log.hidden \in [Layers -> UNION {CellsOf(l) : l \in Layers}] /\ 2 * s # 2 * s + 1
      BY <1>2 DEF LogType, HiddenType
    <2> QED
      BY <1>1, <2>1 DEF AfterStage
  <1> HIDE DEF fed, at, after, counted, next
  <1>7. /\ log' \in LogType /\ log'.hidden = after /\ log'.tdrop = counted
        /\ log'.lastT = log.lastT /\ log'.preds = log.preds
    BY <1>2, <1>5, <1>6 DEF LogType
  <1>8. thr' \in ThrType
    BY <1>1, <1>2, <1>3, <1>4 DEF ThrType
  <1>9. /\ thr'.e = e /\ thr'.s = next /\ thr'.dt = thr.dt /\ thr'.at = at
        /\ thr'.fed = fed
        /\ thr'.measuring = thr.measuring /\ thr'.pass = thr.pass /\ thr'.oob = thr.oob
    BY <1>1, <1>2, <1>3, <1>4 DEF ThrType
  <1> QED
    BY <1>1, <1>3, <1>7, <1>8, <1>9 DEF at, after, counted, next

LEMMA OverIs ==
  ASSUME PipelineAssumption, BasicInv, Over
  PROVE  /\ log' = log /\ thr' \in ThrType
         /\ snaps' = snaps \/ (Program = "decomp" /\ snaps' = Append(snaps, <<thr.e, log.preds>>))
         /\ snaps' \in Seq(Nat \X [Rows -> Nat])
         /\ thr.at = "over"
         /\ thr'.e = thr.e + 1 /\ thr'.at = "next" /\ thr'.s = thr.s /\ thr'.dt = thr.dt
         /\ thr'.fed = thr.fed /\ thr'.measuring = thr.measuring
         /\ thr'.pass = thr.pass /\ thr'.oob = thr.oob
  <1> DEFINE next == thr.e + 1
  <1>1. /\ thr.at = "over" /\ log' = log
        /\ thr' = [thr EXCEPT !.at = "next", !.e = next]
        /\ snaps' = snaps \/ (Program = "decomp" /\ snaps' = Append(snaps, <<thr.e, log.preds>>))
    BY DEF Over
  <1>2. thr \in ThrType /\ thr.e \in Nat /\ next \in Nat /\ log.preds \in [Rows -> Nat] /\ snaps \in Seq(Nat \X [Rows -> Nat])
    BY DEF BasicInv, TypeInv, ThrType, LogType
  <1> DEFINE S == Nat \X [Rows -> Nat]
             new == <<thr.e, log.preds>>
  <1>3. new \in S
    BY <1>2
  <1> HIDE DEF S, new
  <1>4. Append(snaps, new) \in Seq(S)
    BY <1>2, <1>3, AppendType DEF S
  <1>5. snaps' \in Seq(S)
    BY <1>1, <1>2, <1>4 DEF S, new
  <1> HIDE DEF next
  <1>6. thr' \in ThrType
    BY <1>1, <1>2 DEF ThrType
  <1>7. /\ thr'.e = next /\ thr'.at = "next" /\ thr'.s = thr.s /\ thr'.dt = thr.dt
        /\ thr'.fed = thr.fed /\ thr'.measuring = thr.measuring
        /\ thr'.pass = thr.pass /\ thr'.oob = thr.oob
    BY <1>1, <1>2 DEF ThrType
  <1> QED
    BY <1>1, <1>5, <1>6, <1>7 DEF S, new, next

\* A step other than a stage lets no event through a stage.
BeenSame == \A d \in Inputs : \A k \in 0 .. 3 : BeenAt(thr', d, k) <=> BeenAt(thr, d, k)

LEMMA BeenStays ==
  ASSUME PipelineAssumption, BasicInv, StartMeasuring \/ TakeNext \/ UseOutput \/ Over
  PROVE  BeenSame
  <1> SUFFICES ASSUME NEW d \in Inputs, NEW k \in 0 .. 3
               PROVE  BeenAt(thr', d, k) <=> BeenAt(thr, d, k)
    BY DEF BeenSame
  <1>1. /\ d \in Nat /\ thr.e \in Nat /\ thr.s \in Nat /\ Ends[d].s \in Int
        /\ LastStage \in 0 .. 3
    BY InputType, LastStages, EndFacts DEF BasicInv, TypeInv, ThrType, Reaches
  <1>2. ~InSensor(d) => Ends[d].s < k
    BY <1>1, EndFacts DEF Reaches
  <1> DEFINE been(e, at, s) == /\ \/ d < e
                                  \/ d = e /\ at # "next" /\ s > k
                               /\ Ends[d].s >= k
  <1>3. \A t : BeenAt(t, d, k) <=> been(t.e, t.at, t.s)
    BY DEF BeenAt
  <1>4. CASE StartMeasuring
    BY <1>3, <1>4, StartMeasuringIs
  <1>5. CASE TakeNext
    <2>1. CASE InSensor(thr.e)
      BY <1>1, <1>3, <1>5, <2>1, TakeNextIs
    <2>2. CASE ~InSensor(thr.e)
      BY <1>1, <1>2, <1>3, <1>5, <2>2, SkipNextIs
    <2> QED
      BY <2>1, <2>2
  <1>6. CASE UseOutput
    <2>1. thr.at = "out" /\ thr' = [thr EXCEPT !.at = "over", !.pass = @ + 1]
      BY <1>6 DEF UseOutput
    <2>2. thr'.e = thr.e /\ thr'.s = thr.s /\ thr'.at = "over"
      BY <2>1 DEF BasicInv, TypeInv, ThrType
    <2> QED
      BY <1>3, <2>1, <2>2
  <1>7. CASE Over
    <2>1. thr.at = "over" /\ thr'.e = thr.e + 1 /\ thr'.at = "next"
      BY <1>7, OverIs
    <2>2. d < thr.e + 1 <=> d < thr.e \/ d = thr.e
      BY <1>1
    <2>3. d = thr.e /\ Ends[d].s >= k => thr.s > k
      <3> SUFFICES ASSUME d = thr.e, Ends[d].s >= k PROVE thr.s > k
        OBVIOUS
      <3>1. InSensor(d)
        BY <1>1, <1>2
      <3>2. thr.s = Ends[d].s + 1
        BY <2>1, <3>1 DEF BasicInv, Place
      <3> QED
        BY <1>1, <3>2
    <2> QED
      BY <1>3, <2>1, <2>2, <2>3
  <1> QED
    BY <1>4, <1>5, <1>6, <1>7

\* A stage lets the event in hand through, and no event has been through it from there on.
LEMMA BeenGrows ==
  ASSUME PipelineAssumption, BasicInv, RunStage
  PROVE  /\ \A d \in Inputs : \A k \in 0 .. 3 :
              BeenAt(thr', d, k) <=> BeenAt(thr, d, k) \/ (d = thr.e /\ k = thr.s)
         /\ \A d \in Inputs : BeenAt(thr, d, thr.s) => d < thr.e
  <1>1. /\ thr.e \in Inputs /\ thr.e \in Nat /\ thr.s \in Nat /\ Ends[thr.e].s >= thr.s
        /\ thr.at = "stage" /\ thr'.at # "next" /\ thr'.e = thr.e /\ thr'.s = thr.s + 1
    <2>1. /\ thr.at = "stage" /\ thr'.e = thr.e /\ thr'.s = thr.s + 1
          /\ thr'.at = IF ~Passes(thr.e, thr.s) THEN "over"
                       ELSE IF thr.s < LastStage THEN "stage" ELSE "out"
      BY RunStageIs
    <2>2. thr'.at # "next"
      BY <2>1
    <2>3. thr.e \in Nat /\ thr.s \in Nat
      BY DEF BasicInv, TypeInv, ThrType
    <2> QED
      BY <2>1, <2>2, <2>3 DEF BasicInv, Place
  <1>2. ASSUME NEW d \in Inputs, NEW k \in 0 .. 3
        PROVE  BeenAt(thr', d, k) <=> BeenAt(thr, d, k) \/ (d = thr.e /\ k = thr.s)
    <2>1. d \in Nat
      BY InputType
    <2>2. BeenAt(thr', d, k) <=> (d < thr.e \/ (d = thr.e /\ thr.s + 1 > k)) /\ Ends[d].s >= k
      BY <1>1 DEF BeenAt
    <2>3. BeenAt(thr, d, k) <=> (d < thr.e \/ (d = thr.e /\ thr.s > k)) /\ Ends[d].s >= k
      BY <1>1 DEF BeenAt
    <2>4. thr.s + 1 > k <=> thr.s > k \/ k = thr.s
      BY <1>1
    <2> QED
      BY <1>1, <2>2, <2>3, <2>4
  <1>3. ASSUME NEW d \in Inputs, BeenAt(thr, d, thr.s) PROVE d < thr.e
    BY <1>1, <1>3 DEF BeenAt
  <1> QED
    BY <1>2, <1>3

LEMMA AppliedStep ==
  ASSUME PipelineAssumption, BasicInv, Thread(0), AppliedIn(log.hidden, thr)
  PROVE  AppliedIn(log'.hidden, thr')
  <1>1. /\ LastStage \in 0 .. 3 /\ \A k \in 0 .. LastStage : k \in 0 .. 3
        /\ log.hidden \in HiddenType
    BY LastStages DEF BasicInv, TypeInv, LogType
  <1>2. CASE StartMeasuring \/ TakeNext \/ UseOutput \/ Over
    <2>1. log'.hidden = log.hidden
      <3>1. CASE StartMeasuring
        BY <3>1, StartMeasuringIs
      <3>2. CASE TakeNext
        BY <3>2, SkipNextIs, TakeNextIs
      <3>3. CASE UseOutput
        <4>1. log' = log \/ \E f : log' = [log EXCEPT !.preds = f]
          BY <3>3 DEF UseOutput
        <4> QED
          BY <4>1 DEF BasicInv, TypeInv, LogType
      <3>4. CASE Over
        BY <3>4, OverIs
      <3> QED
        BY <1>2, <3>1, <3>2, <3>3, <3>4
    <2>2. BeenSame
      BY <1>2, BeenStays
    <2>3. \A d \in Inputs : \A k \in 0 .. LastStage : BeenAt(thr', d, k) <=> BeenAt(thr, d, k)
      BY <1>1, <2>2 DEF BeenSame
    <2> QED
      BY <2>1, <2>3, AppliedStays
  <1>3. CASE RunStage
    <2> DEFINE e == thr.e
               s == thr.s
    <2>1. e \in Inputs /\ InSensor(e) /\ s \in 0 .. LastStage
      BY <1>3, RunStageIs DEF BasicInv, Place
    <2>2. log'.hidden = AfterStage(log.hidden, e, s)
      BY <1>3, RunStageIs
    <2>3. /\ \A d \in Inputs : \A k \in 0 .. LastStage :
               BeenAt(thr', d, k) <=> BeenAt(thr, d, k) \/ (d = e /\ k = s)
          /\ \A d \in Inputs : BeenAt(thr, d, s) => d < e
      BY <1>1, <1>3, BeenGrows
    <2> HIDE DEF e, s
    <2>4. AppliedIn(AfterStage(log.hidden, e, s), thr')
      BY <1>1, <2>1, <2>3, StageApplies
    <2> QED
      BY <2>2, <2>4
  <1> QED
    BY <1>2, <1>3 DEF Thread

LEMMA TdropStep ==
  ASSUME PipelineAssumption, BasicInv, Thread(0), TdropAt(log.tdrop, thr)
  PROVE  TdropAt(log'.tdrop, thr')
  <1> SUFFICES ASSUME NEW k \in 0 .. 2, NEW c \in Grid(k + 1)
               PROVE  log'.tdrop[k][c] = Cardinality(Through(thr', k, c)) % 256
    BY DEF TdropAt
  <1>1. log.tdrop[k][c] = Cardinality(Through(thr, k, c)) % 256 /\ k \in 0 .. 3
    BY DEF TdropAt
  <1>2. CASE StartMeasuring \/ TakeNext \/ UseOutput \/ Over
    <2>1. log'.tdrop = log.tdrop
      <3>1. CASE StartMeasuring
        BY <3>1, StartMeasuringIs
      <3>2. CASE TakeNext
        BY <3>2, SkipNextIs, TakeNextIs
      <3>3. CASE UseOutput
        <4>1. log' = log \/ \E f : log' = [log EXCEPT !.preds = f]
          BY <3>3 DEF UseOutput
        <4> QED
          BY <4>1 DEF BasicInv, TypeInv, LogType
      <3>4. CASE Over
        BY <3>4, OverIs
      <3> QED
        BY <1>2, <3>1, <3>2, <3>3, <3>4
    <2>2. BeenSame
      BY <1>2, BeenStays
    <2>3. \A d \in Inputs : BeenAt(thr', d, k) <=> BeenAt(thr, d, k)
      BY <1>1, <2>2 DEF BeenSame
    <2>4. Through(thr', k, c) = Through(thr, k, c)
      BY <2>3 DEF Through
    <2> QED
      BY <1>1, <2>1, <2>4
  <1>3. CASE RunStage
    <2> DEFINE e == thr.e
               s == thr.s
               old == Through(thr, k, c)
               new == Through(thr', k, c)
               hit == k = s /\ e \notin Halo /\ c = CellAt(e, s + 1)
    <2>1. e \in Inputs /\ InSensor(e) /\ s \in 0 .. LastStage /\ s \in 0 .. 3
      BY <1>3, RunStageIs, LastStages DEF BasicInv, Place
    <2>2. log'.tdrop[k][c] = IF hit THEN (log.tdrop[k][c] + 1) % 256 ELSE log.tdrop[k][c]
      <3>1. log'.tdrop = Counted(e, s)
        BY <1>3, RunStageIs
      <3>2. log \in LogType
        BY DEF BasicInv, TypeInv
      <3> HIDE DEF e, s
      <3> QED
        BY <2>1, <3>1, <3>2, CountedIs
    <2>3. /\ \A d \in Inputs : BeenAt(thr', d, k) <=> BeenAt(thr, d, k) \/ (d = e /\ k = s)
          /\ \A d \in Inputs : BeenAt(thr, d, s) => d < e
      BY <1>1, <1>3, BeenGrows
    <2>4. IsFiniteSet(old) /\ Cardinality(old) \in Nat
      BY ThroughType
    <2>5. CASE hit
      <3>1. e \notin old
        <4>1. e \in Nat
          BY <2>1, InputType
        <4>2. ~BeenAt(thr, e, s)
          BY <2>1, <2>3, <4>1
        <4> QED
          BY <2>5, <4>2 DEF Through
      <3>2. new = old \cup {e}
        BY <2>1, <2>3, <2>5 DEF Through
      <3>3. Cardinality(new) = Cardinality(old) + 1
        BY <2>4, <3>1, <3>2, FS_AddElement
      <3>4. log'.tdrop[k][c] = ((Cardinality(old) % 256) + 1) % 256
        BY <1>1, <2>2, <2>5
      <3> HIDE DEF old, new
      <3>5. ((Cardinality(old) % 256) + 1) % 256 = (Cardinality(old) + 1) % 256
        <4> DEFINE n == Cardinality(old)
        <4> HIDE DEF n
        <4>1. n \in Nat => ((n % 256) + 1) % 256 = (n + 1) % 256
          OBVIOUS
        <4> QED
          BY <2>4, <4>1 DEF n
      <3> QED
        BY <3>3, <3>4, <3>5 DEF new
    <2>6. CASE ~hit
      <3>1. new = old
        BY <2>3, <2>6 DEF Through
      <3> QED
        BY <1>1, <2>2, <2>6, <3>1
    <2> QED
      BY <2>5, <2>6
  <1> QED
    BY <1>2, <1>3 DEF Thread

LEMMA UseOutputIs ==
  ASSUME PipelineAssumption, BasicInv, UseOutput
  PROVE  /\ log' \in LogType /\ snaps' = snaps /\ thr' \in ThrType
         /\ log'.hidden = log.hidden /\ log'.tdrop = log.tdrop /\ log'.lastT = log.lastT
         /\ Program # "decomp" => log' = log
         /\ Program = "decomp" => \A row \in Rows : log'.preds[row] =
              IF \E s \in HeadStages : row = Row(thr.e, s) THEN thr.e ELSE log.preds[row]
         /\ thr.at = "out"
         /\ thr'.e = thr.e /\ thr'.at = "over" /\ thr'.s = thr.s /\ thr'.dt = thr.dt
         /\ thr'.fed = thr.fed /\ thr'.measuring = thr.measuring
         /\ thr'.pass = thr.pass + 1 /\ thr'.oob = thr.oob
  <1> DEFINE more == thr.pass + 1
             hit(row) == \E s \in HeadStages : row = Row(thr.e, s)
             preds == [row \in Rows |-> IF hit(row) THEN thr.e ELSE log.preds[row]]
  <1>1. /\ thr \in ThrType /\ log \in LogType /\ more \in Nat /\ thr.e \in Nat
        /\ log.preds \in [Rows -> Nat]
    BY DEF BasicInv, TypeInv, ThrType, LogType
  <1>2. /\ thr.at = "out" /\ snaps' = snaps
        /\ thr' = [thr EXCEPT !.at = "over", !.pass = more]
    BY DEF UseOutput
  <1>3. log' = IF Program # "decomp" THEN log
            ELSE [log EXCEPT !.preds =
                    [row \in DOMAIN @ |-> IF \E s \in HeadStages : row = Row(thr.e, s)
                                          THEN thr.e ELSE @[row]]]
    BY DEF UseOutput
  <1>4. DOMAIN log.preds = Rows
    BY <1>1
  <1>5. Program # "decomp" => log' = log
    BY <1>3
  <1>6. Program = "decomp" => log' = [log EXCEPT !.preds = preds]
    BY <1>3, <1>4
  <1>7. preds \in [Rows -> Nat] /\ \A row \in Rows : preds[row] = IF hit(row) THEN thr.e ELSE log.preds[row]
    BY <1>1
  <1> HIDE DEF more, preds
  <1>8. /\ log' \in LogType
        /\ log'.hidden = log.hidden /\ log'.tdrop = log.tdrop /\ log'.lastT = log.lastT
        /\ Program = "decomp" => log'.preds = preds
    <2>1. CASE Program # "decomp"
      BY <1>1, <1>5, <2>1
    <2>2. CASE Program = "decomp"
      BY <1>1, <1>6, <1>7, <2>2 DEF LogType
    <2> QED
      BY <2>1, <2>2
  <1>9. thr' \in ThrType
    BY <1>1, <1>2 DEF ThrType
  <1>10. /\ thr'.e = thr.e /\ thr'.at = "over" /\ thr'.s = thr.s /\ thr'.dt = thr.dt
         /\ thr'.fed = thr.fed /\ thr'.measuring = thr.measuring
         /\ thr'.pass = more /\ thr'.oob = thr.oob
    BY <1>1, <1>2 DEF ThrType
  <1>11. Program = "decomp" => \A row \in Rows : log'.preds[row] = IF hit(row) THEN thr.e ELSE log.preds[row]
    BY <1>7, <1>8
  <1> QED
    BY <1>2, <1>5, <1>8, <1>9, <1>10, <1>11 DEF more

LEMMA BasicInit ==
  ASSUME PipelineAssumption, Init
  PROVE  BasicInv
  <1>1. LastStage \in 0 .. 3
    BY LastStages
  <1>2. thr \in ThrType
    BY DEF Init, ThrType
  <1>3. snaps \in Seq(Nat \X [Rows -> Nat])
    BY DEF Init
  <1> DEFINE hidden == [l \in Layers |-> [c \in Grid(l \div 2) |-> <<>>]]
             tdrop == [s \in 0 .. 2 |-> [c \in Grid(s + 1) |-> 0]]
             lastT == [c \in Grid(0) |-> 0]
             preds == [row \in 0 .. RowOffset(4) - 1 |-> 0]
  <1>4. log = [hidden |-> hidden, tdrop |-> tdrop, lastT |-> lastT, preds |-> preds]
    BY DEF Init, Zeroed
  <1>5. \A l \in Layers : hidden[l] \in CellsOf(l)
    BY DEF CellsOf
  <1>6. hidden \in HiddenType
    BY <1>5 DEF HiddenType
  <1>7. \A s \in 0 .. 2 : tdrop[s] \in CountersOf(s)
    BY DEF CountersOf
  <1>8. tdrop \in TdropType
    BY <1>7 DEF TdropType
  <1>9. lastT \in [Grid(0) -> Nat] /\ preds \in [Rows -> Nat]
    BY DEF Rows
  <1> HIDE DEF hidden, tdrop, lastT, preds
  <1>10. log \in LogType
    BY <1>4, <1>6, <1>8, <1>9 DEF LogType
  <1>11. /\ thr.e = 1 /\ thr.at = "next" /\ thr.measuring = FALSE
    BY DEF Init
  <1>12. Len(Pixels) \in Nat /\ Warmup \in Nat
    BY InputType DEF PipelineAssumption
  <1>13. Place(thr)
    BY <1>11, <1>12 DEF Place
  <1> QED
    BY <1>2, <1>3, <1>10, <1>13 DEF BasicInv, TypeInv

LEMMA BasicStep ==
  ASSUME PipelineAssumption, BasicInv, TdropAt(log.tdrop, thr), Thread(0)
  PROVE  BasicInv'
  <1>1. /\ thr.e \in Nat /\ thr.s \in Nat /\ thr.measuring \in BOOLEAN /\ Warmup \in Nat
        /\ Inputs = 1 .. Len(Pixels) /\ Len(Pixels) \in Nat /\ LastStage \in 0 .. 3 /\ Place(thr)
        /\ log \in LogType /\ snaps \in Seq(Nat \X [Rows -> Nat])
    <2>1. Warmup \in Nat
      BY InputType DEF PipelineAssumption
    <2>2. LastStage \in 0 .. 3
      BY LastStages
    <2> QED
      BY <2>1, <2>2, InputType DEF BasicInv, TypeInv, ThrType
  <1>2. TypeInv'
    <2>1. log' \in LogType /\ thr' \in ThrType /\ snaps' \in Seq(Nat \X [Rows -> Nat])
      <3>1. CASE StartMeasuring
        BY <1>1, <3>1, StartMeasuringIs
      <3>2. CASE TakeNext /\ InSensor(thr.e)
        BY <1>1, <3>2, TakeNextIs
      <3>3. CASE TakeNext /\ ~InSensor(thr.e)
        BY <1>1, <3>3, SkipNextIs
      <3>4. CASE RunStage
        BY <1>1, <3>4, RunStageIs
      <3>5. CASE UseOutput
        BY <1>1, <3>5, UseOutputIs
      <3>6. CASE Over
        BY <1>1, <3>6, OverIs
      <3> QED
        BY <3>1, <3>2, <3>3, <3>4, <3>5, <3>6 DEF Thread
    <2> QED
      BY <2>1 DEF TypeInv
  <1>3. Place(thr')
    <2>1. CASE StartMeasuring
      BY <1>1, <2>1, StartMeasuringIs DEF Place
    <2>2. CASE TakeNext /\ InSensor(thr.e)
      <3>1. Ends[thr.e].s >= 0 /\ 0 \in 0 .. LastStage
        BY <1>1, <2>2, TakeNextIs, EndFacts DEF Reaches
      <3>2. /\ thr.e \in Inputs /\ (thr.e <= Warmup \/ thr.measuring)
            /\ thr'.e = thr.e /\ thr'.at = "stage" /\ thr'.s = 0 /\ thr'.fed = TRUE
            /\ thr'.measuring = thr.measuring
        BY <2>2, TakeNextIs
      <3>3. thr'.e > Warmup => thr'.measuring
        BY <1>1, <3>2
      <3>4. thr'.measuring => thr'.e > Warmup
        BY <1>1, <3>2 DEF Place
      <3>5. thr'.at # "next" /\ thr'.at # "out" /\ thr'.at # "over"
        BY <3>2
      <3>6. InSensor(thr'.e) /\ thr'.s \in 0 .. LastStage /\ Ends[thr'.e].s >= thr'.s /\ thr'.fed
        BY <2>2, <3>1, <3>2
      <3>7. thr'.e \in Inputs /\ thr'.e \in 1 .. Len(Pixels) + 1 /\ thr'.e \in Nat
        BY <1>1, <3>2
      <3> QED
        BY <1>1, <3>3, <3>4, <3>5, <3>6, <3>7 DEF Place
    <2>3. CASE TakeNext /\ ~InSensor(thr.e)
      BY <1>1, <2>3, SkipNextIs DEF Place
    <2>4. CASE RunStage
      <3> DEFINE e == thr.e
                 s == thr.s
                 end == Ends[e]
      <3>1. /\ thr.at = "stage" /\ thr'.e = e /\ thr'.s = s + 1
            /\ thr'.at = IF ~Passes(e, s) THEN "over" ELSE IF s < LastStage THEN "stage" ELSE "out"
            /\ Passes(e, s) => thr'.fed = TRUE
            /\ thr'.measuring = thr.measuring
        BY <2>4, RunStageIs
      <3>2. Passes(e, s) <=> s \notin Drops(e)
        BY <3>1, PassesIs
      <3>3. e \in Inputs /\ InSensor(e) /\ s \in 0 .. LastStage /\ end.s >= s
        BY <1>1, <3>1 DEF Place
      <3>4. /\ s \in Drops(e) => end.s = s /\ ~end.passed
            /\ s \notin Drops(e) => IF s < LastStage THEN end.s >= s + 1 ELSE end.passed
        BY <3>3, EndFacts DEF Reaches
      <3>5. (thr.e > Warmup => thr.measuring) /\ (thr.measuring => thr.e > Warmup)
        BY <1>1, <3>1 DEF Place
      <3> HIDE DEF end, e, s
      <3>6. CASE ~Passes(e, s)
        BY <1>1, <3>1, <3>2, <3>3, <3>4, <3>5, <3>6 DEF Place, end, e, s
      <3>7. CASE Passes(e, s) /\ s < LastStage
        BY <1>1, <3>1, <3>2, <3>3, <3>4, <3>5, <3>7 DEF Place, end, e, s
      <3>8. CASE Passes(e, s) /\ ~(s < LastStage)
        BY <1>1, <3>1, <3>2, <3>3, <3>4, <3>5, <3>8 DEF Place, end, e, s
      <3> QED
        BY <3>6, <3>7, <3>8
    <2>5. CASE UseOutput
      <3>1. Ends[thr.e].passed => Ends[thr.e].s = LastStage
        BY <1>1, <2>5, UseOutputIs, EndFacts DEF Place, Reaches
      <3> QED
        BY <1>1, <2>5, <3>1, UseOutputIs DEF Place
    <2>6. CASE Over
      BY <1>1, <2>6, OverIs DEF Place
    <2> QED
      BY <2>1, <2>2, <2>3, <2>4, <2>5, <2>6 DEF Thread
  <1> QED
    BY <1>2, <1>3 DEF BasicInv

-----------------------------------------------------------------------------
(* Times, predictions and counters. *)
Latest(v, S) == IF S = {} THEN v = 0 ELSE v \in S /\ \A d \in S : d <= v

LEMMA LatestMore ==
  ASSUME NEW S, S \subseteq Int, NEW new \in Nat, \A d \in S : d < new
  PROVE  Latest(new, S \cup {new})
  <1>1. S \cup {new} # {} /\ new \in S \cup {new} /\ new <= new
    OBVIOUS
  <1>2. \A d \in S \cup {new} : d <= new
    OBVIOUS
  <1> QED
    BY <1>1, <1>2 DEF Latest

\* The events whose time the pixel of a cell has seen.
Seen(t, c) == {d \in Inputs : /\ InSensor(d) /\ CellAt(d, 0) = c
                              /\ d < t.e \/ (d = t.e /\ t.at # "next")}
SamePixel(t) == {d \in 1 .. t.e - 1 : Pixels[d] = Pixels[t.e]}
LastAt(lastT, t) == /\ \A c \in Grid(0) : Latest(lastT[c], Seen(t, c))
                    /\ t.at = "stage" => Latest(t.dt, SamePixel(t))

LEMMA SeenBefore ==
  ASSUME PipelineAssumption, NEW t, t.e \in Inputs, InSensor(t.e), t.at = "next"
  PROVE  Seen(t, CellAt(t.e, 0)) = SamePixel(t)
  <1>1. Inputs = 1 .. Len(Pixels) /\ Len(Pixels) \in Nat
    BY InputType
  <1>2. ASSUME NEW d \in Inputs PROVE InSensor(d) /\ CellAt(d, 0) = CellAt(t.e, 0) <=> Pixels[d] = Pixels[t.e]
    <2>1. CASE InSensor(d)
      BY <2>1, OneCell
    <2>2. CASE ~InSensor(d)
      BY <2>2 DEF InSensor
    <2> QED
      BY <2>1, <2>2
  <1>3. \A d : d \in 1 .. t.e - 1 <=> d \in Inputs /\ d < t.e
    BY <1>1
  <1>4. \A d \in Inputs : d \in Seen(t, CellAt(t.e, 0)) <=> Pixels[d] = Pixels[t.e] /\ d < t.e
    BY <1>2 DEF Seen
  <1>5. \A d \in Inputs : d \in SamePixel(t) <=> Pixels[d] = Pixels[t.e] /\ d < t.e
    BY <1>3 DEF SamePixel
  <1>6. SamePixel(t) \subseteq Inputs /\ Seen(t, CellAt(t.e, 0)) \subseteq Inputs
    BY <1>3 DEF SamePixel, Seen
  <1> QED
    BY <1>4, <1>5, <1>6

LEMMA LastStep ==
  ASSUME PipelineAssumption, BasicInv, Thread(0), LastAt(log.lastT, thr)
  PROVE  LastAt(log'.lastT, thr')
  <1>1. /\ Inputs = 1 .. Len(Pixels) /\ Len(Pixels) \in Nat /\ Place(thr) /\ thr.e \in Nat
    BY InputType DEF BasicInv, TypeInv, ThrType
  <1>2. \A c \in Grid(0) : Latest(log.lastT[c], Seen(thr, c))
    BY DEF LastAt
  <1>3. CASE StartMeasuring
    <2>1. log' = log /\ thr'.e = thr.e /\ thr'.at = thr.at /\ thr'.dt = thr.dt
      BY <1>3, StartMeasuringIs
    <2>2. SamePixel(thr') = SamePixel(thr) /\ \A c : Seen(thr', c) = Seen(thr, c)
      BY <2>1 DEF SamePixel, Seen
    <2> QED
      BY <2>1, <2>2 DEF LastAt
  <1>4. CASE TakeNext /\ InSensor(thr.e)
    <2> DEFINE e == thr.e
               at == CellAt(e, 0)
    <2>1. /\ e \in Inputs /\ thr.at = "next" /\ thr'.e = e /\ thr'.at = "stage"
          /\ thr'.dt = log.lastT[at]
          /\ \A c \in Grid(0) : log'.lastT[c] = IF c = at THEN e ELSE log.lastT[c]
      BY <1>4, TakeNextIs
    <2>2. at \in Grid(0)
      BY <1>4, <2>1, CoordinateType
    <2>3. Seen(thr, at) = SamePixel(thr) /\ SamePixel(thr') = SamePixel(thr)
      BY <1>4, <2>1, SeenBefore DEF SamePixel
    <2>4. Latest(thr'.dt, SamePixel(thr'))
      BY <1>2, <2>1, <2>2, <2>3
    <2>5. ASSUME NEW c \in Grid(0) PROVE Latest(log'.lastT[c], Seen(thr', c))
      <3>1. CASE c = at
        <4>1. Seen(thr', c) = Seen(thr, c) \cup {e}
          BY <1>4, <2>1, <3>1 DEF Seen
        <4>2. \A d \in Seen(thr, c) : d < e
          BY <2>1 DEF Seen
        <4>3. e \in Nat /\ log'.lastT[c] = e /\ Seen(thr, c) \subseteq Int
          BY <1>1, <2>1, <3>1 DEF Seen
        <4> HIDE DEF e, at
        <4> QED
          BY <4>1, <4>2, <4>3, LatestMore
      <3>2. CASE c # at
        <4>1. Seen(thr', c) = Seen(thr, c)
          BY <1>4, <2>1, <3>2 DEF Seen
        <4> QED
          BY <1>2, <2>1, <3>2, <4>1
      <3> QED
        BY <3>1, <3>2
    <2> QED
      BY <2>4, <2>5 DEF LastAt
  <1>5. CASE TakeNext /\ ~InSensor(thr.e)
    <2>1. log' = log /\ thr'.e = thr.e /\ thr.at = "next" /\ thr'.at = "over"
      BY <1>5, SkipNextIs
    <2>2. \A c : Seen(thr', c) = Seen(thr, c)
      BY <1>5, <2>1 DEF Seen
    <2> QED
      BY <1>2, <2>1, <2>2 DEF LastAt
  <1>6. CASE RunStage
    <2>1. /\ log'.lastT = log.lastT /\ thr'.e = thr.e /\ thr.at = "stage" /\ thr'.dt = thr.dt
          /\ thr'.at = IF ~Passes(thr.e, thr.s) THEN "over"
                       ELSE IF thr.s < LastStage THEN "stage" ELSE "out"
      BY <1>6, RunStageIs
    <2>2. thr'.at # "next"
      BY <2>1
    <2>3. SamePixel(thr') = SamePixel(thr) /\ \A c : Seen(thr', c) = Seen(thr, c)
      BY <2>1, <2>2 DEF SamePixel, Seen
    <2> QED
      BY <2>1, <2>3 DEF LastAt
  <1>7. CASE UseOutput
    <2>1. log'.lastT = log.lastT /\ thr'.e = thr.e /\ thr.at = "out" /\ thr'.at = "over"
      BY <1>7, UseOutputIs
    <2>2. \A c : Seen(thr', c) = Seen(thr, c)
      BY <2>1 DEF Seen
    <2> QED
      BY <1>2, <2>1, <2>2 DEF LastAt
  <1>8. CASE Over
    <2>1. log' = log /\ thr'.e = thr.e + 1 /\ thr.at = "over" /\ thr'.at = "next"
      BY <1>8, OverIs
    <2>2. \A d \in Inputs : d < thr.e + 1 <=> d < thr.e \/ d = thr.e
      BY <1>1
    <2>3. \A c : Seen(thr', c) = Seen(thr, c)
      BY <2>1, <2>2 DEF Seen
    <2> QED
      BY <1>2, <2>1, <2>3 DEF LastAt
  <1> QED
    BY <1>3, <1>4, <1>5, <1>6, <1>7, <1>8 DEF Thread

\* Counters: the measured events that are over.
PassedIn(t) == {d \in Inputs : d > Warmup /\ Ends[d].passed /\ (d < t.e \/ (d = t.e /\ t.at = "over"))}
OutsideIn(t) == {d \in Inputs : d > Warmup /\ ~InSensor(d) /\ (d < t.e \/ (d = t.e /\ t.at = "over"))}
CountsAt(t) == t.measuring => /\ t.pass = Cardinality(PassedIn(t))
                              /\ t.oob = Cardinality(OutsideIn(t))

LEMMA CountsType ==
  ASSUME PipelineAssumption, NEW t
  PROVE  IsFiniteSet(PassedIn(t)) /\ IsFiniteSet(OutsideIn(t))
  <1>1. IsFiniteSet(Inputs)
    BY InputType, FS_Interval
  <1>2. PassedIn(t) \subseteq Inputs /\ OutsideIn(t) \subseteq Inputs
    BY DEF PassedIn, OutsideIn
  <1> QED
    BY <1>1, <1>2, FS_Subset

LEMMA CountsStep ==
  ASSUME PipelineAssumption, BasicInv, TdropAt(log.tdrop, thr), Thread(0), CountsAt(thr)
  PROVE  CountsAt(thr')
  <1>1. /\ Inputs = 1 .. Len(Pixels) /\ Len(Pixels) \in Nat /\ Place(thr) /\ thr.e \in Nat
        /\ Warmup \in Nat
    BY InputType DEF BasicInv, TypeInv, ThrType, PipelineAssumption
  <1>2. CASE StartMeasuring
    <2>1. thr'.e = Warmup + 1 /\ thr'.at = "next" /\ thr'.pass = 0 /\ thr'.oob = 0
      BY <1>2, StartMeasuringIs
    <2>2. PassedIn(thr') = {} /\ OutsideIn(thr') = {}
      BY <1>1, <2>1 DEF PassedIn, OutsideIn
    <2> QED
      BY <2>1, <2>2, FS_EmptySet DEF CountsAt
  <1>3. CASE TakeNext /\ InSensor(thr.e)
    <2>1. /\ thr.at = "next" /\ thr'.e = thr.e /\ thr'.at = "stage" /\ thr'.measuring = thr.measuring
          /\ thr'.pass = thr.pass /\ thr'.oob = thr.oob
      BY <1>3, TakeNextIs
    <2>2. PassedIn(thr') = PassedIn(thr) /\ OutsideIn(thr') = OutsideIn(thr)
      BY <2>1 DEF PassedIn, OutsideIn
    <2> QED
      BY <2>1, <2>2 DEF CountsAt
  <1>4. CASE TakeNext /\ ~InSensor(thr.e)
    <2>1. /\ thr.at = "next" /\ thr'.e = thr.e /\ thr'.at = "over" /\ thr'.measuring = thr.measuring
          /\ thr'.pass = thr.pass /\ thr'.oob = thr.oob + 1 /\ thr.e \in Inputs
      BY <1>4, SkipNextIs
    <2>2. ~Ends[thr.e].passed
      BY <1>4, <2>1, EndFacts DEF Reaches
    <2>3. PassedIn(thr') = PassedIn(thr)
      BY <2>1, <2>2 DEF PassedIn
    <2>4. ASSUME thr.measuring PROVE OutsideIn(thr') = OutsideIn(thr) \cup {thr.e} /\ thr.e \notin OutsideIn(thr)
      <3>1. thr.e > Warmup
        BY <1>1, <2>4 DEF Place
      <3>2. OutsideIn(thr') = OutsideIn(thr) \cup {thr.e}
        BY <1>4, <2>1, <3>1 DEF OutsideIn
      <3>3. thr.e \notin OutsideIn(thr)
        BY <1>1, <2>1 DEF OutsideIn
      <3> QED
        BY <3>2, <3>3
    <2>5. ASSUME thr.measuring PROVE Cardinality(OutsideIn(thr')) = Cardinality(OutsideIn(thr)) + 1
      BY <2>4, <2>5, CountsType, FS_AddElement
    <2> QED
      BY <2>1, <2>3, <2>5 DEF CountsAt
  <1>5. CASE RunStage
    <2>1. /\ thr.at = "stage" /\ thr'.e = thr.e /\ thr'.measuring = thr.measuring
          /\ thr'.pass = thr.pass /\ thr'.oob = thr.oob
          /\ thr'.at = IF ~Passes(thr.e, thr.s) THEN "over"
                       ELSE IF thr.s < LastStage THEN "stage" ELSE "out"
      BY <1>5, RunStageIs
    <2>2. /\ thr.e \in Inputs /\ InSensor(thr.e) /\ thr.s \in 0 .. LastStage /\ Ends[thr.e].s >= thr.s
      BY <1>1, <2>1 DEF Place
    <2>3. thr'.at = "over" => ~Ends[thr.e].passed
      <3>1. thr'.at = "over" => thr.s \in Drops(thr.e)
        BY <2>1, PassesIs
      <3> QED
        BY <2>2, <3>1, EndFacts DEF Reaches
    <2>4. PassedIn(thr') = PassedIn(thr) /\ OutsideIn(thr') = OutsideIn(thr)
      BY <2>1, <2>2, <2>3 DEF PassedIn, OutsideIn
    <2> QED
      BY <2>1, <2>4 DEF CountsAt
  <1>6. CASE UseOutput
    <2>1. /\ thr.at = "out" /\ thr'.e = thr.e /\ thr'.at = "over" /\ thr'.measuring = thr.measuring
          /\ thr'.pass = thr.pass + 1 /\ thr'.oob = thr.oob
      BY <1>6, UseOutputIs
    <2>2. thr.e \in Inputs /\ InSensor(thr.e) /\ Ends[thr.e].passed
      BY <1>1, <2>1 DEF Place
    <2>3. OutsideIn(thr') = OutsideIn(thr)
      BY <2>1, <2>2 DEF OutsideIn
    <2>4. ASSUME thr.measuring PROVE PassedIn(thr') = PassedIn(thr) \cup {thr.e} /\ thr.e \notin PassedIn(thr)
      <3>1. thr.e > Warmup
        BY <1>1, <2>4 DEF Place
      <3>2. PassedIn(thr') = PassedIn(thr) \cup {thr.e}
        BY <2>1, <2>2, <3>1 DEF PassedIn
      <3>3. thr.e \notin PassedIn(thr)
        BY <1>1, <2>1 DEF PassedIn
      <3> QED
        BY <3>2, <3>3
    <2>5. ASSUME thr.measuring PROVE Cardinality(PassedIn(thr')) = Cardinality(PassedIn(thr)) + 1
      BY <2>4, <2>5, CountsType, FS_AddElement
    <2> QED
      BY <2>1, <2>3, <2>5 DEF CountsAt
  <1>7. CASE Over
    <2>1. /\ thr'.e = thr.e + 1 /\ thr.at = "over" /\ thr'.at = "next" /\ thr'.measuring = thr.measuring
          /\ thr'.pass = thr.pass /\ thr'.oob = thr.oob
      BY <1>7, OverIs
    <2>2. \A d \in Inputs : d < thr.e + 1 <=> d < thr.e \/ d = thr.e
      BY <1>1
    <2>3. PassedIn(thr') = PassedIn(thr) /\ OutsideIn(thr') = OutsideIn(thr)
      BY <2>1, <2>2 DEF PassedIn, OutsideIn
    <2> QED
      BY <2>1, <2>3 DEF CountsAt
  <1> QED
    BY <1>2, <1>3, <1>4, <1>5, <1>6, <1>7 DEF Thread

CellsOfStage(s) == Hs(s) * Ws(s)

LEMMA OffsetGrows ==
  ASSUME PipelineAssumption
  PROVE  /\ HeadStages \subseteq 0 .. 3 /\ RowOffset(4) \in Nat
         /\ \A s \in HeadStages : /\ RowOffset(s) \in Nat /\ RowOffset(s + 1) \in Nat
                                  /\ CellsOfStage(s) \in Nat /\ CellsOfStage(s) = Ws(s) * Hs(s)
                                  /\ RowOffset(s + 1) = CellsOfStage(s) + RowOffset(s)
  <1> DEFINE f == [k \in HeadStages |-> Hs(k) * Ws(k)]
             Under(s) == {k \in HeadStages : k < s}
  <1>1. HeadStages \subseteq 0 .. 3
    BY DEF HeadStages, PipelineAssumption
  <1>2. IsFiniteSet(HeadStages)
    <2> DEFINE low == 4 - Levels
               high == 3
    <2>1. low \in Int /\ high \in Int /\ HeadStages = low .. high
      BY DEF HeadStages, PipelineAssumption
    <2> HIDE DEF low, high
    <2> QED
      BY <2>1, FS_Interval
  <1>3. \A k \in HeadStages : f[k] \in Nat /\ f[k] = CellsOfStage(k) /\ CellsOfStage(k) = Ws(k) * Hs(k)
    <2> TAKE k \in HeadStages
    <2>1. Ws(k) \in Nat /\ Hs(k) \in Nat
      BY <1>1, SizeType
    <2> QED
      BY <2>1 DEF CellsOfStage
  <1>4. \A s : RowOffset(s) = SumFunctionOnSet(f, Under(s))
    BY DEF RowOffset
  <1> HIDE DEF f
  <1>5. IntOn(f, HeadStages)
    BY <1>3 DEF IntOn
  <1>6. ASSUME NEW s PROVE RowOffset(s) \in Nat
    <2>1. IsFiniteSet(Under(s)) /\ \A k \in Under(s) : f[k] \in Nat
      BY <1>2, <1>3, FS_Subset
    <2>2. Below(f, f, Under(s))
      BY <2>1 DEF Below
    <2> HIDE DEF Under
    <2>3. SumFunctionOnSet(f, Under(s)) \in Nat
      BY <2>1, <2>2, SumOfLeq
    <2> QED
      BY <1>4, <2>3
  <1>7. ASSUME NEW s \in HeadStages PROVE RowOffset(s + 1) = CellsOfStage(s) + RowOffset(s)
    <2>1. Under(s) \in SUBSET HeadStages /\ s \notin Under(s)
      BY <1>1
    <2>2. Under(s + 1) = Under(s) \cup {s}
      <3>1. s \in 0 .. 3 /\ \A k \in HeadStages : k \in 0 .. 3
        BY <1>1
      <3>2. \A k \in 0 .. 3 : k < s + 1 <=> k < s \/ k = s
        BY <3>1
      <3>3. \A k \in HeadStages : k < s + 1 <=> k < s \/ k = s
        BY <3>1, <3>2
      <3> HIDE DEF HeadStages
      <3> QED
        BY <3>3
    <2> DEFINE U == Under(s)
               V == Under(s + 1)
    <2> HIDE DEF U, V
    <2>3. SumFunctionOnSet(f, V) = f[s] + SumFunctionOnSet(f, U)
      BY <1>2, <1>5, <2>1, <2>2, SumOfMore DEF U, V
    <2> QED
      BY <1>3, <1>4, <2>3 DEF U, V
  <1> QED
    BY <1>1, <1>3, <1>6, <1>7

\* The head stages have rows of their own.
LEMMA RowsApart ==
  ASSUME PipelineAssumption, NEW s \in HeadStages, NEW t \in HeadStages,
         NEW a \in Grid(s), NEW b \in Grid(t)
  PROVE  /\ RowOffset(s) + a \in Rows
         /\ RowOffset(s) + a = RowOffset(t) + b => s = t /\ a = b
  <1>1. HeadStages = 4 - Levels .. 3 /\ Levels \in 1 .. 4
    BY DEF HeadStages, PipelineAssumption
  <1>2. \A k \in HeadStages : /\ k \in 0 .. 3 /\ RowOffset(k) \in Nat /\ RowOffset(k + 1) \in Nat
                              /\ RowOffset(k + 1) >= RowOffset(k)
    <2> TAKE k \in HeadStages
    <2>1. /\ k \in 0 .. 3 /\ RowOffset(k) \in Nat /\ RowOffset(k + 1) \in Nat
          /\ CellsOfStage(k) \in Nat /\ RowOffset(k + 1) = CellsOfStage(k) + RowOffset(k)
      BY OffsetGrows
    <2> QED
      BY <2>1
  <1>3. \A k \in HeadStages : RowOffset(3) >= RowOffset(k) /\ RowOffset(4) >= RowOffset(k + 1)
    <2> TAKE k \in HeadStages
    <2>1. 3 \in HeadStages /\ 3 + 1 = 4
      BY <1>1
    <2>2. CASE k = 3
      BY <1>2, <2>1, <2>2
    <2>3. CASE k = 2
      BY <1>2, <2>1, <2>3, 2 + 1 = 3
    <2>4. CASE k = 1
      <3>1. 2 \in HeadStages /\ 2 + 1 = 3 /\ 1 + 1 = 2
        BY <1>1, <2>4
      <3> QED
        BY <1>2, <2>1, <2>4, <3>1
    <2>5. CASE k = 0
      <3>1. 2 \in HeadStages /\ 1 \in HeadStages /\ 2 + 1 = 3 /\ 1 + 1 = 2 /\ 0 + 1 = 1
        BY <1>1, <2>5
      <3> QED
        BY <1>2, <2>1, <2>5, <3>1
    <2> QED
      BY <1>2, <2>2, <2>3, <2>4, <2>5
  <1>4. \A k \in HeadStages : \A m \in HeadStages : k < m => RowOffset(k + 1) <= RowOffset(m)
    <2> TAKE k \in HeadStages
    <2> TAKE m \in HeadStages
    <2>1. 3 \in HeadStages
      BY <1>1
    <2>2. SUFFICES ASSUME k < m PROVE RowOffset(k + 1) <= RowOffset(m)
      OBVIOUS
    <2>3. CASE m = k + 1
      BY <1>2, <2>3
    <2>4. CASE m = k + 2
      <3>1. k + 1 \in HeadStages /\ (k + 1) + 1 = k + 2
        BY <1>1, <1>2, <2>4
      <3> QED
        BY <1>2, <2>4, <3>1
    <2>5. CASE m = k + 3
      <3>1. /\ k + 1 \in HeadStages /\ (k + 1) + 1 = k + 2
            /\ k + 2 \in HeadStages /\ (k + 2) + 1 = k + 3
        BY <1>1, <1>2, <2>5
      <3>2. RowOffset(k + 2) >= RowOffset(k + 1) /\ RowOffset(k + 3) >= RowOffset(k + 2)
        BY <1>2, <3>1
      <3>3. RowOffset(k + 1) \in Nat /\ RowOffset(k + 2) \in Nat /\ RowOffset(k + 3) \in Nat
        BY <1>2, <2>5, <3>1
      <3> QED
        BY <2>5, <3>2, <3>3
    <2>6. k \in 0 .. 3 /\ m \in 0 .. 3
      BY <1>2
    <2> QED
      BY <2>2, <2>3, <2>4, <2>5, <2>6
  <1>5. \A k \in HeadStages : \A c \in Grid(k) :
           /\ c \in Nat /\ RowOffset(k) + c < RowOffset(k + 1) /\ RowOffset(k) + c \in Nat
    <2> TAKE k \in HeadStages
    <2> TAKE c \in Grid(k)
    <2>1. /\ RowOffset(k + 1) = CellsOfStage(k) + RowOffset(k) /\ RowOffset(k) \in Nat
          /\ CellsOfStage(k) = Ws(k) * Hs(k) /\ CellsOfStage(k) \in Nat
      BY OffsetGrows
    <2>2. c \in 0 .. CellsOfStage(k) - 1
      BY <2>1 DEF Grid
    <2> QED
      BY <2>1, <2>2
  <1>6. RowOffset(s) + a \in Rows
    <2>1. /\ RowOffset(s) + a \in Nat /\ RowOffset(s) + a < RowOffset(s + 1)
          /\ RowOffset(s + 1) <= RowOffset(4) /\ RowOffset(s + 1) \in Nat /\ RowOffset(4) \in Nat
      BY <1>2, <1>3, <1>5, OffsetGrows
    <2> QED
      BY <2>1 DEF Rows
  <1>7. ASSUME RowOffset(s) + a = RowOffset(t) + b PROVE s = t /\ a = b
    <2>1. /\ s \in 0 .. 3 /\ t \in 0 .. 3 /\ RowOffset(s) \in Nat /\ RowOffset(t) \in Nat
          /\ RowOffset(s + 1) \in Nat /\ RowOffset(t + 1) \in Nat
      BY <1>2
    <2>2. /\ RowOffset(s) + a < RowOffset(s + 1) /\ RowOffset(t) + b < RowOffset(t + 1)
          /\ a \in Nat /\ b \in Nat
      BY <1>5
    <2>3. ~(s < t)
      BY <1>4, <1>7, <2>1, <2>2
    <2>4. ~(t < s)
      BY <1>4, <1>7, <2>1, <2>2
    <2>5. s = t
      BY <2>1, <2>3, <2>4
    <2> QED
      BY <1>7, <2>1, <2>2, <2>5
  <1> QED
    BY <1>6, <1>7

\* The events whose prediction a cell of a head stage has after event n, or before it.
Shown(n, over, s, c) ==
  {d \in Inputs : /\ Program = "decomp" /\ Ends[d].passed /\ CellAt(d, s) = c
                  /\ d < n \/ (d = n /\ over)}
PredsAre(preds, n, over) ==
  \A s \in HeadStages : \A c \in Grid(s) : Latest(preds[RowOffset(s) + c], Shown(n, over, s, c))
SnapsAre(taken) == \A i \in DOMAIN taken : PredsAre(taken[i][2], taken[i][1], TRUE)
PredsAt(preds, t, taken) == PredsAre(preds, t.e, t.at = "over") /\ SnapsAre(taken)

LEMMA PredsStay ==
  ASSUME NEW preds, NEW n, NEW over, NEW m, NEW still, PredsAre(preds, n, over),
         \A d \in Inputs : Ends[d].passed => (d < m \/ (d = m /\ still) <=> d < n \/ (d = n /\ over))
  PROVE  PredsAre(preds, m, still)
  <1>1. \A s, c : Shown(m, still, s, c) = Shown(n, over, s, c)
    BY DEF Shown
  <1> QED
    BY <1>1 DEF PredsAre

\* The heads of an event that passed write its cells and no others.
LEMMA PredsGrow ==
  ASSUME PipelineAssumption, NEW preds, NEW after, NEW e \in Inputs, PredsAre(preds, e, FALSE),
         Ends[e].passed, InSensor(e), Program = "decomp",
         \A row \in Rows : after[row] = IF \E s \in HeadStages : row = Row(e, s) THEN e ELSE preds[row]
  PROVE  PredsAre(after, e, TRUE)
  <1> SUFFICES ASSUME NEW s \in HeadStages, NEW c \in Grid(s)
               PROVE  Latest(after[RowOffset(s) + c], Shown(e, TRUE, s, c))
    BY DEF PredsAre
  <1> DEFINE row == RowOffset(s) + c
  <1>1. row \in Rows
    BY RowsApart
  <1>2. e \in Nat /\ Shown(e, FALSE, s, c) \subseteq Int /\ \A d \in Shown(e, FALSE, s, c) : d < e
    BY InputType DEF Shown
  <1>3. \A k \in HeadStages : CellAt(e, k) \in Grid(k) /\ Row(e, k) = RowOffset(k) + CellAt(e, k)
    BY OffsetGrows, CoordinateType DEF Row
  <1>4. (\E k \in HeadStages : row = Row(e, k)) <=> c = CellAt(e, s)
    <2>1. c = CellAt(e, s) => row = Row(e, s)
      BY <1>3
    <2>2. ASSUME NEW k \in HeadStages, row = Row(e, k) PROVE c = CellAt(e, s)
      <3>1. CellAt(e, k) \in Grid(k) /\ RowOffset(s) + c = RowOffset(k) + CellAt(e, k)
        BY <1>3, <2>2
      <3>2. s = k /\ c = CellAt(e, k)
        BY <3>1, RowsApart
      <3> QED
        BY <3>2
    <2> QED
      BY <2>1, <2>2
  <1>5. after[row] = IF c = CellAt(e, s) THEN e ELSE preds[row]
    BY <1>1, <1>4
  <1>6. Latest(preds[row], Shown(e, FALSE, s, c))
    BY DEF PredsAre
  <1>7. CASE c = CellAt(e, s)
    <2>1. Shown(e, TRUE, s, c) = Shown(e, FALSE, s, c) \cup {e}
      BY <1>7 DEF Shown
    <2>2. after[row] = e
      BY <1>5, <1>7
    <2>3. Latest(e, Shown(e, FALSE, s, c) \cup {e})
      BY <1>2, LatestMore
    <2> QED
      BY <2>1, <2>2, <2>3
  <1>8. CASE c # CellAt(e, s)
    <2>1. Shown(e, TRUE, s, c) = Shown(e, FALSE, s, c)
      BY <1>8 DEF Shown
    <2> QED
      BY <1>5, <1>6, <1>8, <2>1
  <1> QED
    BY <1>7, <1>8

LEMMA PredsStep ==
  ASSUME PipelineAssumption, BasicInv, TdropAt(log.tdrop, thr), Thread(0), PredsAt(log.preds, thr, snaps)
  PROVE  PredsAt(log'.preds, thr', snaps')
  <1>1. /\ Inputs = 1 .. Len(Pixels) /\ Len(Pixels) \in Nat /\ Place(thr) /\ thr.e \in Nat
        /\ snaps \in Seq(Nat \X [Rows -> Nat])
    BY InputType DEF BasicInv, TypeInv, ThrType
  <1> DEFINE over == thr.at = "over"
             still == thr'.at = "over"
             e == thr.e
             m == thr'.e
  <1>2. PredsAre(log.preds, e, over) /\ SnapsAre(snaps)
    BY DEF PredsAt
  <1>3. ASSUME log'.preds = log.preds, snaps' = snaps,
               \A d \in Inputs : Ends[d].passed => (d < m \/ (d = m /\ still) <=> d < e \/ (d = e /\ over))
        PROVE  PredsAt(log'.preds, thr', snaps')
    <2> HIDE DEF over, still, e, m
    <2>1. PredsAre(log.preds, m, still)
      BY <1>2, <1>3, PredsStay
    <2> QED
      BY <1>2, <1>3, <2>1 DEF PredsAt, still, m
  <1>4. CASE StartMeasuring
    <2>1. log' = log /\ snaps' = snaps /\ thr'.e = thr.e /\ thr'.at = thr.at
      BY <1>4, StartMeasuringIs
    <2> QED
      BY <1>3, <2>1
  <1>5. CASE TakeNext /\ InSensor(thr.e)
    <2>1. /\ log'.preds = log.preds /\ snaps' = snaps /\ thr'.e = thr.e
          /\ thr.at = "next" /\ thr'.at = "stage"
      BY <1>5, TakeNextIs
    <2> QED
      BY <1>3, <2>1
  <1>6. CASE TakeNext /\ ~InSensor(thr.e)
    <2>1. /\ log' = log /\ snaps' = snaps /\ thr'.e = thr.e /\ thr.at = "next" /\ thr.e \in Inputs
      BY <1>6, SkipNextIs
    <2>2. ~Ends[thr.e].passed
      BY <1>6, <2>1, EndFacts DEF Reaches
    <2> QED
      BY <1>3, <2>1, <2>2
  <1>7. CASE RunStage
    <2>1. /\ log'.preds = log.preds /\ snaps' = snaps /\ thr'.e = thr.e /\ thr.at = "stage"
          /\ thr'.at = IF ~Passes(thr.e, thr.s) THEN "over"
                       ELSE IF thr.s < LastStage THEN "stage" ELSE "out"
      BY <1>7, RunStageIs
    <2>2. /\ thr.e \in Inputs /\ InSensor(thr.e) /\ thr.s \in 0 .. LastStage /\ Ends[thr.e].s >= thr.s
      BY <1>1, <2>1 DEF Place
    <2>3. thr'.at = "over" => ~Ends[thr.e].passed
      <3>1. thr'.at = "over" => thr.s \in Drops(thr.e)
        BY <2>1, PassesIs
      <3> QED
        BY <2>2, <3>1, EndFacts DEF Reaches
    <2>4. thr.at # "over"
      BY <2>1
    <2> QED
      BY <1>3, <2>1, <2>3, <2>4
  <1>8. CASE UseOutput
    <2>1. /\ snaps' = snaps /\ thr.at = "out" /\ thr'.e = thr.e /\ thr'.at = "over"
          /\ Program # "decomp" => log' = log
          /\ Program = "decomp" => \A row \in Rows : log'.preds[row] =
               IF \E s \in HeadStages : row = Row(thr.e, s) THEN thr.e ELSE log.preds[row]
      BY <1>8, UseOutputIs
    <2>2. thr.e \in Inputs /\ InSensor(thr.e) /\ Ends[thr.e].passed
      BY <1>1, <2>1 DEF Place
    <2>3. over = FALSE /\ still = TRUE
      BY <2>1
    <2>4. PredsAre(log.preds, e, FALSE)
      BY <1>2, <2>3
    <2>5. PredsAre(log'.preds, e, TRUE)
      <3>1. CASE Program = "decomp"
        <4> DEFINE after == log'.preds
                   preds == log.preds
        <4>1. \A row \in Rows : after[row] = IF \E s \in HeadStages : row = Row(e, s) THEN e ELSE preds[row]
          BY <2>1, <3>1
        <4> HIDE DEF after, preds
        <4>2. PredsAre(preds, e, FALSE)
          BY <2>4 DEF preds
        <4>3. PredsAre(after, e, TRUE)
          BY <2>2, <3>1, <4>1, <4>2, PredsGrow
        <4> QED
          BY <4>3 DEF after
      <3>2. CASE Program # "decomp"
        <4>1. log'.preds = log.preds /\ \A s, c : Shown(e, TRUE, s, c) = Shown(e, FALSE, s, c)
          BY <2>1, <3>2 DEF Shown
        <4> QED
          BY <2>4, <4>1 DEF PredsAre
      <3> QED
        BY <3>1, <3>2
    <2> QED
      BY <1>2, <2>1, <2>3, <2>5 DEF PredsAt
  <1>9. CASE Over
    <2>1. /\ log' = log /\ thr'.e = thr.e + 1 /\ thr.at = "over" /\ thr'.at = "next"
          /\ snaps' = snaps \/ snaps' = Append(snaps, <<thr.e, log.preds>>)
      BY <1>9, OverIs
    <2>2. \A d \in Inputs : d < thr.e + 1 <=> d < thr.e \/ d = thr.e
      BY <1>1
    <2>3. over = TRUE /\ still = FALSE
      BY <2>1
    <2>4. PredsAre(log'.preds, m, still)
      <3>1. \A d \in Inputs : d < m \/ (d = m /\ still) <=> d < e \/ (d = e /\ over)
        BY <2>1, <2>2
      <3>2. log'.preds = log.preds
        BY <2>1
      <3> HIDE DEF e, m, over, still
      <3>3. PredsAre(log.preds, m, still)
        BY <1>2, <3>1, PredsStay
      <3> QED
        BY <3>2, <3>3
    <2>5. SnapsAre(snaps')
      <3>1. CASE snaps' = snaps
        BY <1>2, <3>1
      <3>2. CASE snaps' = Append(snaps, <<thr.e, log.preds>>)
        <4> DEFINE new == <<thr.e, log.preds>>
        <4>1. PredsAre(new[2], new[1], TRUE)
          BY <1>2, <2>3
        <4> HIDE DEF new
        <4>2. /\ Len(Append(snaps, new)) = Len(snaps) + 1 /\ Append(snaps, new)[Len(snaps) + 1] = new
              /\ \A i \in 1 .. Len(snaps) : Append(snaps, new)[i] = snaps[i]
              /\ DOMAIN Append(snaps, new) = 1 .. Len(snaps) + 1 /\ DOMAIN snaps = 1 .. Len(snaps)
              /\ Len(snaps) \in Nat
          BY <1>1, AppendKeeps
        <4>3. \A i \in 1 .. Len(snaps) + 1 : i \in 1 .. Len(snaps) \/ i = Len(snaps) + 1
          BY <4>2
        <4>4. SnapsAre(Append(snaps, new))
          BY <1>2, <4>1, <4>2, <4>3 DEF SnapsAre
        <4> QED
          BY <3>2, <4>4 DEF new
      <3> QED
        BY <2>1, <3>1, <3>2
    <2> QED
      BY <2>4, <2>5 DEF PredsAt
  <1> QED
    BY <1>4, <1>5, <1>6, <1>7, <1>8, <1>9 DEF Thread

-----------------------------------------------------------------------------
(* The inductive invariant: besides what the properties say, where the thread may be, and that *)
(* each tdrop counter is the number of the events that reached it.                             *)
PipelineInv ==
  /\ BasicInv
  /\ AppliedIn(log.hidden, thr)
  /\ TdropAt(log.tdrop, thr)
  /\ LastAt(log.lastT, thr)
  /\ CountsAt(thr)
  /\ PredsAt(log.preds, thr, snaps)

LEMMA PipelineInit ==
  ASSUME PipelineAssumption, Init
  PROVE  PipelineInv
  <1>1. BasicInv
    BY BasicInit
  <1>2. /\ thr.e = 1 /\ thr.at = "next" /\ thr.measuring = FALSE /\ snaps = <<>>
        /\ Inputs = 1 .. Len(Pixels) /\ Len(Pixels) \in Nat
    BY InputType DEF Init
  <1>3. \A d \in Inputs : \A s : ~BeenAt(thr, d, s)
    BY <1>2 DEF BeenAt
  <1>4. /\ \A l \in Layers : \A c \in Grid(l \div 2) : log.hidden[l][c] = <<>>
        /\ \A s \in 0 .. 2 : \A c \in Grid(s + 1) : log.tdrop[s][c] = 0
        /\ \A c \in Grid(0) : log.lastT[c] = 0
        /\ \A row \in Rows : log.preds[row] = 0
    BY DEF Init, Zeroed, Rows
  <1>5. AppliedIn(log.hidden, thr)
    <2> SUFFICES ASSUME NEW l \in Layers,
                        NEW x \in 0 .. Ws(l \div 2) - 1, NEW y \in 0 .. Hs(l \div 2) - 1
                 PROVE  CellTakes(log.hidden[l][y * Ws(l \div 2) + x], thr, l, x, y)
      BY DEF AppliedIn
    <2>1. l \div 2 \in 0 .. 3
      BY LastStages
    <2> DEFINE w == Ws(l \div 2)
               h == Hs(l \div 2)
               c == y * w + x
    <2>2. w \in Nat /\ h \in Nat /\ Grid(l \div 2) = 0 .. w * h - 1
      BY <2>1, SizeType DEF Grid
    <2> HIDE DEF w, h
    <2>3. c \in Grid(l \div 2)
      BY <2>2, CellInArray DEF w, h
    <2> HIDE DEF c
    <2>4. log.hidden[l][c] = <<>>
      BY <1>4, <2>3
    <2>5. Taken(thr, l, x, y) = {}
      BY <1>3 DEF Taken, TakesAt
    <2>6. InOrder(<<>>) /\ Entries(<<>>) = {}
      BY DEF InOrder, Entries
    <2>7. CellTakes(log.hidden[l][c], thr, l, x, y)
      BY <2>4, <2>5, <2>6 DEF CellTakes
    <2> QED
      BY <2>7 DEF c, w
  <1>6. TdropAt(log.tdrop, thr)
    <2> SUFFICES ASSUME NEW s \in 0 .. 2, NEW c \in Grid(s + 1)
                 PROVE  log.tdrop[s][c] = Cardinality(Through(thr, s, c)) % 256
      BY DEF TdropAt
    <2>1. Through(thr, s, c) = {}
      BY <1>3 DEF Through
    <2>2. Cardinality({}) = 0
      BY FS_EmptySet
    <2> QED
      BY <1>4, <2>1, <2>2
  <1>7. LastAt(log.lastT, thr)
    <2>1. \A c : Seen(thr, c) = {}
      BY <1>2 DEF Seen
    <2> QED
      BY <1>2, <1>4, <2>1 DEF LastAt, Latest
  <1>8. CountsAt(thr)
    BY <1>2 DEF CountsAt
  <1>9. PredsAt(log.preds, thr, snaps)
    <2>1. \A s, c : Shown(thr.e, thr.at = "over", s, c) = {}
      BY <1>2 DEF Shown
    <2>2. \A s \in HeadStages : \A c \in Grid(s) : log.preds[RowOffset(s) + c] = 0
      <3> TAKE s \in HeadStages
      <3> TAKE c \in Grid(s)
      <3>1. RowOffset(s) + c \in Rows
        BY RowsApart
      <3> QED
        BY <1>4, <3>1
    <2>3. SnapsAre(snaps)
      BY <1>2 DEF SnapsAre
    <2> QED
      BY <2>1, <2>2, <2>3 DEF PredsAt, PredsAre, Latest
  <1> QED
    BY <1>1, <1>5, <1>6, <1>7, <1>8, <1>9 DEF PipelineInv

LEMMA PipelineStep ==
  ASSUME PipelineAssumption, PipelineInv, [Thread(0)]_<<log, thr, snaps>>
  PROVE  PipelineInv'
  <1>1. CASE Thread(0)
    <2>1. BasicInv'
      BY <1>1, BasicStep DEF PipelineInv
    <2>2. AppliedIn(log'.hidden, thr')
      BY <1>1, AppliedStep DEF PipelineInv
    <2>3. TdropAt(log'.tdrop, thr')
      BY <1>1, TdropStep DEF PipelineInv
    <2>4. LastAt(log'.lastT, thr')
      BY <1>1, LastStep DEF PipelineInv
    <2>5. CountsAt(thr')
      BY <1>1, CountsStep DEF PipelineInv
    <2>6. PredsAt(log'.preds, thr', snaps')
      BY <1>1, PredsStep DEF PipelineInv
    <2> QED
      BY <2>1, <2>2, <2>3, <2>4, <2>5, <2>6 DEF PipelineInv
  <1>2. CASE UNCHANGED <<log, thr, snaps>>
    BY <1>2 DEF PipelineInv, BasicInv, TypeInv
  <1> QED
    BY <1>1, <1>2

\* The inductive invariant holds of every reachable state.
THEOREM PipelineInvariant ==
  ASSUME PipelineAssumption
  PROVE  Spec => []PipelineInv
  <1>1. Init => PipelineInv
    BY PipelineInit
  <1>2. PipelineInv /\ [Thread(0)]_<<log, thr, snaps>> => PipelineInv'
    BY PipelineStep
  <1> QED
    BY <1>1, <1>2, PTL DEF Spec

\* Every cell of every layer has taken the events whose patch it is in, each once, in the order of
\* the input and with the weights of its place: whatever the grid, the borders and the drops are.
THEOREM PipelineApplies ==
  ASSUME PipelineAssumption
  PROVE  Spec => []AppliedOnce
  <1>1. PipelineInv => AppliedOnce
    BY AppliedSame DEF PipelineInv
  <1> QED
    BY <1>1, PipelineInvariant, PTL

\* Generic or fused, with an output or without: a stage computes its layers as they are defined,
\* and nothing is read of a stage that left its output out.
THEOREM PipelineRoutines ==
  ASSUME PipelineAssumption
  PROVE  Spec => []RoutinesAgree
  <1>1. ASSUME PipelineInv PROVE RoutinesAgree
    <2>1. thr.at \in {"stage", "out"} => thr.fed
      BY <1>1 DEF PipelineInv, BasicInv, Place
    <2>2. thr.at = "stage" => thr.s \in 0 .. 3
      BY <1>1, LastStages DEF PipelineInv, BasicInv, Place
    <2>3. thr.at = "stage" => \A i \in 1 .. 2 : RunRight(Layered(thr.e, thr.s)[i], 2 * thr.s + i - 1)
      BY <2>2, LayeredRight
    <2> QED
      BY <2>1, <2>3 DEF RoutinesAgree, RunRight
  <1>2. PipelineInv => RoutinesAgree
    BY <1>1
  <1> QED
    BY <1>2, PipelineInvariant, PTL

\* The time difference an event is given is to the last event before it at the same pixel.
THEOREM PipelineTimes ==
  ASSUME PipelineAssumption
  PROVE  Spec => []DtOfPixel
  <1>1. PipelineInv => DtOfPixel
    BY DEF PipelineInv, LastAt, Latest, SamePixel, DtOfPixel
  <1> QED
    BY <1>1, PipelineInvariant, PTL

LEMMA LatestIs ==
  ASSUME NEW S, S \subseteq Nat, NEW v, Latest(v, S)
  PROVE  v = IF S = {} THEN 0 ELSE CHOOSE e \in S : \A d \in S : d <= e
  <1>1. CASE S = {}
    BY <1>1 DEF Latest
  <1>2. CASE S # {}
    <2>1. v \in S /\ \A d \in S : d <= v
      BY <1>2 DEF Latest
    <2>2. \A e \in S : (\A d \in S : d <= e) => e = v
      BY <2>1
    <2> QED
      BY <1>2, <2>1, <2>2
  <1> QED
    BY <1>1, <1>2

LEMMA PredsRead ==
  ASSUME PipelineAssumption, NEW at, PredsAre(at[2], at[1], at[3]),
         NEW s \in HeadStages, NEW c \in Grid(s)
  PROVE  LET here == {e \in Inputs : /\ Program = "decomp" /\ Ends[e].passed /\ CellAt(e, s) = c
                                     /\ \/ e < at[1]
                                        \/ e = at[1] /\ at[3]}
         IN  at[2][RowOffset(s) + c] = IF here = {} THEN 0 ELSE CHOOSE e \in here : \A d \in here : d <= e
  <1> DEFINE here == Shown(at[1], at[3], s, c)
             v == at[2][RowOffset(s) + c]
  <1>1. Latest(v, here)
    BY DEF PredsAre
  <1>2. here \subseteq Nat
    BY InputType DEF Shown
  <1> HIDE DEF here, v
  <1>3. v = IF here = {} THEN 0 ELSE CHOOSE e \in here : \A d \in here : d <= e
    BY <1>1, <1>2, LatestIs
  <1> QED
    BY <1>3 DEF here, v, Shown

\* A row of the predictions is of the last event that passed every tdrop and has its cell there; no
\* head writes the rows of another, and the oracle's checkpoints keep what they were taken of.
THEOREM PipelinePredictions ==
  ASSUME PipelineAssumption
  PROVE  Spec => []PredictionsLatest
  <1>1. ASSUME PipelineInv PROVE PredictionsLatest
    <2>1. PredsAre(log.preds, thr.e, thr.at = "over") /\ SnapsAre(snaps)
      BY <1>1 DEF PipelineInv, PredsAt
    <2> DEFINE now == <<thr.e, log.preds, thr.at = "over">>
               then == {<<snap[1], snap[2], TRUE>> : snap \in {snaps[i] : i \in DOMAIN snaps}}
    <2>2. ASSUME NEW at \in {now} \cup then PROVE PredsAre(at[2], at[1], at[3])
      <3>1. CASE at = now
        BY <2>1, <3>1
      <3>2. CASE at \in then
        <4>1. PICK i \in DOMAIN snaps : at = <<snaps[i][1], snaps[i][2], TRUE>>
          BY <3>2
        <4>2. PredsAre(snaps[i][2], snaps[i][1], TRUE)
          BY <2>1 DEF SnapsAre
        <4> QED
          BY <4>1, <4>2
      <3> QED
        BY <2>2, <3>1, <3>2
    <2> HIDE DEF now, then
    <2>3. ASSUME NEW at \in {now} \cup then, NEW s \in HeadStages, NEW c \in Grid(s)
          PROVE  LET here == {e \in Inputs : /\ Program = "decomp" /\ Ends[e].passed /\ CellAt(e, s) = c
                                             /\ \/ e < at[1]
                                                \/ e = at[1] /\ at[3]}
                 IN  at[2][RowOffset(s) + c] =
                       IF here = {} THEN 0 ELSE CHOOSE e \in here : \A d \in here : d <= e
      BY <2>2, PredsRead
    <2> QED
      BY <2>3 DEF PredictionsLatest, now, then
  <1>2. PipelineInv => PredictionsLatest
    BY <1>1
  <1> QED
    BY <1>2, PipelineInvariant, PTL

\* At the end the counters are the measured events that passed and those outside the sensor, even
\* when all of the input is warm-up.
THEOREM PipelineCounts ==
  ASSUME PipelineAssumption
  PROVE  Spec => []EndsClean
  <1>1. ASSUME PipelineInv, RunEnded
        PROVE  /\ thr.pass = Cardinality({e \in Inputs : e > Warmup /\ Ends[e].passed})
               /\ thr.oob = Cardinality({e \in Inputs : e > Warmup /\ ~InSensor(e)})
    <2>1. /\ thr.e > Len(Pixels) /\ thr.measuring /\ thr.e \in Nat
          /\ Inputs = 1 .. Len(Pixels) /\ Len(Pixels) \in Nat
      BY <1>1, InputType DEF RunEnded, PipelineInv, BasicInv, TypeInv, ThrType
    <2>2. \A d \in Inputs : d < thr.e
      BY <2>1
    <2>3. /\ PassedIn(thr) = {e \in Inputs : e > Warmup /\ Ends[e].passed}
          /\ OutsideIn(thr) = {e \in Inputs : e > Warmup /\ ~InSensor(e)}
      BY <2>2 DEF PassedIn, OutsideIn
    <2>4. thr.pass = Cardinality(PassedIn(thr)) /\ thr.oob = Cardinality(OutsideIn(thr))
      BY <1>1, <2>1 DEF PipelineInv, CountsAt
    <2> QED
      BY <2>3, <2>4
  <1>2. PipelineInv => EndsClean
    BY <1>1 DEF EndsClean
  <1> QED
    BY <1>2, PipelineInvariant, PTL
-----------------------------------------------------------------------------
(***************************************************************************)
(* The locked scheme s6: the shards share the hidden states of all stages, *)
(* a lock guards each cell, and a shard takes its events to the head.      *)
(***************************************************************************)
Locked == INSTANCE FullShards WITH LastStage <- Deepest

\* The code has four stages and a sensor with columns at the last of them.
LockedAssumption ==
  /\ N \in Nat \ {0} /\ Deepest \in 0 .. 3 /\ W \in Nat /\ W >= 2^Deepest
  /\ Columns \in Seq(Int) /\ Warmup \in 0 .. Len(Columns) /\ Every \in Nat

Messages == [type : {"event", "marker", "eof"}, seq : Nat]
Pushes == [op : {"push"}, to : {Locked!Own(k) : k \in Locked!Shards}, msg : Messages]
Instructions == Pushes \cup [op : {"publish", "record"}, seq : Nat] \cup [op : {"wait"}, seq : 0 .. Locked!Total]
PushTo(k, m) == [op |-> "push", to |-> Locked!Own(k), msg |-> m]
EventTo(k, e) == PushTo(k, [type |-> "event", seq |-> e])
Brings(do, type) == do.op = "push" /\ do.msg.type = type

\* An event is pushed to the shard that owns its column.
Routed(do) ==
  Brings(do, "event") => /\ do.msg.seq \in Locked!Seqs /\ Locked!InBounds(do.msg.seq)
                         /\ do.to = Locked!Own(Locked!ShardOf(Locked!Column(do.msg.seq)))
\* The events below this number have been pushed before an instruction, or by it.
FloorOf(m) == IF m.type = "event" THEN m.seq + 1 ELSE IF m.type = "marker" THEN m.seq ELSE Locked!MaxSeq
Floor(do) == IF do.op = "push" THEN FloorOf(do.msg) ELSE IF do.op = "publish" THEN do.seq - 1 ELSE 0
\* What a later instruction may be: no event twice or out of order, nothing after the end.
After(a, b) == /\ Brings(b, "event") => b.msg.seq >= Floor(a)
               /\ Brings(a, "eof") /\ b.op = "push" => b.to # a.to

QueueOf(k) == q[Locked!Own(k)]
Holds(k, e) == thr[k].pc \in {"lock", "update", "forwarded"} /\ thr[k].e = e
Coming(e) == \/ \E j \in DOMAIN todo : Brings(todo[j], "event") /\ todo[j].msg.seq = e
             \/ \E k \in Locked!Shards : \E i \in DOMAIN QueueOf(k) :
                  QueueOf(k)[i].type = "event" /\ QueueOf(k)[i].seq = e
Times(s, e) == Locked!Count(log.stage[s], e)
Stages == 0 .. Deepest
LayersOf == 0 .. 2 * Deepest + 1

\* Where the event a shard has in hand is.
InHand(t) ==
  /\ t.e \in Locked!Seqs /\ t.layer \in LayersOf
  /\ t.pc = "forwarded" => t.layer % 2 = 1
  /\ t.pc # "forwarded" => t.left # {} /\ t.left \subseteq Locked!PatchAt(t.e, t.layer)
ThreadType ==
  [pc : {"pop", "idle", "exit"}, eof : BOOLEAN, worked : BOOLEAN, last : Int]
  \cup {t \in [pc : {"lock"}, eof : BOOLEAN, last : Int, e : Locked!Seqs, layer : LayersOf, left : SUBSET Int] : InHand(t)}
  \cup {t \in [pc : {"update"}, eof : BOOLEAN, last : Int, e : Locked!Seqs, layer : LayersOf, left : SUBSET Int,
               loaded : Seq(Locked!Seqs)] : InHand(t)}
  \cup {t \in [pc : {"forwarded"}, eof : BOOLEAN, last : Int, e : Locked!Seqs, layer : LayersOf] : InHand(t)}
CellsType(l) == [Locked!Cells(Locked!StageOf(l)) -> Seq(Locked!Seqs)]

LockedType ==
  /\ todo \in Seq(Instructions) /\ drained \in 0 .. Locked!Total /\ pushed \in Nat
  /\ q \in [{Locked!Own(k) : k \in Locked!Shards} -> Seq(Messages)]
  /\ mark \in [Locked!Shards -> Int]
  /\ DOMAIN log = {"stage", "cells", "overtaken"} /\ log.overtaken \in BOOLEAN
  /\ log.stage \in [Stages -> Seq(Locked!Seqs)]
  /\ DOMAIN log.cells = LayersOf /\ \A l \in LayersOf : log.cells[l] \in CellsType(l)
  /\ thr \in [Locked!Shards -> ThreadType]

\* What is still to come, in the queues and from the producer, is in order.
ToComeInOrder ==
  /\ \A j \in DOMAIN todo : Routed(todo[j])
  /\ \A i, j \in DOMAIN todo : i < j => After(todo[i], todo[j])
  /\ \A j \in DOMAIN todo : Brings(todo[j], "event") => todo[j].msg.seq >= pushed - 1
QueueInOrder(k) ==
  /\ \A i \in DOMAIN QueueOf(k) :
       /\ Routed(PushTo(k, QueueOf(k)[i]))
       /\ \A j \in DOMAIN QueueOf(k) : i < j => After(PushTo(k, QueueOf(k)[i]), PushTo(k, QueueOf(k)[j]))
       /\ \A j \in DOMAIN todo : After(PushTo(k, QueueOf(k)[i]), todo[j])
HeldInOrder(k) ==
  \A e \in Locked!Seqs : Holds(k, e) =>
     /\ Routed(EventTo(k, e))
     /\ \A j \in DOMAIN QueueOf(k) : After(EventTo(k, e), PushTo(k, QueueOf(k)[j]))
     /\ \A j \in DOMAIN todo : After(EventTo(k, e), todo[j])
NothingAfterEof(k) ==
  /\ thr[k].eof => QueueOf(k) = <<>> /\ \A j \in DOMAIN todo : todo[j].op = "push" => todo[j].to # Locked!Own(k)
  /\ thr[k].pc = "exit" => thr[k].eof
OrderInv == ToComeInOrder /\ \A k \in Locked!Shards : QueueInOrder(k) /\ HeldInOrder(k) /\ NothingAfterEof(k)

\* Each event of the sensor is in one place, and has been through the stages before it.
PlaceInv ==
  \A e \in Locked!Seqs :
    /\ \A s \in Stages :
         /\ Times(s, e) \in {0, 1}
         /\ Times(s, e) = 1 => Locked!InBounds(e) /\ ~Coming(e)
         /\ \A k \in Locked!Shards : Holds(k, e) => (Times(s, e) = 1 <=> s < Locked!StageOf(thr[k].layer))
    /\ Locked!InBounds(e) => Coming(e) \/ (\E k \in Locked!Shards : Holds(k, e)) \/ Times(0, e) = 1

\* A cell whose lock is taken is the one that was loaded, and no other shard is in it.
CellOf(k) == Locked!Min(thr[k].left)
LockInv ==
  \A k \in Locked!Shards : thr[k].pc = "update" =>
    /\ thr[k].loaded = log.cells[thr[k].layer][CellOf(k)]
    /\ \A j \in Locked!Shards \ {k} :
         thr[j].pc = "update" /\ thr[j].layer = thr[k].layer => CellOf(j) # CellOf(k)

\* The cells that an event has updated, while it is in a layer and when it has left it.
Reached(e, l, c) ==
  \/ Times(Locked!StageOf(l), e) = 1
  \/ \E k \in Locked!Shards : /\ Holds(k, e)
                              /\ \/ thr[k].layer > l
                                 \/ thr[k].layer = l /\ (thr[k].pc = "forwarded" \/ c \notin thr[k].left)
CellsInv ==
  \A l \in LayersOf : \A c \in Locked!Cells(Locked!StageOf(l)) : \A e \in Locked!Seqs :
    Locked!Count(log.cells[l][c], e) =
      IF c \in Locked!PatchAt(e, l) /\ Reached(e, l, c) THEN 1 ELSE 0

\* What a shard has committed to, and the producer waited for, is done, if nothing was overtaken.
CommitInv ==
  ~log.overtaken =>
    /\ \A k \in Locked!Shards : \A e \in Locked!Seqs :
         Locked!InBounds(e) /\ Locked!ShardOf(Locked!Column(e)) = k /\ e < mark[k] => Times(0, e) = 1
    /\ \A e \in Locked!Seqs : Locked!InBounds(e) /\ e < drained => Times(0, e) = 1

LockedInv == LockedType /\ OrderInv /\ PlaceInv /\ LockInv /\ CellsInv /\ CommitInv
-----------------------------------------------------------------------------
(* The producer's program. *)

LEMMA FlattenIs ==
  ASSUME NEW S, NEW ss \in Seq(Seq(S)), Len(ss) # 0,
         NEW g, g = [i \in 1 .. Len(ss) |-> IF i = 1 THEN ss[i] ELSE g[i - 1] \o ss[i]],
         \A h : h = [i \in 1 .. Len(ss) |-> IF i = 1 THEN ss[i] ELSE h[i - 1] \o ss[i]] => h = g
  PROVE  Locked!FlattenSeq(ss) = g[Len(ss)]
  BY DEF Locked!FlattenSeq

\* A flattened sequence is built up from the front, whatever holds on the way.
LEMMA FlattenBuilds ==
  ASSUME NEW S, NEW n \in Nat, NEW ss \in [1 .. n -> Seq(S)], NEW G,
         <<>> \in G[0], \A i \in 0 .. n : G[i] \subseteq Seq(S),
         \A i \in 1 .. n : \A t \in G[i - 1] : t \o ss[i] \in G[i]
  PROVE  Locked!FlattenSeq(ss) \in G[n]
  <1> DEFINE step == [a \in Seq(S) \X Nat |-> a[1] \o IF a[2] + 1 \in 1 .. n THEN ss[a[2] + 1] ELSE <<>>]
  <1>1. ss \in Seq(Seq(S)) /\ Len(ss) = n
    OBVIOUS
  <1>2. <<>> \in Seq(S) /\ step \in Steps(Seq(S))
    BY DEF Steps
  <1>3. PICK f : Follows(f, Seq(S), <<>>, step)
    <2> HIDE DEF step
    <2> QED
      BY <1>2, Recursion
  <1>4. /\ \A i \in Nat : f[i] \in Seq(S)
        /\ f[0] = <<>>
        /\ \A i \in Nat : i + 1 \in 1 .. n => f[i + 1] = f[i] \o ss[i + 1]
    BY <1>3 DEF Follows
  <1> HIDE DEF step
  <1>5. ASSUME NEW i \in 1 .. n PROVE f[i] = f[i - 1] \o ss[i] /\ i - 1 \in Nat
    <2>1. i - 1 \in Nat /\ (i - 1) + 1 = i
      OBVIOUS
    <2> QED
      BY <1>4, <2>1
  <1> DEFINE m == Len(ss)
  <1>6. ASSUME n # 0 PROVE Locked!FlattenSeq(ss) = f[n]
    <2> DEFINE g == [i \in 1 .. m |-> f[i]]
    <2>0. m = n /\ m \in Nat
      BY <1>1
    <2> HIDE DEF m
    <2>1. g = [i \in 1 .. m |-> IF i = 1 THEN ss[i] ELSE g[i - 1] \o ss[i]]
      <3> SUFFICES ASSUME NEW i \in 1 .. m
                   PROVE  f[i] = IF i = 1 THEN ss[i] ELSE g[i - 1] \o ss[i]
        OBVIOUS
      <3>0. ss[i] \in Seq(S) /\ i \in 1 .. n
        BY <2>0
      <3>1. CASE i = 1
        <4>1. f[1] = <<>> \o ss[1]
          <5>1. 1 \in 1 .. n /\ 1 - 1 = 0
            BY <2>0, <3>1
          <5> QED
            BY <1>4, <1>5, <5>1
        <4> QED
          BY <3>0, <3>1, <4>1, ConcatEmptySeq
      <3>2. CASE i # 1
        <4>1. i - 1 \in 1 .. m
          BY <2>0, <3>2
        <4> QED
          BY <1>5, <3>0, <3>2, <4>1
      <3> QED
        BY <3>1, <3>2
    <2>2. ASSUME NEW h, h = [i \in 1 .. m |-> IF i = 1 THEN ss[i] ELSE h[i - 1] \o ss[i]]
          PROVE  h = g
      <3> DEFINE Same == {i \in Nat : i + 1 \in 1 .. m => h[i + 1] = f[i + 1]}
      <3>0. \A i \in 1 .. m : h[i] = IF i = 1 THEN ss[i] ELSE h[i - 1] \o ss[i]
        BY <2>2
      <3>1. 0 \in Same
        <4> SUFFICES ASSUME 1 \in 1 .. m PROVE h[1] = f[1]
          OBVIOUS
        <4>1. h[1] = ss[1] /\ g[1] = ss[1] /\ g[1] = f[1]
          BY <3>0, <2>1
        <4> QED
          BY <4>1
      <3>2. ASSUME NEW i \in Nat, i \in Same PROVE i + 1 \in Same
        <4> SUFFICES ASSUME (i + 1) + 1 \in 1 .. m PROVE h[(i + 1) + 1] = f[(i + 1) + 1]
          OBVIOUS
        <4> DEFINE k == i + 1
        <4>0. k \in 1 .. m /\ (k + 1) - 1 = k /\ k + 1 # 1 /\ k + 1 \in 1 .. m
          BY <2>0
        <4>1. h[k] = f[k]
          BY <3>2, <4>0
        <4> HIDE DEF k
        <4>2. h[k + 1] = h[k] \o ss[k + 1]
          BY <3>0, <4>0
        <4>3. f[k + 1] = f[k] \o ss[k + 1]
          BY <1>5, <2>0, <4>0
        <4> QED
          BY <4>1, <4>2, <4>3 DEF k
      <3>3. Nat \subseteq Same
        <4> HIDE DEF Same
        <4> QED
          BY <3>1, <3>2, SetInduction
      <3>4. \A i \in 1 .. m : h[i] = f[i]
        <4> TAKE i \in 1 .. m
        <4>1. i - 1 \in Nat /\ (i - 1) + 1 = i
          BY <2>0
        <4>2. i - 1 \in Same
          BY <3>3, <4>1
        <4> QED
          BY <4>1, <4>2
      <3>5. h = [i \in 1 .. m |-> h[i]]
        BY <2>2
      <3> QED
        BY <3>4, <3>5
    <2>3. g[m] = f[n]
      BY <1>6, <2>0
    <2> HIDE DEF g
    <2>4. Locked!FlattenSeq(ss) = g[m]
      BY <1>1, <1>6, <2>0, <2>1, <2>2, FlattenIs DEF m
    <2> QED
      BY <2>3, <2>4
  <1>7. n = 0 => Locked!FlattenSeq(ss) = <<>>
    BY <1>1 DEF Locked!FlattenSeq
  <1> DEFINE Built == {i \in Nat : i \in 0 .. n => f[i] \in G[i]}
  <1>8. 0 \in Built
    BY <1>4
  <1>9. ASSUME NEW i \in Nat, i \in Built PROVE i + 1 \in Built
    <2> SUFFICES ASSUME i + 1 \in 0 .. n PROVE f[i + 1] \in G[i + 1]
      OBVIOUS
    <2>1. i + 1 \in 1 .. n /\ (i + 1) - 1 = i /\ f[i] \in G[i]
      BY <1>9
    <2>2. f[i + 1] = f[i] \o ss[i + 1]
      BY <1>5, <2>1
    <2> QED
      BY <2>1, <2>2
  <1>10. Nat \subseteq Built
    <2> HIDE DEF Built
    <2> QED
      BY <1>8, <1>9, SetInduction
  <1> QED
    BY <1>4, <1>6, <1>7, <1>10

\* What the program is made of: it pushes the events of lo .. hi - 1 that are on the sensor,
\* each once and in order, and does nothing that promises more.
Block(lo, hi) ==
  {t \in Seq(Instructions) :
     /\ \A j \in DOMAIN t : /\ Routed(t[j]) /\ ~Brings(t[j], "eof") /\ Floor(t[j]) <= hi
                            /\ Brings(t[j], "event") => lo <= t[j].msg.seq /\ t[j].msg.seq < hi
     /\ \A i, j \in DOMAIN t : i < j => After(t[i], t[j])
     /\ \A e \in Locked!Seqs : lo <= e /\ e < hi /\ Locked!InBounds(e) =>
          \E j \in DOMAIN t : Brings(t[j], "event") /\ t[j].msg.seq = e}

LEMMA FloorType ==
  ASSUME LockedAssumption, NEW do \in Instructions
  PROVE  Floor(do) \in Int
  BY DEF Instructions, Pushes, Messages, Floor, FloorOf, Locked!MaxSeq, Locked!Total, LockedAssumption

LEMMA BlockConcat ==
  ASSUME LockedAssumption, NEW lo \in Nat, NEW mid \in Nat, NEW hi \in Nat, lo <= mid, mid <= hi,
         NEW a \in Block(lo, mid), NEW b \in Block(mid, hi)
  PROVE  a \o b \in Block(lo, hi)
  <1> DEFINE c == a \o b
  <1>1. a \in Seq(Instructions) /\ b \in Seq(Instructions)
    BY DEF Block
  <1>2. c \in Seq(Instructions) /\ DOMAIN c = 1 .. Len(a) + Len(b)
        /\ Len(a) \in Nat /\ Len(b) \in Nat /\ DOMAIN a = 1 .. Len(a) /\ DOMAIN b = 1 .. Len(b)
    BY <1>1, ConcatProperties
  <1>3. \A j \in 1 .. Len(a) : c[j] = a[j] /\ j \in DOMAIN c
    BY <1>1, <1>2, ConcatProperties
  <1>4. \A j \in DOMAIN c : j > Len(a) => c[j] = b[j - Len(a)] /\ j - Len(a) \in DOMAIN b
    BY <1>1, <1>2, ConcatProperties
  <1>5. \A j \in DOMAIN b : c[j + Len(a)] = b[j] /\ j + Len(a) \in DOMAIN c
    <2> TAKE j \in DOMAIN b
    <2>1. j + Len(a) \in DOMAIN c /\ j + Len(a) > Len(a) /\ (j + Len(a)) - Len(a) = j
      BY <1>2
    <2> QED
      BY <1>4, <2>1
  <1>6. \A j \in DOMAIN c : c[j] \in Instructions
    BY <1>2
  <1> HIDE DEF c
  <1>7. ASSUME NEW j \in DOMAIN c
        PROVE  /\ Routed(c[j]) /\ ~Brings(c[j], "eof") /\ Floor(c[j]) <= hi
               /\ Brings(c[j], "event") => lo <= c[j].msg.seq /\ c[j].msg.seq < hi
               /\ j <= Len(a) => Floor(c[j]) <= mid
               /\ j > Len(a) /\ Brings(c[j], "event") => mid <= c[j].msg.seq
    <2>0. c[j] \in Instructions /\ Floor(c[j]) \in Int
      BY <1>6, FloorType
    <2>1. Brings(c[j], "event") => c[j].msg.seq \in Nat
      BY <2>0 DEF Brings, Instructions, Pushes, Messages
    <2>2. CASE j <= Len(a)
      <3>1. j \in DOMAIN a /\ c[j] = a[j]
        BY <1>2, <1>3, <2>2
      <3>2. /\ Routed(c[j]) /\ ~Brings(c[j], "eof") /\ Floor(c[j]) <= mid
            /\ Brings(c[j], "event") => lo <= c[j].msg.seq /\ c[j].msg.seq < mid
        BY <3>1 DEF Block
      <3> QED
        BY <1>2, <2>0, <2>1, <2>2, <3>2
    <2>3. CASE j > Len(a)
      <3>1. j - Len(a) \in DOMAIN b /\ c[j] = b[j - Len(a)]
        BY <1>4, <2>3
      <3>2. /\ Routed(c[j]) /\ ~Brings(c[j], "eof") /\ Floor(c[j]) <= hi
            /\ Brings(c[j], "event") => mid <= c[j].msg.seq /\ c[j].msg.seq < hi
        BY <3>1 DEF Block
      <3> QED
        BY <1>2, <2>0, <2>1, <2>3, <3>2
    <2> QED
      BY <1>2, <2>2, <2>3
  <1>8. ASSUME NEW i \in DOMAIN c, NEW j \in DOMAIN c, i < j PROVE After(c[i], c[j])
    <2>1. i \in Nat /\ j \in Nat
      BY <1>2
    <2>2. CASE j <= Len(a)
      <3>1. c[i] = a[i] /\ c[j] = a[j] /\ i \in DOMAIN a /\ j \in DOMAIN a
        BY <1>2, <1>3, <1>8, <2>2
      <3> QED
        BY <1>8, <3>1 DEF Block
    <2>3. CASE i > Len(a)
      <3>1. c[i] = b[i - Len(a)] /\ c[j] = b[j - Len(a)] /\ i - Len(a) \in DOMAIN b /\ j - Len(a) \in DOMAIN b
            /\ i - Len(a) < j - Len(a)
        BY <1>2, <1>4, <1>8, <2>3
      <3> QED
        BY <3>1 DEF Block
    <2>4. CASE i <= Len(a) /\ j > Len(a)
      <3>1. Floor(c[i]) <= mid /\ ~Brings(c[i], "eof") /\ Floor(c[i]) \in Int
        BY <1>6, <1>7, <2>4, FloorType
      <3>2. Brings(c[j], "event") => mid <= c[j].msg.seq /\ c[j].msg.seq \in Nat
        BY <1>6, <1>7, <2>4 DEF Brings, Instructions, Pushes, Messages
      <3> QED
        BY <3>1, <3>2 DEF After
    <2> QED
      BY <1>2, <1>8, <2>1, <2>2, <2>3, <2>4
  <1>9. ASSUME NEW e \in Locked!Seqs, lo <= e, e < hi, Locked!InBounds(e)
        PROVE  \E j \in DOMAIN c : Brings(c[j], "event") /\ c[j].msg.seq = e
    <2>1. CASE e < mid
      <3>1. PICK j \in DOMAIN a : Brings(a[j], "event") /\ a[j].msg.seq = e
        BY <1>9, <2>1 DEF Block
      <3> QED
        BY <1>2, <1>3, <3>1
    <2>2. CASE ~(e < mid)
      <3>0. e \in Int
        BY DEF Locked!Seqs
      <3>1. PICK j \in DOMAIN b : Brings(b[j], "event") /\ b[j].msg.seq = e
        BY <1>9, <2>2, <3>0 DEF Block
      <3> QED
        BY <1>5, <3>1
    <2> QED
      BY <2>1, <2>2
  <1>10. c \in Block(lo, hi)
    BY <1>2, <1>7, <1>8, <1>9 DEF Block, c
  <1> QED
    BY <1>10 DEF c


\* Markers, waits and the like may stand anywhere below the number they promise.
LEMMA SilentBlock ==
  ASSUME LockedAssumption, NEW h \in Nat, NEW t \in Seq(Instructions),
         \A j \in DOMAIN t : ~Brings(t[j], "event") /\ ~Brings(t[j], "eof") /\ Floor(t[j]) <= h
  PROVE  t \in Block(h, h)
  <1>1. \A j \in DOMAIN t : Routed(t[j])
    BY DEF Routed
  <1>2. \A i, j \in DOMAIN t : After(t[i], t[j])
    BY DEF After
  <1>3. \A e \in Locked!Seqs : ~(h <= e /\ e < h)
    BY DEF Locked!Seqs
  <1> QED
    BY <1>1, <1>2, <1>3 DEF Block

LEMMA DoBlock ==
  ASSUME LockedAssumption, NEW h \in Nat, NEW op \in {"publish", "wait", "record"}, NEW m \in Nat,
         op = "publish" => m - 1 <= h, op = "wait" => m <= Locked!Total
  PROVE  <<Locked!Do(op, m)>> \in Block(h, h)
  <1> DEFINE do == Locked!Do(op, m)
             t == <<do>>
  <1>1. do \in Instructions /\ do.op = op /\ do.seq = m /\ op # "push"
    BY DEF Locked!Do, Instructions, LockedAssumption, Locked!Total
  <1>2. Floor(do) <= h
    BY <1>1 DEF Floor
  <1>3. ~Brings(do, "event") /\ ~Brings(do, "eof")
    BY <1>1 DEF Brings
  <1> HIDE DEF do
  <1>4. t \in Seq(Instructions) /\ \A j \in DOMAIN t : t[j] = do
    BY <1>1
  <1> HIDE DEF t
  <1>5. t \in Block(h, h)
    BY <1>2, <1>3, <1>4, SilentBlock
  <1> QED
    BY <1>5 DEF t, do

\* The powers of two that there are: a grid has a column at every stage.
LEMMA WideEnough ==
  ASSUME LockedAssumption, NEW s \in Stages
  PROVE  s \in 0 .. 3 /\ 2^s \in {1, 2, 4, 8} /\ W \in Nat /\ W >= 2^s /\ W > 0
  <1>1. Deepest \in {0, 1, 2, 3} /\ s \in {0, 1, 2, 3} /\ s <= Deepest
    BY DEF LockedAssumption, Stages
  <1>2. 2^0 = 1 /\ 2^1 = 2 /\ 2^2 = 4 /\ 2^3 = 8
    OBVIOUS
  <1>3. W \in Nat /\ W >= 2^Deepest
    BY DEF LockedAssumption
  <1>4. 2^s \in {1, 2, 4, 8} /\ 2^Deepest \in {1, 2, 4, 8} /\ 2^s <= 2^Deepest
    <2>1. ASSUME NEW i \in {0, 1, 2, 3}
          PROVE  2^i = IF i = 0 THEN 1 ELSE IF i = 1 THEN 2 ELSE IF i = 2 THEN 4 ELSE 8
      <3>1. CASE i = 0
        BY <1>2, <3>1
      <3>2. CASE i = 1
        BY <1>2, <3>2
      <3>3. CASE i = 2
        BY <1>2, <3>3
      <3>4. CASE i = 3
        BY <1>2, <3>4
      <3> QED
        BY <2>1, <3>1, <3>2, <3>3, <3>4
    <2>2. 2^s = IF s = 0 THEN 1 ELSE IF s = 1 THEN 2 ELSE IF s = 2 THEN 4 ELSE 8
      BY <1>1, <2>1
    <2>3. 2^Deepest = IF Deepest = 0 THEN 1 ELSE IF Deepest = 1 THEN 2 ELSE IF Deepest = 2 THEN 4 ELSE 8
      BY <1>1, <2>1
    <2> DEFINE p == 2^s
               d == 2^Deepest
    <2>4. /\ p = IF s = 0 THEN 1 ELSE IF s = 1 THEN 2 ELSE IF s = 2 THEN 4 ELSE 8
          /\ d = IF Deepest = 0 THEN 1 ELSE IF Deepest = 1 THEN 2 ELSE IF Deepest = 2 THEN 4 ELSE 8
      BY <2>2, <2>3
    <2> HIDE DEF p, d
    <2>5. p \in {1, 2, 4, 8} /\ d \in {1, 2, 4, 8} /\ p <= d
      BY <1>1, <2>4
    <2> QED
      BY <2>5 DEF p, d
  <1> DEFINE p == 2^s
             d == 2^Deepest
  <1>5. p \in {1, 2, 4, 8} /\ d \in {1, 2, 4, 8} /\ p <= d /\ W >= d
    BY <1>3, <1>4
  <1> HIDE DEF p, d
  <1>6. W >= p /\ W > 0
    BY <1>3, <1>5
  <1> QED
    BY <1>1, <1>3, <1>4, <1>6 DEF p

LEMMA OwnerIs ==
  ASSUME LockedAssumption, NEW e \in Locked!Seqs
  PROVE  /\ Locked!Column(e) \in Int /\ Locked!ShardOf(Locked!Column(e)) \in Locked!Shards
         /\ e \in Nat /\ Locked!Total \in Nat /\ e < Locked!Total
  <1>1. Locked!Total \in Nat /\ e \in 0 .. Locked!Total - 1
    BY DEF LockedAssumption, Locked!Total, Locked!Seqs
  <1>2. Locked!Column(e) \in Int
    <2>1. e + 1 \in 1 .. Len(Columns)
      BY <1>1 DEF Locked!Total
    <2> QED
      BY <2>1 DEF LockedAssumption, Locked!Column
  <1>3. \A c \in Int : Locked!ShardOf(c) \in 0 .. N - 1
    <2> TAKE c \in Int
    <2> DEFINE strip == Locked!StripOf(W)
               place == Locked!Clamped(c)
    <2>1. strip \in Nat /\ strip > 0
      <3>1. N \in Nat /\ N > 0 /\ W \in Nat /\ W > 0
        BY WideEnough DEF LockedAssumption, Stages
      <3>2. ((W + N) - 1) \in Nat /\ ((W + N) - 1) >= N
        BY <3>1
      <3>3. \A a \in Nat, b \in Nat : b > 0 /\ a >= b => (a \div b) \in Nat /\ (a \div b) > 0
        <4> TAKE a \in Nat, b \in Nat
        <4> HAVE b > 0 /\ a >= b
        <4>1. (a \div b) \in Nat
          OBVIOUS
        <4>2. (a \div b) # 0
          <5> SUFFICES ASSUME (a \div b) = 0 PROVE FALSE
            OBVIOUS
          <5>1. a = b * (a \div b) + (a % b) /\ (a % b) < b
            OBVIOUS
          <5>2. b * 0 = 0
            OBVIOUS
          <5> QED
            BY <5>1, <5>2
        <4> QED
          BY <4>1, <4>2
      <3> QED
        BY <3>1, <3>2, <3>3 DEF Locked!StripOf
    <2>2. place \in Nat
      BY WideEnough DEF Locked!Clamped, LockedAssumption, Stages
    <2> HIDE DEF strip, place
    <2>3. (place \div strip) \in Nat
      BY <2>1, <2>2
    <2> QED
      BY <2>3 DEF Locked!ShardOf, strip, place, LockedAssumption
  <1> QED
    BY <1>1, <1>2, <1>3 DEF Locked!Shards

LEMMA EventBlock ==
  ASSUME LockedAssumption, NEW e \in Locked!Seqs
  PROVE  Locked!PushToOwner(e) \in Block(e, e + 1)
  <1> DEFINE k == Locked!ShardOf(Locked!Column(e))
             push == Locked!Push(Locked!Own(k), "event", e)
             told == <<Locked!Do("publish", e + 1)>>
  <1>1. e \in Nat /\ e + 1 \in Nat /\ k \in Locked!Shards
    BY OwnerIs
  <1>2. told \in Block(e + 1, e + 1)
    BY <1>1, DoBlock
  <1>3. CASE Locked!InBounds(e)
    <2> DEFINE t == <<push>>
    <2>1. push \in Instructions /\ push.op = "push" /\ push.msg.type = "event" /\ push.msg.seq = e
          /\ push.to = Locked!Own(k)
      BY <1>1 DEF Instructions, Pushes, Messages, Locked!Push
    <2> HIDE DEF push, k
    <2>2. Brings(push, "event") /\ ~Brings(push, "eof") /\ Floor(push) = e + 1
      BY <2>1 DEF Brings, Floor, FloorOf
    <2>3. Routed(push)
      BY <1>3, <2>1 DEF Routed, k
    <2>4. t \in Seq(Instructions) /\ \A j \in DOMAIN t : t[j] = push /\ j = 1
      BY <2>1
    <2>5. 1 \in DOMAIN t
      OBVIOUS
    <2> HIDE DEF t
    <2>6. ASSUME NEW d \in Locked!Seqs, e <= d, d < e + 1 PROVE d = e
      BY <1>1, <2>6 DEF Locked!Seqs
    <2>7. t \in Block(e, e + 1)
      <3>1. \A j \in DOMAIN t : /\ Routed(t[j]) /\ ~Brings(t[j], "eof") /\ Floor(t[j]) <= e + 1
                                /\ Brings(t[j], "event") => e <= t[j].msg.seq /\ t[j].msg.seq < e + 1
        BY <1>1, <2>1, <2>2, <2>3, <2>4
      <3>2. \A i, j \in DOMAIN t : i < j => After(t[i], t[j])
        BY <2>4
      <3>3. \A d \in Locked!Seqs : e <= d /\ d < e + 1 /\ Locked!InBounds(d) =>
              \E j \in DOMAIN t : Brings(t[j], "event") /\ t[j].msg.seq = d
        BY <2>1, <2>2, <2>4, <2>5, <2>6
      <3> QED
        BY <2>4, <3>1, <3>2, <3>3 DEF Block
    <2>8. t \o told \in Block(e, e + 1)
      <3> HIDE DEF told
      <3> QED
        BY <1>1, <1>2, <2>7, BlockConcat
    <2> QED
      BY <1>3, <2>8 DEF Locked!PushToOwner, t, push, k
  <1>4. CASE ~Locked!InBounds(e)
    <2> DEFINE t == <<>>
    <2>1. t \in Seq(Instructions) /\ DOMAIN t = {}
      OBVIOUS
    <2> HIDE DEF t
    <2>2. \A d \in Locked!Seqs : e <= d /\ d < e + 1 => d = e
      BY <1>1 DEF Locked!Seqs
    <2>3. t \in Block(e, e + 1)
      BY <1>4, <2>1, <2>2 DEF Block
    <2>4. t \o told \in Block(e, e + 1)
      <3> HIDE DEF told
      <3> QED
        BY <1>1, <1>2, <2>3, BlockConcat
    <2> QED
      BY <1>4, <2>4 DEF Locked!PushToOwner, t
  <1> QED
    BY <1>3, <1>4

DrainOf(m) == Locked!PushMarker(m) \o <<Locked!Do("wait", m)>>

LEMMA DrainBlock ==
  ASSUME LockedAssumption, NEW m \in Nat, m <= Locked!Total
  PROVE  DrainOf(m) \in Block(m, m)
  <1> DEFINE pushes == [i \in 1 .. N |-> Locked!Push(Locked!Own(i - 1), "marker", m)]
             told == <<Locked!Do("publish", m + 1)>>
             wait == <<Locked!Do("wait", m)>>
  <1>1. \A i \in 1 .. N : /\ Locked!Push(Locked!Own(i - 1), "marker", m) \in Instructions
                          /\ ~Brings(Locked!Push(Locked!Own(i - 1), "marker", m), "event")
                          /\ ~Brings(Locked!Push(Locked!Own(i - 1), "marker", m), "eof")
                          /\ Floor(Locked!Push(Locked!Own(i - 1), "marker", m)) <= m
    BY DEF Instructions, Pushes, Messages, Locked!Push, Brings, Floor, FloorOf, LockedAssumption, Locked!Shards
  <1>2. pushes \in Seq(Instructions) /\ DOMAIN pushes = 1 .. N
    BY <1>1 DEF LockedAssumption
  <1>3. pushes \in Block(m, m)
    <2>1. \A i \in 1 .. N : pushes[i] = Locked!Push(Locked!Own(i - 1), "marker", m)
      OBVIOUS
    <2> HIDE DEF pushes
    <2> QED
      BY <1>1, <1>2, <2>1, SilentBlock
  <1>4. told \in Block(m, m) /\ wait \in Block(m, m)
    BY DoBlock
  <1> HIDE DEF pushes, told, wait
  <1>5. pushes \o told \in Block(m, m)
    BY <1>3, <1>4, BlockConcat
  <1>6. (pushes \o told) \o wait \in Block(m, m)
    BY <1>4, <1>5, BlockConcat
  <1> QED
    BY <1>6 DEF DrainOf, Locked!PushMarker, pushes, told, wait

MeasuredOf(e) ==
  IF Every > 0 /\ (e - Warmup) % Every = 0
  THEN (Locked!PushToOwner(e) \o DrainOf(e + 1)) \o <<Locked!Do("record", e + 1)>>
  ELSE Locked!PushToOwner(e)

LEMMA MeasuredBlock ==
  ASSUME LockedAssumption, NEW e \in Locked!Seqs
  PROVE  MeasuredOf(e) \in Block(e, e + 1)
  <1> DEFINE record == <<Locked!Do("record", e + 1)>>
  <1>1. e \in Nat /\ e + 1 \in Nat /\ e + 1 <= Locked!Total
    BY OwnerIs
  <1>2. record \in Block(e + 1, e + 1) /\ DrainOf(e + 1) \in Block(e + 1, e + 1)
    BY <1>1, DoBlock, DrainBlock
  <1> HIDE DEF record
  <1>3. Locked!PushToOwner(e) \in Block(e, e + 1)
    BY EventBlock
  <1>4. Locked!PushToOwner(e) \o DrainOf(e + 1) \in Block(e, e + 1)
    BY <1>1, <1>2, <1>3, BlockConcat
  <1>5. (Locked!PushToOwner(e) \o DrainOf(e + 1)) \o record \in Block(e, e + 1)
    BY <1>1, <1>2, <1>4, BlockConcat
  <1> QED
    BY <1>3, <1>5 DEF MeasuredOf, record

LEMMA FlatBlock ==
  ASSUME LockedAssumption, NEW lo \in Nat, NEW n \in Nat, NEW ss \in [1 .. n -> Seq(Instructions)],
         \A i \in 1 .. n : ss[i] \in Block((lo + i) - 1, lo + i)
  PROVE  Locked!FlattenSeq(ss) \in Block(lo, lo + n)
  <1> DEFINE G == [i \in 0 .. n |-> Block(lo, lo + i)]
  <1>1. <<>> \in G[0]
    <2>1. <<>> \in Seq(Instructions) /\ DOMAIN <<>> = {}
      OBVIOUS
    <2>2. <<>> \in Block(lo, lo)
      BY <2>1, SilentBlock
    <2> QED
      BY <2>2
  <1>2. \A i \in 0 .. n : G[i] \subseteq Seq(Instructions)
    BY DEF Block
  <1>3. ASSUME NEW i \in 1 .. n, NEW t \in G[i - 1] PROVE t \o ss[i] \in G[i]
    <2>1. i \in Nat /\ i - 1 \in 0 .. n /\ i \in 0 .. n /\ lo + (i - 1) = (lo + i) - 1
          /\ (lo + i) - 1 \in Nat /\ lo + i \in Nat /\ lo <= (lo + i) - 1 /\ (lo + i) - 1 <= lo + i
      OBVIOUS
    <2>2. G[i - 1] = Block(lo, (lo + i) - 1) /\ G[i] = Block(lo, lo + i)
      BY <2>1
    <2> HIDE DEF G
    <2>3. t \in Block(lo, (lo + i) - 1) /\ ss[i] \in Block((lo + i) - 1, lo + i)
      BY <1>3, <2>2
    <2>4. t \o ss[i] \in Block(lo, lo + i)
      <3> DEFINE mid == (lo + i) - 1
                 hi == lo + i
                 s == ss[i]
      <3>1. mid \in Nat /\ hi \in Nat /\ lo <= mid /\ mid <= hi /\ t \in Block(lo, mid) /\ s \in Block(mid, hi)
        BY <2>1, <2>3
      <3> HIDE DEF mid, hi, s
      <3>2. t \o s \in Block(lo, hi)
        BY <3>1, BlockConcat
      <3> QED
        BY <3>2 DEF hi, s
    <2> QED
      BY <2>2, <2>4
  <1>4. G[n] = Block(lo, lo + n)
    OBVIOUS
  <1> HIDE DEF G
  <1>5. Locked!FlattenSeq(ss) \in G[n]
    BY <1>1, <1>2, <1>3, FlattenBuilds
  <1> QED
    BY <1>4, <1>5


Warming == Locked!FlattenSeq([i \in 1 .. Warmup |-> Locked!PushToOwner(i - 1)])
Measuring == Locked!FlattenSeq([i \in 1 .. Locked!Total - Warmup |-> MeasuredOf((Warmup + i) - 1)])
Body == ((Warming \o DrainOf(Warmup)) \o Measuring) \o DrainOf(Locked!Total)

LEMMA MainIs ==
  ASSUME LockedAssumption
  PROVE  Locked!Main = Body \o Locked!Close
  <1> DEFINE events == [e \in Locked!Seqs |-> Locked!PushToOwner(e)]
             markers == [m \in 0 .. Locked!Total |-> Locked!PushMarker(m)]
             Drain(m) == markers[m] \o <<Locked!Do("wait", m)>>
             Measured(e) == IF Every > 0 /\ (e - Warmup) % Every = 0
                            THEN events[e] \o Drain(e + 1) \o <<Locked!Do("record", e + 1)>>
                            ELSE events[e]
             warming == [i \in 1 .. Warmup |-> events[i - 1]]
             measuring == [i \in 1 .. Locked!Total - Warmup |-> Measured(Warmup + i - 1)]
  <1>1. Warmup \in 0 .. Locked!Total /\ Locked!Total \in Nat
    BY DEF LockedAssumption, Locked!Total
  <1>2. \A m \in 0 .. Locked!Total : Drain(m) = DrainOf(m)
    BY DEF DrainOf
  <1>3. \A e \in Locked!Seqs : events[e] = Locked!PushToOwner(e) /\ e + 1 \in 0 .. Locked!Total
    BY <1>1 DEF Locked!Seqs
  <1> HIDE DEF events, Drain
  <1>4. \A e \in Locked!Seqs : Measured(e) = MeasuredOf(e)
    BY <1>2, <1>3 DEF MeasuredOf
  <1>5. warming = [i \in 1 .. Warmup |-> Locked!PushToOwner(i - 1)]
    <2>1. \A i \in 1 .. Warmup : i - 1 \in Locked!Seqs
      BY <1>1 DEF Locked!Seqs
    <2> QED
      BY <1>3, <2>1
  <1>6. measuring = [i \in 1 .. Locked!Total - Warmup |-> MeasuredOf((Warmup + i) - 1)]
    <2>1. \A i \in 1 .. Locked!Total - Warmup : (Warmup + i) - 1 \in Locked!Seqs
      BY <1>1 DEF Locked!Seqs
    <2>2. \A i \in 1 .. Locked!Total - Warmup : Warmup + i - 1 = (Warmup + i) - 1
      BY <1>1
    <2> HIDE DEF Measured
    <2>3. ASSUME NEW i \in 1 .. Locked!Total - Warmup
          PROVE  Measured(Warmup + i - 1) = MeasuredOf((Warmup + i) - 1)
      BY <1>4, <2>1, <2>2
    <2> QED
      BY <2>3
  <1>7. Drain(Warmup) = DrainOf(Warmup) /\ Drain(Locked!Total) = DrainOf(Locked!Total)
    BY <1>1, <1>2
  <1>8. Locked!Main = Locked!FlattenSeq(warming) \o Drain(Warmup) \o Locked!FlattenSeq(measuring)
                      \o Drain(Locked!Total) \o Locked!Close
    BY DEF Locked!Main, Locked!Program, events, Drain
  <1> HIDE DEF warming, measuring
  <1> QED
    BY <1>5, <1>6, <1>7, <1>8 DEF Body, Warming, Measuring

LEMMA BodyBlock ==
  ASSUME LockedAssumption
  PROVE  Body \in Block(0, Locked!Total)
  <1> DEFINE total == Locked!Total
             n == total - Warmup
  <1>1. Warmup \in Nat /\ total \in Nat /\ n \in Nat /\ Warmup + n = total /\ 0 + Warmup = Warmup
    BY DEF LockedAssumption, Locked!Total
  <1>2. \A i \in 1 .. Warmup : i - 1 \in Locked!Seqs
    BY <1>1 DEF Locked!Seqs
  <1>3. \A i \in 1 .. n : (Warmup + i) - 1 \in Locked!Seqs
    BY <1>1 DEF Locked!Seqs
  <1>4. Warming \in Block(0, Warmup)
    <2> DEFINE ss == [i \in 1 .. Warmup |-> Locked!PushToOwner(i - 1)]
    <2>1. \A i \in 1 .. Warmup : Locked!PushToOwner(i - 1) \in Block((0 + i) - 1, 0 + i)
      <3> TAKE i \in 1 .. Warmup
      <3>1. (0 + i) - 1 = i - 1 /\ 0 + i = (i - 1) + 1 /\ i - 1 \in Locked!Seqs
        BY <1>2
      <3>2. Locked!PushToOwner(i - 1) \in Block(i - 1, (i - 1) + 1)
        BY <3>1, EventBlock
      <3> QED
        BY <3>1, <3>2
    <2>2. ss \in [1 .. Warmup -> Seq(Instructions)] /\ \A i \in 1 .. Warmup : ss[i] \in Block((0 + i) - 1, 0 + i)
      BY <2>1 DEF Block
    <2> HIDE DEF ss
    <2>3. Locked!FlattenSeq(ss) \in Block(0, 0 + Warmup)
      BY <1>1, <2>2, FlatBlock
    <2> QED
      BY <1>1, <2>3 DEF ss, Warming
  <1>5. Measuring \in Block(Warmup, total)
    <2> DEFINE ss == [i \in 1 .. n |-> MeasuredOf((Warmup + i) - 1)]
    <2>1. \A i \in 1 .. n : MeasuredOf((Warmup + i) - 1) \in Block((Warmup + i) - 1, Warmup + i)
      <3> TAKE i \in 1 .. n
      <3>1. ((Warmup + i) - 1) + 1 = Warmup + i /\ (Warmup + i) - 1 \in Locked!Seqs
        BY <1>1, <1>3
      <3>2. MeasuredOf((Warmup + i) - 1) \in Block((Warmup + i) - 1, ((Warmup + i) - 1) + 1)
        BY <3>1, MeasuredBlock
      <3> QED
        BY <3>1, <3>2
    <2>2. ss \in [1 .. n -> Seq(Instructions)] /\ \A i \in 1 .. n : ss[i] \in Block((Warmup + i) - 1, Warmup + i)
      BY <2>1 DEF Block
    <2>3. Locked!FlattenSeq(ss) = Measuring
      BY DEF Measuring
    <2> HIDE DEF ss, n
    <2>4. Locked!FlattenSeq(ss) \in Block(Warmup, Warmup + n)
      BY <1>1, <2>2, FlatBlock
    <2> QED
      BY <1>1, <2>3, <2>4
  <1>6. DrainOf(Warmup) \in Block(Warmup, Warmup) /\ DrainOf(total) \in Block(total, total)
    BY <1>1, DrainBlock
  <1>7. Warmup <= total
    BY <1>1
  <1>8. Body = ((Warming \o DrainOf(Warmup)) \o Measuring) \o DrainOf(total)
    BY DEF Body
  <1> HIDE DEF total, n
  <1>9. Warming \o DrainOf(Warmup) \in Block(0, Warmup)
    BY <1>1, <1>4, <1>6, BlockConcat
  <1>10. (Warming \o DrainOf(Warmup)) \o Measuring \in Block(0, total)
    BY <1>1, <1>5, <1>7, <1>9, BlockConcat
  <1>11. ((Warming \o DrainOf(Warmup)) \o Measuring) \o DrainOf(total) \in Block(0, total)
    BY <1>1, <1>6, <1>10, BlockConcat
  <1> QED
    BY <1>8, <1>11 DEF total

\* The whole program: every event of the sensor is pushed, once, in order, to its owner, and
\* then each shard is sent its eof.
LEMMA MainFacts ==
  ASSUME LockedAssumption
  PROVE  /\ Locked!Main \in Seq(Instructions)
         /\ \A j \in DOMAIN Locked!Main : Routed(Locked!Main[j])
         /\ \A i, j \in DOMAIN Locked!Main : i < j => After(Locked!Main[i], Locked!Main[j])
         /\ \A e \in Locked!Seqs : Locked!InBounds(e) =>
              \E j \in DOMAIN Locked!Main : Brings(Locked!Main[j], "event") /\ Locked!Main[j].msg.seq = e
  <1> DEFINE a == Body
             b == Locked!Close
             c == a \o b
  <1>1. N \in Nat /\ \A i \in 1 .. N : i - 1 \in Locked!Shards
    BY DEF LockedAssumption, Locked!Shards
  <1>2. /\ b \in Seq(Instructions) /\ Len(b) = N
        /\ \A j \in 1 .. N : b[j] = Locked!Push(Locked!Own(j - 1), "eof", 0)
    <2>1. \A i \in 1 .. N : Locked!Push(Locked!Own(i - 1), "eof", 0) \in Instructions
      BY <1>1 DEF Locked!Push, Instructions, Pushes, Messages
    <2> QED
      BY <1>1, <2>1 DEF Locked!Close
  <1>3. \A j \in 1 .. N : ~Brings(b[j], "event") /\ b[j].op = "push" /\ b[j].to = Locked!Own(j - 1)
    BY <1>2 DEF Locked!Push, Brings
  <1>4. a \in Block(0, Locked!Total)
    BY BodyBlock
  <1>5. Locked!Main = c
    BY MainIs
  <1>6. \A e \in Locked!Seqs : 0 <= e /\ e < Locked!Total
    BY OwnerIs
  <1> HIDE DEF b, a
  <1>7. a \in Seq(Instructions)
    BY <1>4 DEF Block
  <1>8. /\ c \in Seq(Instructions) /\ DOMAIN c = 1 .. Len(a) + N
        /\ Len(a) \in Nat /\ DOMAIN a = 1 .. Len(a)
        /\ \A j \in 1 .. Len(a) + N : c[j] = IF j <= Len(a) THEN a[j] ELSE b[j - Len(a)]
    <2>1. /\ a \o b \in Seq(Instructions) /\ Len(a \o b) = Len(a) + Len(b)
          /\ \A j \in 1 .. Len(a) + Len(b) : (a \o b)[j] = IF j <= Len(a) THEN a[j] ELSE b[j - Len(a)]
      BY <1>2, <1>7, ConcatProperties
    <2> HIDE DEF c
    <2>2. c = a \o b
      BY DEF c
    <2>3. Len(a) \in Nat /\ DOMAIN a = 1 .. Len(a)
      BY <1>7
    <2> QED
      BY <1>2, <2>1, <2>2, <2>3
  <1> HIDE DEF c
  <1>9. \A j \in DOMAIN c : \/ j <= Len(a) /\ j \in DOMAIN a /\ c[j] = a[j]
                            \/ j > Len(a) /\ j - Len(a) \in 1 .. N /\ c[j] = b[j - Len(a)]
    BY <1>1, <1>8
  <1>10. ASSUME NEW j \in DOMAIN c PROVE Routed(c[j])
    <2>1. CASE j \in DOMAIN a /\ c[j] = a[j]
      BY <1>4, <2>1 DEF Block
    <2>2. CASE j - Len(a) \in 1 .. N /\ c[j] = b[j - Len(a)]
      BY <1>3, <2>2 DEF Routed
    <2> QED
      BY <1>9, <2>1, <2>2
  <1>11. ASSUME NEW i \in DOMAIN c, NEW j \in DOMAIN c, i < j PROVE After(c[i], c[j])
    <2>0. i \in Nat /\ j \in Nat /\ Len(a) \in Nat
      BY <1>8
    <2>1. CASE j \in DOMAIN a /\ c[j] = a[j] /\ j <= Len(a)
      <3>1. i \in DOMAIN a /\ c[i] = a[i]
        BY <1>9, <1>11, <2>0, <2>1
      <3> QED
        BY <1>4, <1>11, <2>1, <3>1 DEF Block
    <2>2. CASE j > Len(a) /\ j - Len(a) \in 1 .. N /\ c[j] = b[j - Len(a)]
      <3>1. ~Brings(c[j], "event") /\ c[j].to = Locked!Own((j - Len(a)) - 1)
        BY <1>3, <2>2
      <3>2. CASE i \in DOMAIN a /\ c[i] = a[i]
        <4>1. ~Brings(c[i], "eof")
          BY <1>4, <3>2 DEF Block
        <4> QED
          BY <3>1, <4>1 DEF After
      <3>3. CASE i > Len(a) /\ i - Len(a) \in 1 .. N /\ c[i] = b[i - Len(a)]
        <4>1. c[i].to = Locked!Own((i - Len(a)) - 1)
          BY <1>3, <3>3
        <4>2. (i - Len(a)) - 1 # (j - Len(a)) - 1
          BY <1>11, <2>0
        <4>3. c[i].to # c[j].to
          BY <3>1, <4>1, <4>2 DEF Locked!Own
        <4> QED
          BY <3>1, <4>3 DEF After
      <3> QED
        BY <1>9, <3>2, <3>3
    <2> QED
      BY <1>9, <2>1, <2>2
  <1>12. ASSUME NEW e \in Locked!Seqs, Locked!InBounds(e)
         PROVE  \E j \in DOMAIN c : Brings(c[j], "event") /\ c[j].msg.seq = e
    <2>1. PICK j \in DOMAIN a : Brings(a[j], "event") /\ a[j].msg.seq = e
      BY <1>4, <1>6, <1>12 DEF Block
    <2>2. j \in DOMAIN c /\ c[j] = a[j]
      BY <1>1, <1>8
    <2> QED
      BY <2>1, <2>2
  <1> QED
    BY <1>5, <1>8, <1>10, <1>11, <1>12

-----------------------------------------------------------------------------
(* Counts, queues and threads. *)

LEMMA CountsAreNat ==
  ASSUME NEW S, NEW s \in Seq(S), NEW e
  PROVE  /\ Locked!Count(s, e) \in Nat
         /\ Locked!Count(s, e) > 0 <=> \E i \in DOMAIN s : s[i] = e
  <1> DEFINE P == {i \in DOMAIN s : s[i] = e}
  <1>1. IsFiniteSet(1 .. Len(s)) /\ DOMAIN s = 1 .. Len(s)
    BY FS_Interval
  <1>2. IsFiniteSet(P)
    BY <1>1, FS_Subset
  <1>3. Cardinality(P) \in Nat /\ (Cardinality(P) = 0 <=> P = {})
    <2> HIDE DEF P
    <2> QED
      BY <1>2, FS_CardinalityType, FS_EmptySet
  <1>4. P # {} <=> \E i \in DOMAIN s : s[i] = e
    OBVIOUS
  <1>5. Locked!Count(s, e) = Cardinality(P)
    BY DEF Locked!Count, Locked!Cardinality, Cardinality
  <1> HIDE DEF P
  <1> QED
    BY <1>3, <1>4, <1>5

LEMMA CountOfAppend ==
  ASSUME NEW S, NEW s \in Seq(S), NEW x \in S, NEW e
  PROVE  Locked!Count(Append(s, x), e) = Locked!Count(s, e) + (IF x = e THEN 1 ELSE 0)
  <1> DEFINE t == Append(s, x)
             n == Len(s)
             P == {i \in DOMAIN s : s[i] = e}
             Q == {i \in DOMAIN t : t[i] = e}
  <1>1. n \in Nat /\ DOMAIN s = 1 .. n /\ DOMAIN t = 1 .. n + 1 /\ t[n + 1] = x /\ \A i \in 1 .. n : t[i] = s[i]
    OBVIOUS
  <1>2. IsFiniteSet(P) /\ n + 1 \notin P
    <2>1. IsFiniteSet(1 .. n)
      BY <1>1, FS_Interval
    <2> QED
      BY <1>1, <2>1, FS_Subset
  <1> HIDE DEF n, t
  <1>3. Q = IF x = e THEN P \cup {n + 1} ELSE P
    BY <1>1
  <1>4. Locked!Count(s, e) = Cardinality(P) /\ Locked!Count(t, e) = Cardinality(Q)
    BY DEF Locked!Count, Locked!Cardinality, Cardinality
  <1>5. Cardinality(P) \in Nat
    BY <1>2, FS_CardinalityType
  <1> HIDE DEF P, Q
  <1>6. CASE x = e
    <2>1. Cardinality(P \cup {n + 1}) = Cardinality(P) + 1
      BY <1>2, FS_AddElement
    <2> QED
      BY <1>3, <1>4, <1>6, <2>1 DEF t
  <1>7. CASE x # e
    BY <1>3, <1>4, <1>5, <1>7 DEF t
  <1> QED
    BY <1>6, <1>7

LEMMA CountOfNone ==
  ASSUME NEW e
  PROVE  Locked!Count(<<>>, e) = 0
  <1>1. {i \in DOMAIN <<>> : <<>>[i] = e} = {}
    OBVIOUS
  <1> QED
    BY <1>1, FS_EmptySet DEF Locked!Count, Locked!Cardinality, Cardinality

\* The smallest of a finite set of numbers.
LEMMA LockedMin ==
  ASSUME NEW S, IsFiniteSet(S), S \subseteq Int, S # {}
  PROVE  Locked!Min(S) \in S /\ \A x \in S : Locked!Min(S) <= x
  <1> DEFINE Has == {T \in SUBSET S : T = {} \/ \E x \in T : \A y \in T : x <= y}
  <1>1. {} \in Has
    OBVIOUS
  <1>2. ASSUME NEW U \in SUBSET S, NEW x \in S, U \in Has PROVE U \cup {x} \in Has
    <2>1. CASE U = {}
      BY <2>1
    <2>2. CASE U # {}
      <3>1. PICK y \in U : \A z \in U : y <= z
        BY <1>2, <2>2
      <3>2. x \in Int /\ y \in Int /\ U \subseteq Int
        OBVIOUS
      <3>3. CASE x <= y
        <4>1. \A z \in U \cup {x} : x <= z
          BY <3>1, <3>2, <3>3
        <4> QED
          BY <4>1
      <3>4. CASE ~(x <= y)
        <4>1. \A z \in U \cup {x} : y <= z
          BY <3>1, <3>2, <3>4
        <4> QED
          BY <4>1
      <3> QED
        BY <3>3, <3>4
    <2> QED
      BY <2>1, <2>2
  <1>3. S \in Has
    <2> HIDE DEF Has
    <2> QED
      BY <1>1, <1>2, FiniteSetInduction
  <1>4. \E x \in S : \A y \in S : x <= y
    BY <1>3
  <1> QED
    BY <1>4 DEF Locked!Min

LEMMA HandFacts ==
  ASSUME LockedType, NEW k \in Locked!Shards
  PROVE  /\ thr[k].pc \in {"pop", "idle", "exit", "lock", "update", "forwarded"}
         /\ thr[k].eof \in BOOLEAN /\ thr[k].last \in Int
         /\ thr[k].pc \in {"pop", "idle", "exit"} =>
              thr[k] \in [pc : {"pop", "idle", "exit"}, eof : BOOLEAN, worked : BOOLEAN, last : Int]
         /\ thr[k].pc \in {"lock", "update", "forwarded"} => thr[k].e \in Locked!Seqs /\ thr[k].layer \in LayersOf
         /\ thr[k].pc \in {"lock", "update"} =>
              thr[k].left # {} /\ thr[k].left \subseteq Locked!PatchAt(thr[k].e, thr[k].layer)
         /\ thr[k].pc = "update" => thr[k].loaded \in Seq(Locked!Seqs)
         /\ thr[k].pc = "forwarded" => thr[k].layer % 2 = 1
  <1> DEFINE t == thr[k]
  <1>1. t \in ThreadType
    BY DEF LockedType
  <1> HIDE DEF t
  <1>2. CASE t \in [pc : {"pop", "idle", "exit"}, eof : BOOLEAN, worked : BOOLEAN, last : Int]
    BY <1>2 DEF t
  <1>3. CASE t \in {u \in [pc : {"lock"}, eof : BOOLEAN, last : Int, e : Locked!Seqs, layer : LayersOf,
                           left : SUBSET Int] : InHand(u)}
    BY <1>3 DEF t, InHand
  <1>4. CASE t \in {u \in [pc : {"update"}, eof : BOOLEAN, last : Int, e : Locked!Seqs, layer : LayersOf,
                           left : SUBSET Int, loaded : Seq(Locked!Seqs)] : InHand(u)}
    BY <1>4 DEF t, InHand
  <1>5. CASE t \in {u \in [pc : {"forwarded"}, eof : BOOLEAN, last : Int, e : Locked!Seqs,
                           layer : LayersOf] : InHand(u)}
    BY <1>5 DEF t, InHand
  <1> QED
    BY <1>1, <1>2, <1>3, <1>4, <1>5 DEF ThreadType

LEMMA LayerFacts ==
  ASSUME LockedAssumption, NEW l \in LayersOf
  PROVE  /\ Locked!StageOf(l) \in Stages /\ l \in Nat
         /\ l % 2 = 0 => l = 2 * Locked!StageOf(l) /\ l + 1 \in LayersOf /\ Locked!StageOf(l + 1) = Locked!StageOf(l)
         /\ l % 2 = 1 => l = 2 * Locked!StageOf(l) + 1
         /\ l % 2 = 1 /\ Locked!StageOf(l) < Deepest =>
              l + 1 \in LayersOf /\ Locked!StageOf(l + 1) = Locked!StageOf(l) + 1 /\ (l + 1) % 2 = 0
         /\ l % 2 \in {0, 1}
  BY DEF LockedAssumption, LayersOf, Stages, Locked!StageOf

\* The cells of a patch: the column of the event in layer 0, two or three columns in the others,
\* all on the grid, and at least one.
LEMMA PatchFacts ==
  ASSUME LockedAssumption, NEW e \in Locked!Seqs, NEW l \in LayersOf
  PROVE  /\ IsFiniteSet(Locked!PatchAt(e, l)) /\ Locked!PatchAt(e, l) \subseteq Int
         /\ Locked!PatchAt(e, l) \subseteq Locked!Cells(Locked!StageOf(l))
         /\ Locked!InBounds(e) => Locked!PatchAt(e, l) # {}
  <1> DEFINE s == Locked!StageOf(l)
             p == 2^s
             x == Locked!Column(e)
             a == x \div p
             w == W \div p
             r == Locked!Reach(l)
  <1>0. s \in Stages /\ (l = 0 => s = 0)
    BY LayerFacts DEF Locked!StageOf
  <1>1. p \in {1, 2, 4, 8} /\ W \in Nat /\ W >= p /\ (l = 0 => p = 1)
    <2> HIDE DEF s
    <2>1. 2^0 = 1
      OBVIOUS
    <2> QED
      BY <1>0, <2>1, WideEnough
  <1>2. x \in Int
    BY OwnerIs
  <1>3. Locked!PatchAt(e, l) = (a - r .. a + r) \cap (0 .. w - 1)
    BY DEF Locked!PatchAt, Locked!At, Locked!Cells
  <1>4. Locked!Cells(Locked!StageOf(l)) = 0 .. w - 1
    BY DEF Locked!Cells
  <1>5. Locked!InBounds(e) <=> x \in 0 .. W - 1
    BY DEF Locked!InBounds, Locked!GridColumns
  <1>6. r \in {0, 1} /\ (r = 0 => l = 0)
    BY DEF Locked!Reach
  <1> HIDE DEF s, p, x, r
  <1>7. /\ a \in Int /\ w \in Int /\ w >= 1 /\ (x \in 0 .. W - 1 => a >= 0 /\ a <= w)
        /\ r = 0 /\ x \in 0 .. W - 1 => a <= w - 1
    <2>1. CASE p = 1
      BY <1>1, <1>2, <2>1
    <2>2. CASE p = 2
      BY <1>1, <1>2, <1>6, <2>2
    <2>3. CASE p = 4
      BY <1>1, <1>2, <1>6, <2>3
    <2>4. CASE p = 8
      BY <1>1, <1>2, <1>6, <2>4
    <2> QED
      BY <1>1, <2>1, <2>2, <2>3, <2>4
  <1> HIDE DEF a, w
  <1>8. IsFiniteSet(0 .. w - 1)
    BY <1>7, FS_Interval
  <1>9. IsFiniteSet(Locked!PatchAt(e, l))
    BY <1>3, <1>8, FS_Subset
  <1>10. ASSUME x \in 0 .. W - 1 PROVE Locked!PatchAt(e, l) # {}
    <2>1. CASE a = 0
      <3>1. 0 \in (a - r .. a + r) \cap (0 .. w - 1)
        BY <1>6, <1>7, <2>1
      <3> QED
        BY <1>3, <3>1
    <2>2. CASE a # 0
      <3>1. a - r \in (a - r .. a + r) \cap (0 .. w - 1)
        BY <1>6, <1>7, <1>10, <2>2
      <3> QED
        BY <1>3, <3>1
    <2> QED
      BY <2>1, <2>2
  <1> QED
    BY <1>3, <1>4, <1>5, <1>7, <1>9, <1>10

\* The next cell of a shard in a layer.
LEMMA CellFacts ==
  ASSUME LockedAssumption, LockedType, NEW k \in Locked!Shards, thr[k].pc \in {"lock", "update"}
  PROVE  /\ CellOf(k) \in thr[k].left
         /\ CellOf(k) \in Locked!PatchAt(thr[k].e, thr[k].layer)
         /\ CellOf(k) \in Locked!Cells(Locked!StageOf(thr[k].layer))
  <1> DEFINE e == thr[k].e
             l == thr[k].layer
             left == thr[k].left
  <1>1. e \in Locked!Seqs /\ l \in LayersOf /\ left # {} /\ left \subseteq Locked!PatchAt(e, l)
    BY HandFacts
  <1> HIDE DEF e, l, left
  <1>2. IsFiniteSet(left) /\ left \subseteq Int /\ Locked!PatchAt(e, l) \subseteq Locked!Cells(Locked!StageOf(l))
    BY <1>1, PatchFacts, FS_Subset
  <1>3. Locked!Min(left) \in left
    BY <1>1, <1>2, LockedMin
  <1> QED
    BY <1>1, <1>2, <1>3 DEF CellOf, e, l, left

-----------------------------------------------------------------------------
(* The initial state. *)

LEMMA QueueNames ==
  ASSUME NEW j, NEW k
  PROVE  Locked!Own(j) = Locked!Own(k) <=> j = k
  BY DEF Locked!Own

LEMMA LockedStart ==
  ASSUME LockedAssumption, Locked!Init
  PROVE  LockedInv
  <1>1. /\ todo = Locked!Main /\ drained = 0 /\ pushed = 0 /\ thr = [k \in Locked!Shards |-> Locked!Polling]
        /\ q = [k \in {Locked!Own(k) : k \in Locked!Shards} |-> <<>>]
        /\ mark = [k \in Locked!Shards |-> 0]
        /\ log = [stage |-> Locked!NoStages, cells |-> Locked!NoCells, overtaken |-> FALSE]
    BY DEF Locked!Init, Locked!StartOf, Locked!CommitStart
  <1>2. \A k \in Locked!Shards : thr[k] = Locked!Polling /\ QueueOf(k) = <<>> /\ mark[k] = 0
    BY <1>1 DEF QueueOf
  <1>3. /\ Locked!Polling \in [pc : {"pop", "idle", "exit"}, eof : BOOLEAN, worked : BOOLEAN, last : Int]
        /\ Locked!Polling.pc = "pop" /\ Locked!Polling.eof = FALSE
    BY DEF Locked!Polling
  <1>4. \A k \in Locked!Shards : thr[k].pc = "pop" /\ thr[k].eof = FALSE /\ \A e : ~Holds(k, e)
    BY <1>2, <1>3 DEF Holds
  <1>5. \A s \in Stages : log.stage[s] = <<>>
    BY <1>1 DEF Locked!NoStages, Stages
  <1>6. log.stage \in [Stages -> Seq(Locked!Seqs)]
    BY <1>1 DEF Locked!NoStages, Stages
  <1>7. /\ DOMAIN log.cells = LayersOf
        /\ \A l \in LayersOf : log.cells[l] = [c \in Locked!Cells(Locked!StageOf(l)) |-> <<>>]
    BY <1>1 DEF Locked!NoCells, LayersOf
  <1>8. \A s \in Stages : \A e : Times(s, e) = 0
    BY <1>5, CountOfNone DEF Times
  <1>9. LockedType
    <2>1. todo \in Seq(Instructions) /\ drained \in 0 .. Locked!Total /\ pushed \in Nat
      BY <1>1, MainFacts DEF LockedAssumption, Locked!Total
    <2>2. q \in [{Locked!Own(k) : k \in Locked!Shards} -> Seq(Messages)]
      BY <1>1
    <2>3. mark \in [Locked!Shards -> Int]
      BY <1>1
    <2>4. DOMAIN log = {"stage", "cells", "overtaken"} /\ log.overtaken \in BOOLEAN
      BY <1>1
    <2>5. ASSUME NEW l \in LayersOf PROVE log.cells[l] \in CellsType(l)
      <3>1. log.cells[l] = [c \in Locked!Cells(Locked!StageOf(l)) |-> <<>>] /\ <<>> \in Seq(Locked!Seqs)
        BY <1>7
      <3> QED
        BY <3>1 DEF CellsType
    <2>6. thr \in [Locked!Shards -> ThreadType]
      BY <1>1, <1>3 DEF ThreadType
    <2> QED
      BY <1>6, <1>7, <2>1, <2>2, <2>3, <2>4, <2>5, <2>6 DEF LockedType
  <1>10. OrderInv
    <2>1. ToComeInOrder
      <3>1. ASSUME NEW j \in DOMAIN todo, Brings(todo[j], "event") PROVE todo[j].msg.seq >= pushed - 1
        <4>1. todo[j].msg.seq \in Locked!Seqs
          BY <1>1, <3>1, MainFacts DEF Routed
        <4>2. todo[j].msg.seq \in Nat
          BY <4>1, OwnerIs
        <4> QED
          BY <1>1, <4>2
      <3> QED
        BY <1>1, <3>1, MainFacts DEF ToComeInOrder
    <2>2. \A k \in Locked!Shards : QueueInOrder(k)
      BY <1>2 DEF QueueInOrder
    <2>3. \A k \in Locked!Shards : HeldInOrder(k) /\ NothingAfterEof(k)
      BY <1>4 DEF HeldInOrder, NothingAfterEof
    <2> QED
      BY <2>1, <2>2, <2>3 DEF OrderInv
  <1>11. PlaceInv
    <2>1. \A e \in Locked!Seqs : Locked!InBounds(e) => Coming(e)
      BY <1>1, MainFacts DEF Coming
    <2> QED
      BY <1>4, <1>8, <2>1 DEF PlaceInv
  <1>12. LockInv
    BY <1>4 DEF LockInv
  <1>13. CellsInv
    <2>1. \A c, e : \A l \in LayersOf : ~Reached(e, l, c)
      BY <1>4, <1>8, LayerFacts DEF Reached
    <2>2. \A l \in LayersOf : \A c \in Locked!Cells(Locked!StageOf(l)) : log.cells[l][c] = <<>>
      BY <1>7
    <2> QED
      BY <2>1, <2>2, CountOfNone DEF CellsInv
  <1>14. CommitInv
    <2>1. \A e \in Locked!Seqs : ~(e < 0)
      BY OwnerIs
    <2> QED
      BY <1>1, <1>2, <2>1 DEF CommitInv
  <1> QED
    BY <1>9, <1>10, <1>11, <1>12, <1>13, <1>14 DEF LockedInv

-----------------------------------------------------------------------------
(* What the steps do to the queues and to what is still to come. *)

LEMMA TailIs ==
  ASSUME NEW S, NEW s \in Seq(S), s # <<>>
  PROVE  /\ Tail(s) \in Seq(S) /\ Head(s) = s[1] /\ 1 \in DOMAIN s /\ Head(s) \in S
         /\ \A i \in DOMAIN Tail(s) : i + 1 \in DOMAIN s /\ Tail(s)[i] = s[i + 1] /\ i \in Nat /\ 1 < i + 1
         /\ \A i \in DOMAIN s : i = 1 \/ (i - 1 \in DOMAIN Tail(s) /\ Tail(s)[i - 1] = s[i])
  <1>1. Tail(s) \in Seq(S) /\ Len(Tail(s)) = Len(s) - 1 /\ \A i \in 1 .. Len(s) - 1 : Tail(s)[i] = s[i + 1]
    BY HeadTailProperties
  <1>2. DOMAIN s = 1 .. Len(s) /\ Len(s) \in Nat /\ Len(s) # 0 /\ DOMAIN Tail(s) = 1 .. Len(s) - 1
    BY <1>1
  <1>3. ASSUME NEW i \in DOMAIN s, i # 1
        PROVE  i - 1 \in DOMAIN Tail(s) /\ Tail(s)[i - 1] = s[i]
    <2>1. i - 1 \in 1 .. Len(s) - 1 /\ (i - 1) + 1 = i
      BY <1>2, <1>3
    <2>2. Tail(s)[i - 1] = s[(i - 1) + 1]
      BY <1>1, <2>1
    <2> QED
      BY <1>2, <2>1, <2>2
  <1>4. Head(s) = s[1] /\ 1 \in DOMAIN s /\ s[1] \in S
    BY <1>2
  <1>5. \A i \in DOMAIN Tail(s) : i + 1 \in DOMAIN s /\ Tail(s)[i] = s[i + 1] /\ i \in Nat /\ 1 < i + 1
    BY <1>1, <1>2
  <1>6. \A i \in DOMAIN s : i = 1 \/ (i - 1 \in DOMAIN Tail(s) /\ Tail(s)[i - 1] = s[i])
    BY <1>3
  <1>7. Tail(s) \in Seq(S)
    BY <1>1
  <1> QED
    BY <1>4, <1>5, <1>6, <1>7

LEMMA AppendedIs ==
  ASSUME NEW S, NEW s \in Seq(S), NEW x \in S
  PROVE  /\ Append(s, x) \in Seq(S)
         /\ \A i \in DOMAIN s : i \in DOMAIN Append(s, x) /\ Append(s, x)[i] = s[i]
         /\ \A i \in DOMAIN Append(s, x) : i \in DOMAIN s \/ (i = Len(s) + 1 /\ Append(s, x)[i] = x)
         /\ Len(s) + 1 \in DOMAIN Append(s, x) /\ Append(s, x)[Len(s) + 1] = x
         /\ \A i \in DOMAIN s : i < Len(s) + 1 /\ i \in Nat
  <1>1. /\ Append(s, x) \in Seq(S) /\ Len(Append(s, x)) = Len(s) + 1
        /\ \A i \in 1 .. Len(s) : Append(s, x)[i] = s[i]
        /\ Append(s, x)[Len(s) + 1] = x
    BY AppendProperties
  <1>2. DOMAIN s = 1 .. Len(s) /\ Len(s) \in Nat /\ DOMAIN Append(s, x) = 1 .. Len(s) + 1
    BY <1>1
  <1> DEFINE n == Len(s)
             t == Append(s, x)
  <1>3. /\ t \in Seq(S) /\ DOMAIN s = 1 .. n /\ n \in Nat /\ DOMAIN t = 1 .. n + 1 /\ t[n + 1] = x
        /\ \A i \in 1 .. n : t[i] = s[i]
    BY <1>1, <1>2
  <1> HIDE DEF n, t
  <1>4. \A i \in DOMAIN s : i \in DOMAIN t /\ t[i] = s[i] /\ i < n + 1 /\ i \in Nat
    BY <1>3
  <1>5. \A i \in DOMAIN t : i \in DOMAIN s \/ (i = n + 1 /\ t[i] = x)
    BY <1>3
  <1>6. n + 1 \in DOMAIN t
    BY <1>3
  <1> QED
    BY <1>3, <1>4, <1>5, <1>6 DEF n, t

LEMMA QueueType ==
  ASSUME LockedType, NEW k \in Locked!Shards
  PROVE  QueueOf(k) \in Seq(Messages) /\ Locked!Own(k) \in DOMAIN q
  BY DEF LockedType, QueueOf

LEMMA Popping ==
  ASSUME LockedType, NEW k \in Locked!Shards, q' = Locked!Popped(Locked!Own(k)), NEW j \in Locked!Shards
  PROVE  QueueOf(j)' = IF j = k THEN Tail(QueueOf(k)) ELSE QueueOf(j)
  BY QueueType, QueueNames DEF QueueOf, Locked!Popped, LockedType

LEMMA Sending ==
  ASSUME LockedType, NEW k \in Locked!Shards, NEW m, q' = Locked!Sent(Locked!Own(k), m), NEW j \in Locked!Shards
  PROVE  QueueOf(j)' = IF j = k THEN Append(QueueOf(k), m) ELSE QueueOf(j)
  BY QueueType, QueueNames DEF QueueOf, Locked!Sent, LockedType

LEMMA HeldNotComing ==
  ASSUME LockedAssumption, LockedType, OrderInv, NEW k \in Locked!Shards, NEW e \in Locked!Seqs, Holds(k, e)
  PROVE  /\ ~Coming(e) /\ Locked!InBounds(e) /\ k = Locked!ShardOf(Locked!Column(e))
         /\ \A j \in Locked!Shards : Holds(j, e) => j = k
  <1>1. \A j \in Locked!Shards : Holds(j, e) => Locked!InBounds(e) /\ j = Locked!ShardOf(Locked!Column(e))
    <2> TAKE j \in Locked!Shards
    <2> HAVE Holds(j, e)
    <2>1. Routed(EventTo(j, e))
      BY DEF OrderInv, HeldInOrder
    <2>2. Locked!InBounds(e) /\ Locked!Own(j) = Locked!Own(Locked!ShardOf(Locked!Column(e)))
      BY <2>1 DEF Routed, EventTo, PushTo, Brings
    <2> QED
      BY <2>2, QueueNames
  <1>2. e \in Nat
    BY OwnerIs
  <1>3. Floor(EventTo(k, e)) = e + 1
    BY DEF Floor, FloorOf, EventTo, PushTo
  <1>4. ASSUME NEW j \in DOMAIN todo, Brings(todo[j], "event"), todo[j].msg.seq = e PROVE FALSE
    <2>1. After(EventTo(k, e), todo[j])
      BY DEF OrderInv, HeldInOrder
    <2>2. e >= e + 1
      BY <1>3, <1>4, <2>1 DEF After
    <2> QED
      BY <1>2, <2>2
  <1>5. ASSUME NEW j \in Locked!Shards, NEW i \in DOMAIN QueueOf(j),
               QueueOf(j)[i].type = "event", QueueOf(j)[i].seq = e
        PROVE  FALSE
    <2> DEFINE do == PushTo(j, QueueOf(j)[i])
    <2>1. Brings(do, "event") /\ do.msg.seq = e /\ do.to = Locked!Own(j) /\ Routed(do)
      BY <1>5 DEF PushTo, Brings, OrderInv, QueueInOrder
    <2>2. j = k
      BY <1>1, <2>1, QueueNames DEF Routed
    <2>3. After(EventTo(k, e), do)
      BY <1>5, <2>2 DEF OrderInv, HeldInOrder
    <2>4. e >= e + 1
      BY <1>3, <2>1, <2>3 DEF After
    <2> QED
      BY <1>2, <2>4
  <1> QED
    BY <1>1, <1>4, <1>5 DEF Coming

-----------------------------------------------------------------------------
(* The order of what is to come. *)

\* A step that touches neither the queues nor the producer, and takes nothing up.
LEMMA QuietOrder ==
  ASSUME OrderInv, todo' = todo, q' = q, pushed' = pushed,
         \A j \in Locked!Shards : /\ thr'[j].eof = thr[j].eof
                                  /\ thr'[j].pc = "exit" => thr[j].eof
                                  /\ \A e \in Locked!Seqs : Holds(j, e)' => Holds(j, e)
  PROVE  OrderInv'
  <1>1. \A j \in Locked!Shards : QueueOf(j)' = QueueOf(j)
    BY DEF QueueOf
  <1>2. ToComeInOrder'
    BY DEF OrderInv, ToComeInOrder, Routed
  <1>3. ASSUME NEW j \in Locked!Shards PROVE QueueInOrder(j)'
    <2>1. QueueInOrder(j)
      BY DEF OrderInv
    <2> QED
      BY <1>1, <2>1 DEF QueueInOrder
  <1>4. ASSUME NEW j \in Locked!Shards PROVE HeldInOrder(j)'
    <2>1. HeldInOrder(j)
      BY DEF OrderInv
    <2> SUFFICES ASSUME NEW e \in Locked!Seqs, Holds(j, e)'
                 PROVE  /\ Routed(EventTo(j, e))
                        /\ \A i \in DOMAIN QueueOf(j)' : After(EventTo(j, e), PushTo(j, QueueOf(j)'[i]))
                        /\ \A i \in DOMAIN todo' : After(EventTo(j, e), todo'[i])
      BY DEF HeldInOrder
    <2>2. Holds(j, e)
      OBVIOUS
    <2> QED
      BY <1>1, <2>1, <2>2 DEF HeldInOrder
  <1>5. ASSUME NEW j \in Locked!Shards PROVE NothingAfterEof(j)'
    <2>1. NothingAfterEof(j)
      BY DEF OrderInv
    <2> QED
      BY <1>1, <2>1 DEF NothingAfterEof
  <1> QED
    BY <1>2, <1>3, <1>4, <1>5 DEF OrderInv

\* A shard takes the first message of its queue.
LEMMA PopOrder ==
  ASSUME LockedType, OrderInv, NEW k \in Locked!Shards, QueueOf(k) # <<>>,
         q' = Locked!Popped(Locked!Own(k)), todo' = todo, pushed' = pushed,
         \A j \in Locked!Shards \ {k} : thr'[j] = thr[j],
         thr'[k].pc # "exit",
         thr'[k].eof => Head(QueueOf(k)).type = "eof",
         \A e \in Locked!Seqs : Holds(k, e)' => Head(QueueOf(k)) = [type |-> "event", seq |-> e]
  PROVE  OrderInv'
  <1> DEFINE h == Head(QueueOf(k))
             s == QueueOf(k)
             r == Tail(QueueOf(k))
  <1>1. /\ s \in Seq(Messages) /\ r \in Seq(Messages) /\ 1 \in DOMAIN s /\ h = s[1]
        /\ \A i \in DOMAIN r : i + 1 \in DOMAIN s /\ r[i] = s[i + 1] /\ i \in Nat /\ 1 < i + 1
    BY QueueType, TailIs
  <1>2. \A j \in Locked!Shards : QueueOf(j)' = IF j = k THEN r ELSE QueueOf(j)
    BY Popping
  <1>3. \A j \in Locked!Shards : QueueInOrder(j) /\ HeldInOrder(j) /\ NothingAfterEof(j)
    BY DEF OrderInv
  <1> HIDE DEF s, r, h
  <1>4. /\ \A i \in DOMAIN s : /\ Routed(PushTo(k, s[i]))
                               /\ \A j \in DOMAIN todo : After(PushTo(k, s[i]), todo[j])
                               /\ \A j \in DOMAIN s : i < j => After(PushTo(k, s[i]), PushTo(k, s[j]))
    BY <1>3 DEF QueueInOrder, s
  <1>5. \A i \in DOMAIN r : After(PushTo(k, h), PushTo(k, r[i]))
    BY <1>1, <1>4
  <1>6. ToComeInOrder'
    BY DEF OrderInv, ToComeInOrder, Routed
  <1>7. ASSUME NEW j \in Locked!Shards PROVE QueueInOrder(j)'
    <2>1. CASE j = k
      <3>1. ASSUME NEW i \in DOMAIN r, NEW n \in DOMAIN r, i < n PROVE After(PushTo(k, r[i]), PushTo(k, r[n]))
        <4>1. i + 1 < n + 1
          BY <1>1, <3>1
        <4> QED
          BY <1>1, <1>4, <4>1
      <3> QED
        BY <1>1, <1>2, <1>4, <2>1, <3>1 DEF QueueInOrder
    <2>2. CASE j # k
      BY <1>2, <1>3, <2>2 DEF QueueInOrder
    <2> QED
      BY <2>1, <2>2
  <1>8. ASSUME NEW j \in Locked!Shards PROVE HeldInOrder(j)'
    <2> SUFFICES ASSUME NEW e \in Locked!Seqs, Holds(j, e)'
                 PROVE  /\ Routed(EventTo(j, e))
                        /\ \A i \in DOMAIN QueueOf(j)' : After(EventTo(j, e), PushTo(j, QueueOf(j)'[i]))
                        /\ \A i \in DOMAIN todo' : After(EventTo(j, e), todo'[i])
      BY DEF HeldInOrder
    <2>1. CASE j = k
      <3>1. EventTo(k, e) = PushTo(k, h)
        BY <2>1 DEF h, EventTo
      <3> QED
        BY <1>1, <1>2, <1>4, <1>5, <2>1, <3>1
    <2>2. CASE j # k
      <3>1. Holds(j, e) /\ QueueOf(j)' = QueueOf(j)
        BY <1>2, <2>2 DEF Holds
      <3> QED
        BY <1>3, <3>1 DEF HeldInOrder
    <2> QED
      BY <2>1, <2>2
  <1>9. ASSUME NEW j \in Locked!Shards PROVE NothingAfterEof(j)'
    <2>1. CASE j = k
      <3> SUFFICES ASSUME thr'[k].eof
                   PROVE  r = <<>> /\ \A i \in DOMAIN todo : todo[i].op = "push" => todo[i].to # Locked!Own(k)
        BY <1>2, <2>1 DEF NothingAfterEof
      <3>1. Brings(PushTo(k, h), "eof") /\ PushTo(k, h).to = Locked!Own(k)
        BY DEF h, Brings, PushTo
      <3>2. \A i \in DOMAIN r : FALSE
        <4> TAKE i \in DOMAIN r
        <4>1. PushTo(k, r[i]).op = "push" /\ PushTo(k, r[i]).to = Locked!Own(k)
          BY DEF PushTo
        <4> QED
          BY <1>5, <3>1, <4>1 DEF After
      <3>3. r = <<>>
        <4>1. \/ r = <<>>
              \/ 1 \in DOMAIN r
          BY <1>1
        <4> QED
          BY <3>2, <4>1
      <3> QED
        BY <1>1, <1>4, <3>1, <3>3 DEF After
    <2>2. CASE j # k
      BY <1>2, <1>3, <2>2 DEF NothingAfterEof
    <2> QED
      BY <2>1, <2>2
  <1> QED
    BY <1>6, <1>7, <1>8, <1>9 DEF OrderInv

\* The first instruction of the producer.
LEMMA NextInstruction ==
  ASSUME LockedType, todo # <<>>, todo' = Tail(todo)
  PROVE  /\ Head(todo) = todo[1] /\ 1 \in DOMAIN todo /\ Head(todo) \in Instructions /\ todo' \in Seq(Instructions)
         /\ \A i \in DOMAIN todo' : i + 1 \in DOMAIN todo /\ todo'[i] = todo[i + 1] /\ i \in Nat /\ 1 < i + 1
         /\ \A i \in DOMAIN todo : i = 1 \/ (i - 1 \in DOMAIN todo' /\ todo'[i - 1] = todo[i])
         /\ Head(todo).op = "push" =>
              \E k \in Locked!Shards : Head(todo) = PushTo(k, Head(todo).msg) /\ Head(todo).to = Locked!Own(k)
                                       /\ Head(todo).msg \in Messages
         /\ Head(todo).op # "push" => Head(todo).seq \in Nat
         /\ Head(todo).op = "wait" => Head(todo).seq \in 0 .. Locked!Total
  <1>1. todo \in Seq(Instructions)
    BY DEF LockedType
  <1>2. /\ Head(todo) = todo[1] /\ 1 \in DOMAIN todo /\ Head(todo) \in Instructions /\ todo' \in Seq(Instructions)
        /\ \A i \in DOMAIN todo' : i + 1 \in DOMAIN todo /\ todo'[i] = todo[i + 1] /\ i \in Nat /\ 1 < i + 1
        /\ \A i \in DOMAIN todo : i = 1 \/ (i - 1 \in DOMAIN todo' /\ todo'[i - 1] = todo[i])
    BY <1>1, TailIs
  <1> DEFINE do == Head(todo)
  <1>3. do \in Instructions
    BY <1>2
  <1> HIDE DEF do
  <1>4. do.op = "push" => \E k \in Locked!Shards : do = PushTo(k, do.msg) /\ do.to = Locked!Own(k) /\ do.msg \in Messages
    BY <1>3 DEF Instructions, Pushes, PushTo
  <1>5. /\ do.op # "push" => do.seq \in Nat
        /\ do.op = "wait" => do.seq \in 0 .. Locked!Total
    BY <1>3 DEF Instructions, Pushes
  <1> QED
    BY <1>2, <1>4, <1>5 DEF do

\* What one instruction leaves to come.
LEMMA AfterInstruction ==
  ASSUME LockedType, OrderInv, todo # <<>>, todo' = Tail(todo)
  PROVE  /\ \A i \in DOMAIN todo' : Routed(todo'[i]) /\ After(Head(todo), todo'[i])
         /\ \A i \in DOMAIN todo' : Brings(todo'[i], "event") => todo'[i].msg.seq >= pushed - 1
         /\ \A i, j \in DOMAIN todo' : i < j => After(todo'[i], todo'[j])
         /\ Routed(Head(todo))
  <1>1. ToComeInOrder
    BY DEF OrderInv
  <1>2. \A i, j \in DOMAIN todo : i < j => After(todo[i], todo[j])
    BY <1>1 DEF ToComeInOrder
  <1>3. \A i \in DOMAIN todo : Routed(todo[i]) /\ (Brings(todo[i], "event") => todo[i].msg.seq >= pushed - 1)
    BY <1>1 DEF ToComeInOrder
  <1>4. /\ Head(todo) = todo[1] /\ 1 \in DOMAIN todo
        /\ \A i \in DOMAIN todo' : i + 1 \in DOMAIN todo /\ todo'[i] = todo[i + 1] /\ i \in Nat /\ 1 < i + 1
    BY NextInstruction
  <1>5. ASSUME NEW i \in DOMAIN todo', NEW j \in DOMAIN todo', i < j PROVE After(todo'[i], todo'[j])
    <2>1. i + 1 < j + 1
      BY <1>4, <1>5
    <2> QED
      BY <1>2, <1>4, <2>1
  <1>6. \A i \in DOMAIN todo' : After(Head(todo), todo'[i])
    BY <1>2, <1>4
  <1> QED
    BY <1>3, <1>4, <1>5, <1>6

LEMMA PushOrder ==
  ASSUME LockedType, OrderInv, todo # <<>>, todo' = Tail(todo), pushed' = pushed, thr' = thr,
         NEW k \in Locked!Shards, Head(todo) = PushTo(k, Head(todo).msg), Head(todo).msg \in Messages,
         q' = Locked!Sent(Locked!Own(k), Head(todo).msg)
  PROVE  OrderInv'
  <1> DEFINE m == Head(todo).msg
             do == Head(todo)
             s == QueueOf(k)
             t == Append(s, m)
  <1>1. \A j \in Locked!Shards : QueueOf(j)' = IF j = k THEN t ELSE QueueOf(j)
    BY Sending
  <1>2. /\ t \in Seq(Messages)
        /\ \A i \in DOMAIN t : (i \in DOMAIN s /\ t[i] = s[i] /\ i < Len(s) + 1) \/ (i = Len(s) + 1 /\ t[i] = m)
        /\ \A i \in DOMAIN s : i \in Nat
        /\ Len(s) \in Nat
    <2>1. s \in Seq(Messages) /\ m \in Messages
      BY QueueType
    <2> HIDE DEF s, m
    <2> QED
      BY <2>1, AppendedIs
  <1>3. \A j \in Locked!Shards : QueueInOrder(j) /\ HeldInOrder(j) /\ NothingAfterEof(j)
    BY DEF OrderInv
  <1>4. do = PushTo(k, m) /\ do.op = "push" /\ do.to = Locked!Own(k)
    BY DEF PushTo
  <1>5. Head(todo) = todo[1] /\ 1 \in DOMAIN todo
    BY NextInstruction
  <1>6. /\ \A i \in DOMAIN todo' : Routed(todo'[i]) /\ After(do, todo'[i])
        /\ \A i \in DOMAIN todo' : Brings(todo'[i], "event") => todo'[i].msg.seq >= pushed - 1
        /\ \A i, j \in DOMAIN todo' : i < j => After(todo'[i], todo'[j])
        /\ Routed(do)
    BY AfterInstruction
  <1>7. \A i \in DOMAIN todo' : i + 1 \in DOMAIN todo /\ todo'[i] = todo[i + 1]
    BY NextInstruction
  <1>8. ToComeInOrder'
    BY <1>6 DEF ToComeInOrder, Routed
  <1> HIDE DEF m, do, s, t
  <1>9. ASSUME NEW j \in Locked!Shards PROVE QueueInOrder(j)'
    <2>1. CASE j = k
      <3>1. \A i \in DOMAIN s : /\ Routed(PushTo(k, s[i]))
                                /\ \A n \in DOMAIN todo : After(PushTo(k, s[i]), todo[n])
                                /\ \A n \in DOMAIN s : i < n => After(PushTo(k, s[i]), PushTo(k, s[n]))
        BY <1>3 DEF QueueInOrder, s
      <3>2. \A i \in DOMAIN s : After(PushTo(k, s[i]), PushTo(k, m))
        BY <1>4, <1>5, <3>1 DEF do
      <3>3. ASSUME NEW i \in DOMAIN t
            PROVE  /\ Routed(PushTo(k, t[i]))
                   /\ \A n \in DOMAIN todo' : After(PushTo(k, t[i]), todo'[n])
                   /\ \A n \in DOMAIN t : i < n => After(PushTo(k, t[i]), PushTo(k, t[n]))
        <4>1. CASE i \in DOMAIN s /\ t[i] = s[i]
          BY <1>2, <1>7, <3>1, <3>2, <4>1
        <4>2. CASE i = Len(s) + 1 /\ t[i] = m
          <5>1. \A n \in DOMAIN t : ~(i < n)
            BY <1>2, <4>2
          <5> QED
            BY <1>4, <1>6, <4>2, <5>1
        <4> QED
          BY <1>2, <4>1, <4>2
      <3> QED
        BY <1>1, <2>1, <3>3 DEF QueueInOrder, Routed
    <2>2. CASE j # k
      <3>1. QueueInOrder(j) /\ QueueOf(j)' = QueueOf(j)
        BY <1>1, <1>3, <2>2
      <3> QED
        BY <1>7, <3>1 DEF QueueInOrder, Routed
    <2> QED
      BY <2>1, <2>2
  <1>10. ASSUME NEW j \in Locked!Shards PROVE HeldInOrder(j)'
    <2> SUFFICES ASSUME NEW e \in Locked!Seqs, Holds(j, e)
                 PROVE  /\ Routed(EventTo(j, e))
                        /\ \A i \in DOMAIN QueueOf(j)' : After(EventTo(j, e), PushTo(j, QueueOf(j)'[i]))
                        /\ \A i \in DOMAIN todo' : After(EventTo(j, e), todo'[i])
      BY DEF HeldInOrder, Holds
    <2>1. /\ Routed(EventTo(j, e))
          /\ \A i \in DOMAIN QueueOf(j) : After(EventTo(j, e), PushTo(j, QueueOf(j)[i]))
          /\ \A i \in DOMAIN todo : After(EventTo(j, e), todo[i])
      BY <1>3 DEF HeldInOrder
    <2>2. CASE j = k
      <3>1. After(EventTo(j, e), PushTo(k, m))
        BY <1>4, <1>5, <2>1 DEF do
      <3> QED
        BY <1>1, <1>2, <1>7, <2>1, <2>2, <3>1 DEF s
    <2>3. CASE j # k
      BY <1>1, <1>7, <2>1, <2>3
    <2> QED
      BY <2>2, <2>3
  <1>11. ASSUME NEW j \in Locked!Shards PROVE NothingAfterEof(j)'
    <2>1. NothingAfterEof(j)
      BY <1>3
    <2>2. thr[j].eof => j # k
      BY <1>4, <1>5, <2>1 DEF NothingAfterEof, do
    <2> QED
      BY <1>1, <1>7, <2>1, <2>2 DEF NothingAfterEof
  <1> QED
    BY <1>8, <1>9, <1>10, <1>11 DEF OrderInv

\* The instructions that push nothing.
LEMMA OtherOrder ==
  ASSUME LockedType, OrderInv, todo # <<>>, todo' = Tail(todo), thr' = thr, q' = q,
         Head(todo).op # "push",
         pushed' = pushed \/ (Head(todo).op = "publish" /\ pushed' = Head(todo).seq)
  PROVE  OrderInv'
  <1>1. /\ \A i \in DOMAIN todo' : Routed(todo'[i]) /\ After(Head(todo), todo'[i])
        /\ \A i \in DOMAIN todo' : Brings(todo'[i], "event") => todo'[i].msg.seq >= pushed - 1
        /\ \A i, j \in DOMAIN todo' : i < j => After(todo'[i], todo'[j])
    BY AfterInstruction
  <1>2. \A i \in DOMAIN todo' : i + 1 \in DOMAIN todo /\ todo'[i] = todo[i + 1]
    BY NextInstruction
  <1>3. ASSUME NEW i \in DOMAIN todo', Brings(todo'[i], "event") PROVE todo'[i].msg.seq >= pushed' - 1
    <2>1. CASE pushed' = pushed
      BY <1>1, <1>3, <2>1
    <2>2. CASE Head(todo).op = "publish" /\ pushed' = Head(todo).seq
      <3>1. Floor(Head(todo)) = pushed' - 1
        BY <2>2 DEF Floor
      <3> QED
        BY <1>1, <1>3, <3>1 DEF After
    <2> QED
      BY <2>1, <2>2
  <1>4. ToComeInOrder'
    BY <1>1, <1>3 DEF ToComeInOrder, Routed
  <1>5. \A j \in Locked!Shards : QueueOf(j)' = QueueOf(j) /\ \A e : Holds(j, e)' = Holds(j, e)
    BY DEF QueueOf, Holds
  <1>6. ASSUME NEW j \in Locked!Shards PROVE QueueInOrder(j)' /\ HeldInOrder(j)' /\ NothingAfterEof(j)'
    <2>1. QueueInOrder(j) /\ HeldInOrder(j) /\ NothingAfterEof(j)
      BY DEF OrderInv
    <2>2. QueueInOrder(j)'
      BY <1>2, <1>5, <2>1 DEF QueueInOrder, Routed
    <2>3. HeldInOrder(j)'
      BY <1>2, <1>5, <2>1 DEF HeldInOrder, Routed, Holds
    <2>4. NothingAfterEof(j)'
      BY <1>2, <1>5, <2>1 DEF NothingAfterEof
    <2> QED
      BY <2>2, <2>3, <2>4
  <1> QED
    BY <1>4, <1>6 DEF OrderInv

-----------------------------------------------------------------------------
(* What is still coming. *)

LEMMA ComingPush ==
  ASSUME LockedType, todo # <<>>, todo' = Tail(todo),
         NEW k \in Locked!Shards, Head(todo) = PushTo(k, Head(todo).msg), Head(todo).msg \in Messages,
         q' = Locked!Sent(Locked!Own(k), Head(todo).msg), NEW e
  PROVE  Coming(e)' <=> Coming(e)
  <1> DEFINE m == Head(todo).msg
             s == QueueOf(k)
             t == Append(s, m)
  <1>1. \A j \in Locked!Shards : QueueOf(j)' = IF j = k THEN t ELSE QueueOf(j)
    BY Sending
  <1>2. /\ \A i \in DOMAIN t : (i \in DOMAIN s /\ t[i] = s[i]) \/ t[i] = m
        /\ \A i \in DOMAIN s : i \in DOMAIN t /\ t[i] = s[i]
        /\ \E i \in DOMAIN t : t[i] = m
    <2>1. s \in Seq(Messages) /\ m \in Messages
      BY QueueType
    <2> HIDE DEF s, m
    <2> QED
      BY <2>1, AppendedIs
  <1>3. /\ 1 \in DOMAIN todo
        /\ \A i \in DOMAIN todo' : i + 1 \in DOMAIN todo /\ todo'[i] = todo[i + 1]
        /\ \A i \in DOMAIN todo : i = 1 \/ (i - 1 \in DOMAIN todo' /\ todo'[i - 1] = todo[i])
        /\ Brings(todo[1], "event") <=> m.type = "event"
        /\ todo[1].msg = m
    <2>1. Head(todo) = todo[1]
      BY NextInstruction
    <2> QED
      BY <2>1, NextInstruction DEF Brings, PushTo
  <1> HIDE DEF m, t
  <1> DEFINE Own1(x) == \E j \in DOMAIN todo : Brings(todo[j], "event") /\ todo[j].msg.seq = x
             Own2(x) == \E j \in DOMAIN todo' : Brings(todo'[j], "event") /\ todo'[j].msg.seq = x
             In(u, x) == \E i \in DOMAIN u : u[i].type = "event" /\ u[i].seq = x
  <1>4. Own1(e) <=> Own2(e) \/ (m.type = "event" /\ m.seq = e)
    <2>1. ASSUME Own1(e) PROVE Own2(e) \/ (m.type = "event" /\ m.seq = e)
      <3>1. PICK j \in DOMAIN todo : Brings(todo[j], "event") /\ todo[j].msg.seq = e
        BY <2>1
      <3>2. CASE j = 1
        BY <1>3, <3>1, <3>2
      <3>3. CASE j - 1 \in DOMAIN todo' /\ todo'[j - 1] = todo[j]
        BY <3>1, <3>3
      <3> QED
        BY <1>3, <3>2, <3>3
    <2>2. ASSUME Own2(e) PROVE Own1(e)
      BY <1>3, <2>2
    <2>3. ASSUME m.type = "event" /\ m.seq = e PROVE Own1(e)
      BY <1>3, <2>3
    <2> QED
      BY <2>1, <2>2, <2>3
  <1>5. In(t, e) <=> In(s, e) \/ (m.type = "event" /\ m.seq = e)
    BY <1>2
  <1>6. Coming(e) <=> Own1(e) \/ \E j \in Locked!Shards : In(QueueOf(j), e)
    BY DEF Coming
  <1>7. Coming(e)' <=> Own2(e) \/ \E j \in Locked!Shards : In(QueueOf(j)', e)
    BY DEF Coming
  <1> HIDE DEF Own1, Own2, In
  <1>8. (\E j \in Locked!Shards : In(QueueOf(j)', e)) <=>
          (\E j \in Locked!Shards : In(QueueOf(j), e)) \/ (m.type = "event" /\ m.seq = e)
    BY <1>1, <1>5 DEF s
  <1> QED
    BY <1>4, <1>6, <1>7, <1>8

LEMMA ComingOther ==
  ASSUME LockedType, todo # <<>>, todo' = Tail(todo), Head(todo).op # "push", q' = q, NEW e
  PROVE  Coming(e)' <=> Coming(e)
  <1>1. /\ \A i \in DOMAIN todo' : i + 1 \in DOMAIN todo /\ todo'[i] = todo[i + 1]
        /\ \A i \in DOMAIN todo : i = 1 \/ (i - 1 \in DOMAIN todo' /\ todo'[i - 1] = todo[i])
        /\ ~Brings(todo[1], "event")
    BY NextInstruction DEF Brings
  <1>2. \A j : QueueOf(j)' = QueueOf(j)
    BY DEF QueueOf
  <1>3. (\E j \in DOMAIN todo : Brings(todo[j], "event") /\ todo[j].msg.seq = e) <=>
        (\E j \in DOMAIN todo' : Brings(todo'[j], "event") /\ todo'[j].msg.seq = e)
    <2>1. ASSUME NEW j \in DOMAIN todo, Brings(todo[j], "event"), todo[j].msg.seq = e
          PROVE  \E i \in DOMAIN todo' : Brings(todo'[i], "event") /\ todo'[i].msg.seq = e
      <3>1. j - 1 \in DOMAIN todo' /\ todo'[j - 1] = todo[j]
        BY <1>1, <2>1
      <3> QED
        BY <2>1, <3>1
    <2>2. ASSUME NEW i \in DOMAIN todo', Brings(todo'[i], "event"), todo'[i].msg.seq = e
          PROVE  \E j \in DOMAIN todo : Brings(todo[j], "event") /\ todo[j].msg.seq = e
      BY <1>1, <2>2
    <2> QED
      BY <2>1, <2>2
  <1> QED
    BY <1>2, <1>3 DEF Coming

LEMMA ComingPop ==
  ASSUME LockedType, NEW k \in Locked!Shards, QueueOf(k) # <<>>,
         q' = Locked!Popped(Locked!Own(k)), todo' = todo, NEW e
  PROVE  Coming(e) <=> Coming(e)' \/ (Head(QueueOf(k)).type = "event" /\ Head(QueueOf(k)).seq = e)
  <1> DEFINE h == Head(QueueOf(k))
             s == QueueOf(k)
             r == Tail(QueueOf(k))
             In(u, x) == \E i \in DOMAIN u : u[i].type = "event" /\ u[i].seq = x
             Own1(x) == \E j \in DOMAIN todo : Brings(todo[j], "event") /\ todo[j].msg.seq = x
  <1>1. /\ 1 \in DOMAIN s /\ h = s[1]
        /\ \A i \in DOMAIN r : i + 1 \in DOMAIN s /\ r[i] = s[i + 1]
        /\ \A i \in DOMAIN s : i = 1 \/ (i - 1 \in DOMAIN r /\ r[i - 1] = s[i])
    BY QueueType, TailIs
  <1>2. \A j \in Locked!Shards : QueueOf(j)' = IF j = k THEN r ELSE QueueOf(j)
    BY Popping
  <1> HIDE DEF h, r
  <1>3. In(s, e) <=> In(r, e) \/ (h.type = "event" /\ h.seq = e)
    BY <1>1
  <1>4. Coming(e) <=> Own1(e) \/ \E j \in Locked!Shards : In(QueueOf(j), e)
    BY DEF Coming
  <1>5. Coming(e)' <=> Own1(e) \/ \E j \in Locked!Shards : In(QueueOf(j)', e)
    BY DEF Coming
  <1> HIDE DEF In, Own1
  <1>6. (\E j \in Locked!Shards : In(QueueOf(j), e)) <=>
          (\E j \in Locked!Shards : In(QueueOf(j)', e)) \/ (h.type = "event" /\ h.seq = e)
    BY <1>2, <1>3 DEF s
  <1>7. Coming(e) <=> Coming(e)' \/ (h.type = "event" /\ h.seq = e)
    BY <1>4, <1>5, <1>6
  <1> QED
    BY <1>7 DEF h

\* The event at the head of a queue is in no other place.
LEMMA HeadFacts ==
  ASSUME LockedAssumption, LockedType, OrderInv, NEW k \in Locked!Shards, QueueOf(k) # <<>>,
         NEW e, Head(QueueOf(k)).type = "event", Head(QueueOf(k)).seq = e, q' = Locked!Popped(Locked!Own(k)), todo' = todo
  PROVE  /\ e \in Locked!Seqs /\ Head(QueueOf(k)) = [type |-> "event", seq |-> e]
         /\ Locked!InBounds(e) /\ Locked!ShardOf(Locked!Column(e)) = k
         /\ ~Coming(e)' /\ \A j \in Locked!Shards : ~Holds(j, e)
  <1> DEFINE h == Head(QueueOf(k))
             s == QueueOf(k)
             r == Tail(QueueOf(k))
             do == PushTo(k, h)
  <1>1. /\ s \in Seq(Messages) /\ h \in Messages /\ 1 \in DOMAIN s /\ h = s[1]
        /\ \A i \in DOMAIN r : i + 1 \in DOMAIN s /\ r[i] = s[i + 1] /\ 1 < i + 1
    BY QueueType, TailIs
  <1>2. \A j \in Locked!Shards : QueueOf(j)' = IF j = k THEN r ELSE QueueOf(j)
    BY Popping
  <1>3. QueueInOrder(k)
    BY DEF OrderInv
  <1> HIDE DEF h, r
  <1>4. h.type = "event" /\ h.seq = e /\ h = [type |-> "event", seq |-> e]
    BY <1>1 DEF h, Messages
  <1>5. do.op = "push" /\ do.msg = h /\ do.to = Locked!Own(k) /\ Brings(do, "event")
    BY <1>4 DEF PushTo, Brings
  <1>6. /\ Routed(do)
        /\ \A j \in DOMAIN todo : After(do, todo[j])
        /\ \A j \in DOMAIN r : After(do, PushTo(k, r[j]))
    BY <1>1, <1>3 DEF QueueInOrder
  <1>7. e \in Locked!Seqs /\ Locked!InBounds(e) /\ Locked!ShardOf(Locked!Column(e)) = k
    BY <1>4, <1>5, <1>6, QueueNames DEF Routed
  <1>8. e \in Nat /\ Floor(do) = e + 1
    BY <1>4, <1>5, <1>7, OwnerIs DEF Floor, FloorOf
  <1> HIDE DEF do
  <1>9. ASSUME NEW j \in DOMAIN todo, Brings(todo[j], "event"), todo[j].msg.seq = e PROVE FALSE
    BY <1>6, <1>8, <1>9 DEF After
  <1>10. ASSUME NEW j \in Locked!Shards, NEW i \in DOMAIN QueueOf(j)',
                QueueOf(j)'[i].type = "event", QueueOf(j)'[i].seq = e
         PROVE  FALSE
    <2> DEFINE it == QueueOf(j)'[i]
               that == PushTo(j, it)
    <2>1. that.op = "push" /\ that.msg = it /\ that.to = Locked!Own(j) /\ Brings(that, "event") /\ it.seq = e
      BY <1>10 DEF PushTo, Brings
    <2>2. CASE j = k
      <3>1. After(do, that)
        BY <1>2, <1>6, <2>2
      <3> QED
        BY <1>8, <2>1, <3>1 DEF After
    <2>3. CASE j # k
      <3>1. QueueOf(j)' = QueueOf(j) /\ QueueInOrder(j)
        BY <1>2, <2>3 DEF OrderInv
      <3>2. Routed(that)
        BY <3>1 DEF QueueInOrder
      <3>3. Locked!Own(j) = Locked!Own(k)
        BY <1>7, <2>1, <3>2 DEF Routed
      <3> QED
        BY <2>3, <3>3, QueueNames
    <2> QED
      BY <2>2, <2>3
  <1>11. ~Coming(e)'
    BY <1>9, <1>10 DEF Coming
  <1>12. Coming(e)
    BY <1>1, <1>4 DEF Coming
  <1>13. \A j \in Locked!Shards : ~Holds(j, e)
    BY <1>7, <1>12, HeldNotComing
  <1> QED
    BY <1>4, <1>7, <1>11, <1>13 DEF h
-----------------------------------------------------------------------------
(* What a step keeps if it leaves alone what a part of the invariant is about. *)

LEMMA PlaceKept ==
  ASSUME PlaceInv, log'.stage = log.stage, \A e \in Locked!Seqs : Coming(e)' <=> Coming(e),
         \A k \in Locked!Shards : \A e \in Locked!Seqs :
           /\ Holds(k, e)' <=> Holds(k, e)
           /\ Holds(k, e) => Locked!StageOf(thr'[k].layer) = Locked!StageOf(thr[k].layer)
  PROVE  PlaceInv'
  <1>1. \A s, e : Times(s, e)' = Times(s, e)
    BY DEF Times
  <1>2. \A k \in Locked!Shards : Locked!StageOf(thr[k].layer)' = Locked!StageOf(thr'[k].layer)
    BY DEF Locked!StageOf
  <1> SUFFICES ASSUME NEW e \in Locked!Seqs
               PROVE /\ \A s \in Stages :
                          /\ Times(s, e)' \in {0, 1}
                          /\ Times(s, e)' = 1 => Locked!InBounds(e) /\ ~Coming(e)'
                          /\ \A k \in Locked!Shards : Holds(k, e)' =>
                               (Times(s, e)' = 1 <=> s < Locked!StageOf(thr'[k].layer))
                     /\ Locked!InBounds(e) =>
                          Coming(e)' \/ (\E k \in Locked!Shards : Holds(k, e)') \/ Times(0, e)' = 1
    BY <1>2 DEF PlaceInv
  <1> QED
    BY <1>1 DEF PlaceInv

LEMMA LockKept ==
  ASSUME LockInv, log'.cells = log.cells,
         \A k \in Locked!Shards : thr'[k].pc = "update" => thr'[k] = thr[k]
  PROVE  LockInv'
  <1>1. \A k \in Locked!Shards : thr'[k].pc = "update" => CellOf(k)' = CellOf(k)
    BY DEF CellOf
  <1> QED
    BY <1>1 DEF LockInv

LEMMA CellsKept ==
  ASSUME CellsInv, log'.cells = log.cells,
         \A l \in LayersOf : \A c \in Locked!Cells(Locked!StageOf(l)) : \A e \in Locked!Seqs :
            c \in Locked!PatchAt(e, l) => (Reached(e, l, c)' <=> Reached(e, l, c))
  PROVE  CellsInv'
  <1> SUFFICES ASSUME NEW l \in LayersOf, NEW c \in Locked!Cells(Locked!StageOf(l)), NEW e \in Locked!Seqs
               PROVE Locked!Count(log'.cells[l][c], e) =
                       IF c \in Locked!PatchAt(e, l) /\ Reached(e, l, c)' THEN 1 ELSE 0
    BY DEF CellsInv
  <1>1. Locked!Count(log.cells[l][c], e) =
          IF c \in Locked!PatchAt(e, l) /\ Reached(e, l, c) THEN 1 ELSE 0
    BY DEF CellsInv
  <1> QED
    BY <1>1

\* How far an event has got follows from the stages, and from the shards that have events in hand.
LEMMA ReachedKept ==
  ASSUME log'.stage = log.stage,
         \A k \in Locked!Shards : \A e \in Locked!Seqs :
           /\ Holds(k, e)' <=> Holds(k, e)
           /\ Holds(k, e) => /\ thr'[k].layer = thr[k].layer
                             /\ thr'[k].pc = "forwarded" <=> thr[k].pc = "forwarded"
                             /\ thr'[k].left = thr[k].left,
         NEW e \in Locked!Seqs, NEW l, NEW c
  PROVE  Reached(e, l, c)' <=> Reached(e, l, c)
  <1>1. Times(Locked!StageOf(l), e)' = Times(Locked!StageOf(l), e)
    BY DEF Times
  <1> QED
    BY <1>1 DEF Reached

LEMMA CommitKept ==
  ASSUME CommitInv, mark' = mark, drained' = drained, ~log'.overtaken => ~log.overtaken,
         \A e \in Locked!Seqs : Times(0, e) = 1 => Times(0, e)' = 1
  PROVE  CommitInv'
  BY DEF CommitInv

\* A shard commits to a number: the events of the shard below it are done.
LEMMA CommitMoved ==
  ASSUME LockedType, CommitInv, NEW k \in Locked!Shards, NEW m \in Int, mark' = [mark EXCEPT ![k] = m],
         drained' = drained, ~log'.overtaken => ~log.overtaken,
         \A e \in Locked!Seqs : Times(0, e) = 1 => Times(0, e)' = 1,
         ~log'.overtaken => \A e \in Locked!Seqs :
            Locked!InBounds(e) /\ Locked!ShardOf(Locked!Column(e)) = k /\ e < m => Times(0, e)' = 1
  PROVE  CommitInv'
  <1>1. \A j \in Locked!Shards : mark'[j] = IF j = k THEN m ELSE mark[j]
    BY DEF LockedType
  <1> SUFFICES ASSUME ~log'.overtaken
               PROVE  /\ \A j \in Locked!Shards : \A e \in Locked!Seqs :
                           Locked!InBounds(e) /\ Locked!ShardOf(Locked!Column(e)) = j /\ e < mark'[j] =>
                             Times(0, e)' = 1
                      /\ \A e \in Locked!Seqs : Locked!InBounds(e) /\ e < drained' => Times(0, e)' = 1
    BY DEF CommitInv
  <1> QED
    BY <1>1 DEF CommitInv

\* An event of a shard that nobody brings any more and nobody holds is done.
LEMMA DoneIsDone ==
  ASSUME LockedAssumption, LockedType, OrderInv, PlaceInv, NEW k \in Locked!Shards, NEW m \in Int, NEW e \in Locked!Seqs,
         Locked!InBounds(e), Locked!ShardOf(Locked!Column(e)) = k, ~Holds(k, e),
         \A j \in DOMAIN todo : ~(Brings(todo[j], "event") /\ todo[j].msg.seq = e),
         \A i \in DOMAIN QueueOf(k) : ~(QueueOf(k)[i].type = "event" /\ QueueOf(k)[i].seq = e)
  PROVE  Times(0, e) = 1
  <1>1. \A j \in Locked!Shards : j # k => ~Holds(j, e)
    BY HeldNotComing
  <1>2. ASSUME NEW j \in Locked!Shards, NEW i \in DOMAIN QueueOf(j),
               QueueOf(j)[i].type = "event", QueueOf(j)[i].seq = e
        PROVE  j = k
    <2> DEFINE do == PushTo(j, QueueOf(j)[i])
    <2>1. Brings(do, "event") /\ do.msg.seq = e /\ do.to = Locked!Own(j) /\ Routed(do)
      BY <1>2 DEF PushTo, Brings, OrderInv, QueueInOrder
    <2> QED
      BY <2>1, QueueNames DEF Routed
  <1>3. ~Coming(e)
    BY <1>2 DEF Coming
  <1> QED
    BY <1>1, <1>3 DEF PlaceInv

-----------------------------------------------------------------------------
(* The steps of the producer. *)

LEMMA SameHands ==
  ASSUME thr' = thr, log' = log
  PROVE  /\ \A k, e : Holds(k, e)' <=> Holds(k, e)
         /\ \A s, e : Times(s, e)' = Times(s, e)
         /\ \A e, l, c : Reached(e, l, c)' <=> Reached(e, l, c)
  BY DEF Holds, Times, Reached

\* The producer has waited for the marks of all shards.
LEMMA WaitedFor ==
  ASSUME LockedAssumption, LockedType, CommitInv, NEW m \in Nat, Locked!AllCommitted >= m, ~log.overtaken,
         NEW e \in Locked!Seqs, Locked!InBounds(e), e < m
  PROVE  Times(0, e) = 1
  <1> DEFINE marks == {mark[j] : j \in Locked!Shards}
             k == Locked!ShardOf(Locked!Column(e))
             g == [j \in Locked!Shards |-> mark[j]]
  <1>1. e \in Nat /\ k \in Locked!Shards
    BY OwnerIs
  <1>2. IsFiniteSet(Locked!Shards)
    <2>1. N - 1 \in Int /\ Locked!Shards = 0 .. N - 1
      BY DEF LockedAssumption, Locked!Shards
    <2> QED
      BY <2>1, FS_Interval
  <1>3. IsFiniteSet(marks)
    <2>1. g \in Surjection(Locked!Shards, marks)
      BY DEF Surjection
    <2> HIDE DEF g, marks
    <2> QED
      BY <1>2, <2>1, FS_Surjection
  <1>4. mark[k] \in marks /\ marks \subseteq Int
    BY <1>1 DEF LockedType
  <1>5. Locked!Min(marks) \in marks /\ \A x \in marks : Locked!Min(marks) <= x
    <2> HIDE DEF marks
    <2> QED
      BY <1>3, <1>4, LockedMin
  <1>6. Locked!AllCommitted = Locked!Min(marks)
    BY DEF Locked!AllCommitted
  <1> HIDE DEF marks
  <1>7. Locked!Min(marks) \in Int /\ mark[k] \in Int /\ Locked!Min(marks) <= mark[k]
    BY <1>4, <1>5
  <1>8. e < mark[k]
    BY <1>1, <1>6, <1>7
  <1> QED
    BY <1>1, <1>8 DEF CommitInv

LEMMA ProducerStep ==
  ASSUME LockedAssumption, LockedInv, Locked!Producer
  PROVE  LockedInv'
  <1> DEFINE do == Head(todo)
  <1>1. LockedType /\ OrderInv /\ PlaceInv /\ LockInv /\ CellsInv /\ CommitInv
    BY DEF LockedInv
  <1>2. /\ todo # <<>> /\ todo' = Tail(todo) /\ mark' = mark /\ log' = log /\ thr' = thr
        /\ \/ do.op = "push" /\ q' = Locked!Sent(do.to, do.msg) /\ drained' = drained /\ pushed' = pushed
           \/ do.op = "publish" /\ pushed' = do.seq /\ drained' = drained /\ q' = q
           \/ do.op = "wait" /\ Locked!AllCommitted >= do.seq /\ drained' = do.seq /\ q' = q /\ pushed' = pushed
           \/ do.op = "record" /\ q' = q /\ drained' = drained /\ pushed' = pushed
           \/ do.op = "done" /\ q' = q /\ drained' = drained /\ pushed' = pushed
    BY DEF Locked!Producer, Locked!Produce
  <1>3. /\ todo' \in Seq(Instructions)
        /\ do.op = "push" => \E k \in Locked!Shards : do = PushTo(k, do.msg) /\ do.to = Locked!Own(k)
                                                      /\ do.msg \in Messages
        /\ do.op # "push" => do.seq \in Nat
        /\ do.op = "wait" => do.seq \in 0 .. Locked!Total
    BY <1>1, <1>2, NextInstruction
  <1>4. /\ \A k, e : Holds(k, e)' <=> Holds(k, e)
        /\ \A s, e : Times(s, e)' = Times(s, e)
        /\ \A e, l, c : Reached(e, l, c)' <=> Reached(e, l, c)
    BY <1>2, SameHands
  <1>5. LockInv'
    BY <1>1, <1>2, LockKept
  <1>6. CellsInv'
    BY <1>1, <1>2, <1>4, CellsKept
  <1>7. ASSUME \A e \in Locked!Seqs : Coming(e)' <=> Coming(e) PROVE PlaceInv'
    BY <1>1, <1>2, <1>4, <1>7, PlaceKept
  <1>8. ASSUME drained' = drained PROVE CommitInv'
    BY <1>1, <1>2, <1>4, <1>8, CommitKept
  <1>9. CASE do.op = "push"
    <2>1. PICK k \in Locked!Shards : do = PushTo(k, do.msg) /\ do.to = Locked!Own(k) /\ do.msg \in Messages
      BY <1>3, <1>9
    <2>2. q' = Locked!Sent(Locked!Own(k), do.msg) /\ drained' = drained /\ pushed' = pushed
      BY <1>2, <1>9, <2>1
    <2>3. q' \in [{Locked!Own(j) : j \in Locked!Shards} -> Seq(Messages)]
      BY <1>1, <2>1, <2>2 DEF Locked!Sent, LockedType
    <2>4. LockedType'
      BY <1>1, <1>2, <1>3, <2>2, <2>3 DEF LockedType, CellsType, ThreadType, InHand
    <2>5. OrderInv'
      BY <1>1, <1>2, <2>1, <2>2, PushOrder
    <2>6. \A e \in Locked!Seqs : Coming(e)' <=> Coming(e)
      BY <1>1, <1>2, <2>1, <2>2, ComingPush
    <2> QED
      BY <1>5, <1>6, <1>7, <1>8, <2>2, <2>4, <2>5, <2>6 DEF LockedInv
  <1>10. CASE do.op # "push"
    <2>1. q' = q /\ pushed' \in Nat /\ drained' \in 0 .. Locked!Total
      BY <1>1, <1>2, <1>3, <1>10 DEF LockedType
    <2>2. LockedType'
      BY <1>1, <1>2, <1>3, <2>1 DEF LockedType, CellsType, ThreadType, InHand
    <2>3. pushed' = pushed \/ (do.op = "publish" /\ pushed' = do.seq)
      BY <1>2
    <2>4. OrderInv'
      BY <1>1, <1>2, <1>10, <2>1, <2>3, OtherOrder
    <2>5. \A e \in Locked!Seqs : Coming(e)' <=> Coming(e)
      BY <1>1, <1>2, <1>10, <2>1, ComingOther
    <2>6. CommitInv'
      <3>1. CASE drained' = drained
        BY <1>8, <3>1
      <3>2. CASE drained' = do.seq /\ Locked!AllCommitted >= do.seq
        <4> SUFFICES ASSUME ~log.overtaken
                     PROVE  \A e \in Locked!Seqs : Locked!InBounds(e) /\ e < drained' => Times(0, e) = 1
          BY <1>1, <1>2, <1>4 DEF CommitInv
        <4> QED
          BY <1>1, <1>3, <1>10, <3>2, WaitedFor
      <3> QED
        BY <1>2, <1>10, <3>1, <3>2
    <2> QED
      BY <1>5, <1>6, <1>7, <2>2, <2>4, <2>5, <2>6 DEF LockedInv
  <1> QED
    BY <1>9, <1>10

-----------------------------------------------------------------------------
(* The steps of a shard that has no event in hand. *)

\* The type, when one shard moves and no cell or stage changes.
LEMMA ShardType ==
  ASSUME LockedType, NEW k \in Locked!Shards, NEW t \in ThreadType, thr' = [thr EXCEPT ![k] = t],
         todo' = todo, drained' = drained, pushed' = pushed, mark' \in [Locked!Shards -> Int],
         q' \in [{Locked!Own(j) : j \in Locked!Shards} -> Seq(Messages)],
         log'.stage = log.stage, log'.cells = log.cells, log'.overtaken \in BOOLEAN, DOMAIN log' = DOMAIN log
  PROVE  LockedType'
  <1>1. thr' \in [Locked!Shards -> ThreadType]
    BY DEF LockedType
  <1> QED
    BY <1>1 DEF LockedType, CellsType, ThreadType, InHand

LEMMA PopType ==
  ASSUME LockedType, NEW k \in Locked!Shards, QueueOf(k) # <<>>, q' = Locked!Popped(Locked!Own(k))
  PROVE  /\ q' \in [{Locked!Own(j) : j \in Locked!Shards} -> Seq(Messages)]
         /\ Head(QueueOf(k)) \in Messages
  <1>1. Tail(QueueOf(k)) \in Seq(Messages) /\ Head(QueueOf(k)) \in Messages
    BY QueueType, TailIs
  <1> QED
    BY <1>1 DEF LockedType, Locked!Popped, QueueOf

\* A shard that had no event in hand and has none: all that follows from the hands is as it was.
LEMMA IdleHands ==
  ASSUME LockedType, NEW k \in Locked!Shards, NEW t \in ThreadType, thr' = [thr EXCEPT ![k] = t],
         thr[k].pc \in {"pop", "idle", "exit"}, t.pc \in {"pop", "idle", "exit"}, log'.stage = log.stage
  PROVE  /\ \A j \in Locked!Shards : \A e : Holds(j, e)' <=> Holds(j, e)
         /\ \A j \in Locked!Shards \ {k} : thr'[j] = thr[j]
         /\ thr'[k] = t
         /\ \A e : ~Holds(k, e) /\ ~Holds(k, e)'
         /\ \A s, e : Times(s, e)' = Times(s, e)
         /\ \A e, l, c : Reached(e, l, c)' <=> Reached(e, l, c)
         /\ \A j \in Locked!Shards : thr'[j].pc = "update" => thr'[j] = thr[j]
  <1>1. \A j \in Locked!Shards : thr'[j] = IF j = k THEN t ELSE thr[j]
    BY DEF LockedType
  <1>2. \A e : ~Holds(k, e) /\ ~Holds(k, e)'
    BY <1>1 DEF Holds
  <1>3. \A j \in Locked!Shards : \A e : Holds(j, e)' <=> Holds(j, e)
    <2> TAKE j \in Locked!Shards
    <2> TAKE e
    <2>1. CASE j = k
      BY <1>2, <2>1
    <2>2. CASE j # k
      BY <1>1, <2>2 DEF Holds
    <2> QED
      BY <2>1, <2>2
  <1>4. \A s, e : Times(s, e)' = Times(s, e)
    BY DEF Times
  <1>5. ASSUME NEW e, NEW l, NEW c PROVE Reached(e, l, c)' <=> Reached(e, l, c)
    <2>1. \A j \in Locked!Shards : Holds(j, e) => thr'[j] = thr[j]
      BY <1>1, <1>2
    <2>2. Times(Locked!StageOf(l), e)' = Times(Locked!StageOf(l), e)
      BY DEF Times
    <2> QED
      BY <1>3, <2>1, <2>2 DEF Reached
  <1> QED
    BY <1>1, <1>2, <1>3, <1>4, <1>5

\* The parts of the invariant that are about the hands, after such a step.
LEMMA IdleRest ==
  ASSUME LockedInv, NEW k \in Locked!Shards, NEW t \in ThreadType, thr' = [thr EXCEPT ![k] = t],
         thr[k].pc \in {"pop", "idle", "exit"}, t.pc \in {"pop", "idle", "exit"},
         log'.stage = log.stage, log'.cells = log.cells, \A e \in Locked!Seqs : Coming(e)' <=> Coming(e)
  PROVE  PlaceInv' /\ LockInv' /\ CellsInv'
  <1>1. /\ \A j \in Locked!Shards : \A e : Holds(j, e)' <=> Holds(j, e)
        /\ \A j \in Locked!Shards \ {k} : thr'[j] = thr[j]
        /\ \A e : ~Holds(k, e)
        /\ \A e, l, c : Reached(e, l, c)' <=> Reached(e, l, c)
        /\ \A j \in Locked!Shards : thr'[j].pc = "update" => thr'[j] = thr[j]
    BY IdleHands DEF LockedInv
  <1>2. \A j \in Locked!Shards : \A e : Holds(j, e) => thr'[j] = thr[j]
    BY <1>1
  <1>3. PlaceInv'
    BY <1>1, <1>2, PlaceKept DEF LockedInv
  <1>4. LockInv'
    BY <1>1, LockKept DEF LockedInv
  <1>5. CellsInv'
    BY <1>1, CellsKept DEF LockedInv
  <1> QED
    BY <1>3, <1>4, <1>5

\* A shard that has finished a number, and goes back to its queue.
Finished(eof, n) == [Locked!Polling EXCEPT !.eof = eof, !.worked = TRUE, !.last = n]
LEMMA FinishedIs ==
  ASSUME NEW eof \in BOOLEAN, NEW n \in Int
  PROVE  Finished(eof, n) \in ThreadType /\ Finished(eof, n).pc = "pop" /\ Finished(eof, n).eof = eof
  <1> DEFINE p == Locked!Polling
  <1>1. p \in [pc : {"pop", "idle", "exit"}, eof : BOOLEAN, worked : BOOLEAN, last : Int] /\ p.pc = "pop"
    BY DEF Locked!Polling
  <1> HIDE DEF p
  <1> DEFINE t == [p EXCEPT !.eof = eof, !.worked = TRUE, !.last = n]
  <1>2. t \in [pc : {"pop", "idle", "exit"}, eof : BOOLEAN, worked : BOOLEAN, last : Int] /\ t.pc = "pop" /\ t.eof = eof
    BY <1>1
  <1>3. Finished(eof, n) = t
    BY DEF Finished, p
  <1> HIDE DEF t
  <1> QED
    BY <1>2, <1>3 DEF ThreadType

LEMMA EofStep ==
  ASSUME LockedAssumption, LockedInv, NEW k \in Locked!Shards, Locked!TakeEof(k)
  PROVE  LockedInv'
  <1> DEFINE t == [thr[k] EXCEPT !.eof = TRUE, !.worked = TRUE]
  <1>1. LockedType /\ OrderInv /\ CommitInv
    BY DEF LockedInv
  <1>2. /\ thr[k].pc = "pop" /\ QueueOf(k) # <<>> /\ Head(QueueOf(k)).type = "eof"
        /\ q' = Locked!Popped(Locked!Own(k)) /\ thr' = [thr EXCEPT ![k] = t]
        /\ todo' = todo /\ drained' = drained /\ pushed' = pushed /\ mark' = mark /\ log' = log
    BY DEF Locked!TakeEof, Locked!Takes, Locked!Goto, Locked!OfMain, QueueOf
  <1>3. t \in ThreadType /\ t.pc = "pop"
    BY <1>1, <1>2, HandFacts DEF ThreadType
  <1> HIDE DEF t
  <1>4. LockedType'
    BY <1>1, <1>2, <1>3, PopType, ShardType DEF LockedType
  <1>5. /\ \A j \in Locked!Shards \ {k} : thr'[j] = thr[j]
        /\ thr'[k] = t /\ \A e : ~Holds(k, e)'
        /\ \A s, e : Times(s, e)' = Times(s, e)
    BY <1>1, <1>2, <1>3, IdleHands
  <1>6. OrderInv'
    BY <1>1, <1>2, <1>3, <1>5, PopOrder
  <1>7. \A e \in Locked!Seqs : Coming(e)' <=> Coming(e)
    BY <1>1, <1>2, ComingPop
  <1>8. PlaceInv' /\ LockInv' /\ CellsInv'
    BY <1>2, <1>3, <1>7, IdleRest
  <1>9. CommitInv'
    BY <1>1, <1>2, <1>5, CommitKept
  <1> QED
    BY <1>4, <1>6, <1>8, <1>9 DEF LockedInv

LEMMA MarkerStep ==
  ASSUME LockedAssumption, LockedInv, NEW k \in Locked!Shards, Locked!TakeMarker(k)
  PROVE  LockedInv'
  <1> DEFINE h == Head(QueueOf(k))
             t == [Locked!Polling EXCEPT !.eof = thr[k].eof, !.worked = TRUE, !.last = h.seq]
  <1>1. LockedType /\ OrderInv /\ PlaceInv /\ CommitInv
    BY DEF LockedInv
  <1>2. /\ thr[k].pc = "pop" /\ QueueOf(k) # <<>> /\ h.type = "marker"
        /\ q' = Locked!Popped(Locked!Own(k)) /\ thr' = [thr EXCEPT ![k] = t]
        /\ todo' = todo /\ drained' = drained /\ pushed' = pushed
        /\ mark' = [mark EXCEPT ![k] = h.seq] /\ log' = log
    BY DEF Locked!TakeMarker, Locked!Commit, Locked!Takes, Locked!Goto, Locked!OfMain, QueueOf
  <1>3. h \in Messages /\ h.seq \in Nat
    <2>1. h \in Messages
      BY <1>1, <1>2, PopType
    <2> HIDE DEF h
    <2> QED
      BY <2>1 DEF Messages
  <1>4. t \in ThreadType /\ t.pc = "pop" /\ t.eof = thr[k].eof
    <2>1. thr[k].eof \in BOOLEAN
      BY <1>1, HandFacts
    <2>2. t = Finished(thr[k].eof, h.seq)
      BY DEF Finished
    <2> HIDE DEF t, h
    <2> QED
      BY <1>3, <2>1, <2>2, FinishedIs
  <1>5. mark' \in [Locked!Shards -> Int]
    BY <1>1, <1>2, <1>3 DEF LockedType
  <1> HIDE DEF t
  <1>6. LockedType'
    BY <1>1, <1>2, <1>4, <1>5, PopType, ShardType DEF LockedType
  <1>7. /\ \A j \in Locked!Shards \ {k} : thr'[j] = thr[j]
        /\ thr'[k] = t /\ \A e : ~Holds(k, e)' /\ ~Holds(k, e)
        /\ \A s, e : Times(s, e)' = Times(s, e)
    BY <1>1, <1>2, <1>4, IdleHands
  <1>8. ~thr[k].eof
    BY <1>1, <1>2 DEF OrderInv, NothingAfterEof
  <1>9. OrderInv'
    BY <1>1, <1>2, <1>4, <1>7, <1>8, PopOrder
  <1>10. \A e \in Locked!Seqs : Coming(e)' <=> Coming(e)
    BY <1>1, <1>2, ComingPop
  <1>11. PlaceInv' /\ LockInv' /\ CellsInv'
    BY <1>2, <1>4, <1>10, IdleRest
  <1>12. ASSUME NEW e \in Locked!Seqs, Locked!InBounds(e), Locked!ShardOf(Locked!Column(e)) = k, e < h.seq
         PROVE  Times(0, e) = 1
    <2> DEFINE do == PushTo(k, h)
    <2>1. do.op = "push" /\ Floor(do) = h.seq
      BY <1>2 DEF PushTo, Floor, FloorOf
    <2>2. /\ \A j \in DOMAIN todo : After(do, todo[j])
          /\ \A i \in DOMAIN QueueOf(k) : i = 1 \/ After(do, PushTo(k, QueueOf(k)[i]))
      <3>1. QueueOf(k) \in Seq(Messages) /\ h = QueueOf(k)[1] /\ 1 \in DOMAIN QueueOf(k)
        BY <1>1, <1>2, QueueType, TailIs
      <3>2. \A i \in DOMAIN QueueOf(k) : i = 1 \/ 1 < i
        BY <3>1
      <3> QED
        BY <1>1, <3>1, <3>2 DEF OrderInv, QueueInOrder
    <2>3. e \in Nat
      BY OwnerIs
    <2> HIDE DEF do
    <2>4. \A j \in DOMAIN todo : ~(Brings(todo[j], "event") /\ todo[j].msg.seq = e)
      BY <1>3, <1>12, <2>1, <2>2, <2>3 DEF After
    <2>5. ASSUME NEW i \in DOMAIN QueueOf(k), QueueOf(k)[i].type = "event", QueueOf(k)[i].seq = e PROVE FALSE
      <3>1. i # 1
        BY <1>1, <1>2, <2>5, QueueType, TailIs
      <3>2. After(do, PushTo(k, QueueOf(k)[i]))
        BY <2>2, <3>1
      <3>3. Brings(PushTo(k, QueueOf(k)[i]), "event") /\ PushTo(k, QueueOf(k)[i]).msg.seq = e
        BY <2>5 DEF PushTo, Brings
      <3> QED
        BY <1>3, <1>12, <2>1, <2>3, <3>2, <3>3 DEF After
    <2> QED
      BY <1>1, <1>3, <1>7, <1>12, <2>4, <2>5, DoneIsDone
  <1>13. CommitInv'
    <2> DEFINE m == h.seq
    <2>1. m \in Int /\ mark' = [mark EXCEPT ![k] = m]
      BY <1>2, <1>3
    <2>2. \A e \in Locked!Seqs : Locked!InBounds(e) /\ Locked!ShardOf(Locked!Column(e)) = k /\ e < m => Times(0, e)' = 1
      BY <1>7, <1>12
    <2> HIDE DEF m
    <2> QED
      BY <1>1, <1>2, <1>7, <2>1, <2>2, CommitMoved
  <1> QED
    BY <1>6, <1>9, <1>11, <1>13 DEF LockedInv

LEMMA EmptyStep ==
  ASSUME LockedAssumption, LockedInv, NEW k \in Locked!Shards, Locked!QueueEmpty(k)
  PROVE  LockedInv'
  <1> DEFINE t == IF thr[k].worked THEN [thr[k] EXCEPT !.worked = FALSE] ELSE [thr[k] EXCEPT !.pc = "idle"]
  <1>1. LockedType /\ OrderInv /\ CommitInv
    BY DEF LockedInv
  <1>2. /\ thr[k].pc = "pop" /\ thr' = [thr EXCEPT ![k] = t] /\ q' = q
        /\ todo' = todo /\ drained' = drained /\ pushed' = pushed /\ mark' = mark /\ log' = log
    BY DEF Locked!QueueEmpty, Locked!Goto, Locked!OfMain
  <1>3. t \in ThreadType /\ t.pc \in {"pop", "idle"} /\ t.eof = thr[k].eof
    <2>1. thr[k] \in [pc : {"pop", "idle", "exit"}, eof : BOOLEAN, worked : BOOLEAN, last : Int]
      BY <1>1, <1>2, HandFacts
    <2>2. CASE thr[k].worked
      BY <1>2, <2>1, <2>2 DEF ThreadType
    <2>3. CASE ~thr[k].worked
      BY <1>2, <2>1, <2>3 DEF ThreadType
    <2> QED
      BY <2>2, <2>3
  <1> HIDE DEF t
  <1>4. LockedType'
    BY <1>1, <1>2, <1>3, ShardType DEF LockedType
  <1>5. /\ \A j \in Locked!Shards \ {k} : thr'[j] = thr[j]
        /\ thr'[k] = t /\ \A j \in Locked!Shards : \A e : Holds(j, e)' <=> Holds(j, e)
        /\ \A s, e : Times(s, e)' = Times(s, e)
    BY <1>1, <1>2, <1>3, IdleHands
  <1>6. \A j \in Locked!Shards : thr[j].pc = "exit" => thr[j].eof
    BY <1>1 DEF OrderInv, NothingAfterEof
  <1>7. OrderInv'
    BY <1>1, <1>2, <1>3, <1>5, <1>6, QuietOrder
  <1>8. \A e \in Locked!Seqs : Coming(e)' <=> Coming(e)
    BY <1>2 DEF Coming, QueueOf
  <1>9. PlaceInv' /\ LockInv' /\ CellsInv'
    BY <1>2, <1>3, <1>8, IdleRest
  <1>10. CommitInv'
    BY <1>1, <1>2, <1>5, CommitKept
  <1> QED
    BY <1>4, <1>7, <1>9, <1>10 DEF LockedInv

\* The shard moves its mark up to what has been pushed: if it overtakes nothing, all that is done.
LEMMA CatchUpStep ==
  ASSUME LockedAssumption, LockedInv, NEW k \in Locked!Shards, Locked!CatchUp(k)
  PROVE  LockedInv'
  <1> DEFINE t == [thr[k] EXCEPT !.pc = "pop", !.last = pushed - 1]
             m == pushed - 1
  <1>1. LockedType /\ OrderInv /\ PlaceInv /\ CommitInv
    BY DEF LockedInv
  <1>2. /\ thr[k].pc = "idle" /\ thr' = [thr EXCEPT ![k] = t] /\ q' = q
        /\ todo' = todo /\ drained' = drained /\ pushed' = pushed
        /\ mark' = [mark EXCEPT ![k] = m]
        /\ log' = [log EXCEPT !.overtaken = log.overtaken \/ Locked!Overtakes(k)]
    BY DEF Locked!CatchUp, Locked!Goto, Locked!OfMain
  <1>3. m \in Int /\ pushed \in Nat
    BY <1>1 DEF LockedType
  <1>4. t \in ThreadType /\ t.pc = "pop" /\ t.eof = thr[k].eof
    <2>1. thr[k] \in [pc : {"pop", "idle", "exit"}, eof : BOOLEAN, worked : BOOLEAN, last : Int]
      BY <1>1, <1>2, HandFacts
    <2> QED
      BY <1>3, <2>1 DEF ThreadType
  <1>5. log'.stage = log.stage /\ log'.cells = log.cells /\ DOMAIN log' = DOMAIN log
    BY <1>1, <1>2 DEF LockedType
  <1>6. log'.overtaken \in BOOLEAN /\ (~log'.overtaken => ~log.overtaken /\ ~Locked!Overtakes(k))
    BY <1>1, <1>2 DEF LockedType, Locked!Overtakes
  <1>7. mark' \in [Locked!Shards -> Int]
    BY <1>1, <1>2, <1>3 DEF LockedType
  <1> HIDE DEF t
  <1>8. LockedType'
    BY <1>1, <1>2, <1>4, <1>5, <1>6, <1>7, ShardType DEF LockedType
  <1>9. /\ \A j \in Locked!Shards \ {k} : thr'[j] = thr[j]
        /\ thr'[k] = t /\ \A j \in Locked!Shards : \A e : Holds(j, e)' <=> Holds(j, e)
        /\ \A e : ~Holds(k, e)
        /\ \A s, e : Times(s, e)' = Times(s, e)
    BY <1>1, <1>2, <1>4, <1>5, IdleHands
  <1>10. \A j \in Locked!Shards : thr[j].pc = "exit" => thr[j].eof
    BY <1>1 DEF OrderInv, NothingAfterEof
  <1>11. OrderInv'
    BY <1>1, <1>2, <1>4, <1>9, <1>10, QuietOrder
  <1>12. \A e \in Locked!Seqs : Coming(e)' <=> Coming(e)
    BY <1>2 DEF Coming, QueueOf
  <1>13. PlaceInv' /\ LockInv' /\ CellsInv'
    BY <1>2, <1>4, <1>5, <1>12, IdleRest
  <1>14. ASSUME ~Locked!Overtakes(k), NEW e \in Locked!Seqs, Locked!InBounds(e),
                Locked!ShardOf(Locked!Column(e)) = k, e < m
         PROVE  Times(0, e) = 1
    <2>1. e \in Nat
      BY OwnerIs
    <2>2. \A j \in DOMAIN todo : ~(Brings(todo[j], "event") /\ todo[j].msg.seq = e)
      BY <1>1, <1>3, <1>14, <2>1 DEF OrderInv, ToComeInOrder
    <2>3. \A i \in DOMAIN QueueOf(k) : ~(QueueOf(k)[i].type = "event" /\ QueueOf(k)[i].seq = e)
      BY <1>3, <1>14, <2>1 DEF Locked!Overtakes, QueueOf
    <2> HIDE DEF m
    <2> QED
      BY <1>1, <1>3, <1>9, <1>14, <2>2, <2>3, DoneIsDone
  <1>15. CommitInv'
    <2> HIDE DEF m
    <2>1. ~log'.overtaken => \A e \in Locked!Seqs :
            Locked!InBounds(e) /\ Locked!ShardOf(Locked!Column(e)) = k /\ e < m => Times(0, e)' = 1
      BY <1>6, <1>9, <1>14
    <2> QED
      BY <1>1, <1>2, <1>3, <1>6, <1>9, <2>1, CommitMoved
  <1> QED
    BY <1>8, <1>11, <1>13, <1>15 DEF LockedInv

LEMMA LeaveStep ==
  ASSUME LockedAssumption, LockedInv, NEW k \in Locked!Shards, Locked!LeaveOrSpin(k)
  PROVE  LockedInv'
  <1> DEFINE t == [thr[k] EXCEPT !.pc = IF thr[k].eof THEN "exit" ELSE "pop"]
             m == Locked!MaxSeq
  <1>1. LockedType /\ OrderInv /\ PlaceInv /\ CommitInv
    BY DEF LockedInv
  <1>2. /\ thr[k].pc = "idle" /\ thr' = [thr EXCEPT ![k] = t] /\ q' = q
        /\ todo' = todo /\ drained' = drained /\ pushed' = pushed /\ log' = log
        /\ mark' = IF thr[k].eof THEN [mark EXCEPT ![k] = m] ELSE mark
    BY DEF Locked!LeaveOrSpin, Locked!Goto, Locked!OfMain
  <1>3. m \in Int
    BY DEF Locked!MaxSeq, Locked!Total, LockedAssumption
  <1>4. t \in ThreadType /\ t.pc \in {"pop", "exit"} /\ t.eof = thr[k].eof /\ (t.pc = "exit" => thr[k].eof)
    <2>1. thr[k] \in [pc : {"pop", "idle", "exit"}, eof : BOOLEAN, worked : BOOLEAN, last : Int]
      BY <1>1, <1>2, HandFacts
    <2>2. CASE thr[k].eof
      BY <1>2, <2>1, <2>2 DEF ThreadType
    <2>3. CASE ~thr[k].eof
      BY <1>2, <2>1, <2>3 DEF ThreadType
    <2> QED
      BY <2>2, <2>3
  <1> HIDE DEF t, m
  <1>5. mark' \in [Locked!Shards -> Int]
    BY <1>1, <1>2, <1>3 DEF LockedType
  <1>6. LockedType'
    BY <1>1, <1>2, <1>4, <1>5, ShardType DEF LockedType
  <1>7. /\ \A j \in Locked!Shards \ {k} : thr'[j] = thr[j]
        /\ thr'[k] = t /\ \A j \in Locked!Shards : \A e : Holds(j, e)' <=> Holds(j, e)
        /\ \A e : ~Holds(k, e)
        /\ \A s, e : Times(s, e)' = Times(s, e)
    BY <1>1, <1>2, <1>4, IdleHands
  <1>8. \A j \in Locked!Shards : thr[j].pc = "exit" => thr[j].eof
    BY <1>1 DEF OrderInv, NothingAfterEof
  <1>9. OrderInv'
    BY <1>1, <1>2, <1>4, <1>7, <1>8, QuietOrder
  <1>10. \A e \in Locked!Seqs : Coming(e)' <=> Coming(e)
    BY <1>2 DEF Coming, QueueOf
  <1>11. PlaceInv' /\ LockInv' /\ CellsInv'
    BY <1>2, <1>4, <1>10, IdleRest
  <1>12. ASSUME thr[k].eof, NEW e \in Locked!Seqs, Locked!InBounds(e), Locked!ShardOf(Locked!Column(e)) = k
         PROVE  Times(0, e) = 1
    <2>1. QueueOf(k) = <<>> /\ \A j \in DOMAIN todo : todo[j].op = "push" => todo[j].to # Locked!Own(k)
      BY <1>1, <1>12 DEF OrderInv, NothingAfterEof
    <2>2. ASSUME NEW j \in DOMAIN todo, Brings(todo[j], "event"), todo[j].msg.seq = e PROVE FALSE
      <3>1. todo[j].to = Locked!Own(k)
        BY <1>1, <1>12, <2>2 DEF OrderInv, ToComeInOrder, Routed
      <3> QED
        BY <2>1, <2>2, <3>1 DEF Brings
    <2>3. \A i \in DOMAIN QueueOf(k) : FALSE
      BY <2>1
    <2> QED
      BY <1>1, <1>3, <1>7, <1>12, <2>2, <2>3, DoneIsDone
  <1>13. CommitInv'
    <2>1. CASE thr[k].eof
      BY <1>1, <1>2, <1>3, <1>7, <1>12, <2>1, CommitMoved
    <2>2. CASE ~thr[k].eof
      BY <1>1, <1>2, <1>7, <2>2, CommitKept
    <2> QED
      BY <2>1, <2>2
  <1> QED
    BY <1>6, <1>9, <1>11, <1>13 DEF LockedInv

-----------------------------------------------------------------------------
(* The steps of a shard with an event. *)

LEMMA TakeStep ==
  ASSUME LockedAssumption, LockedInv, NEW k \in Locked!Shards, Locked!TakeEvent(k)
  PROVE  LockedInv'
  <1>1. LockedType /\ OrderInv /\ PlaceInv /\ LockInv /\ CellsInv /\ CommitInv
    BY DEF LockedInv
  <1>2. /\ thr[k].pc = "pop" /\ QueueOf(k) # <<>> /\ Head(QueueOf(k)).type = "event"
        /\ q' = Locked!Popped(Locked!Own(k)) /\ todo' = todo /\ drained' = drained /\ pushed' = pushed
        /\ mark' = mark /\ log' = log
        /\ thr' = [thr EXCEPT ![k] = Locked!EnterLayer(k, Head(QueueOf(k)).seq, 0)]
    BY DEF Locked!TakeEvent, Locked!Takes, Locked!Goto, Locked!OfMain, QueueOf
  <1>3. PICK e : e = Head(QueueOf(k)).seq
    OBVIOUS
  <1> DEFINE t == Locked!EnterLayer(k, e, 0)
  <1>4. /\ e \in Locked!Seqs /\ Head(QueueOf(k)) = [type |-> "event", seq |-> e] /\ Locked!InBounds(e)
        /\ ~Coming(e)' /\ \A j \in Locked!Shards : ~Holds(j, e)
    BY <1>1, <1>2, <1>3, HeadFacts
  <1>5. \A d \in Locked!Seqs : Coming(d) <=> Coming(d)' \/ d = e
    <2>1. \A d : Coming(d) <=> Coming(d)' \/ (Head(QueueOf(k)).type = "event" /\ Head(QueueOf(k)).seq = d)
      BY <1>1, <1>2, ComingPop
    <2> QED
      BY <1>2, <1>3, <2>1
  <1>6. 0 \in LayersOf /\ Locked!StageOf(0) = 0 /\ 0 \in Stages /\ 0 % 2 = 0
    BY DEF LayersOf, Stages, Locked!StageOf, LockedAssumption
  <1>7. /\ t.pc = "lock" /\ t.eof = thr[k].eof /\ t.e = e /\ t.layer = 0
        /\ t.left = Locked!PatchAt(e, 0)
    BY <1>6 DEF Locked!EnterLayer
  <1>8. t \in ThreadType
    <2>1. Locked!PatchAt(e, 0) # {} /\ Locked!PatchAt(e, 0) \in SUBSET Int
      BY <1>4, <1>6, PatchFacts
    <2>2. InHand(t)
      BY <1>4, <1>6, <1>7, <2>1 DEF InHand
    <2>3. thr[k].eof \in BOOLEAN /\ thr[k].last \in Int
      BY <1>1, HandFacts
    <2>4. t \in [pc : {"lock"}, eof : BOOLEAN, last : Int, e : Locked!Seqs, layer : LayersOf, left : SUBSET Int]
      BY <1>4, <1>6, <2>1, <2>3 DEF Locked!EnterLayer
    <2> HIDE DEF t
    <2> QED
      BY <2>2, <2>4 DEF ThreadType
  <1>9. thr' = [thr EXCEPT ![k] = t]
    BY <1>2, <1>3
  <1> HIDE DEF t
  <1>10. \A j \in Locked!Shards : thr'[j] = IF j = k THEN t ELSE thr[j]
    BY <1>1, <1>9 DEF LockedType
  <1>11. LockedType'
    BY <1>1, <1>2, <1>8, <1>9, PopType, ShardType DEF LockedType
  <1>12. /\ \A j \in Locked!Shards \ {k} : \A d : Holds(j, d)' <=> Holds(j, d)
         /\ \A d : ~Holds(k, d) /\ (Holds(k, d)' <=> d = e)
    BY <1>2, <1>7, <1>10 DEF Holds
  <1>13. \A s, d : Times(s, d)' = Times(s, d)
    BY <1>2 DEF Times
  <1>14. ~thr[k].eof
    BY <1>1, <1>2 DEF OrderInv, NothingAfterEof
  <1>15. OrderInv'
    BY <1>1, <1>2, <1>4, <1>7, <1>10, <1>12, <1>14, PopOrder
  <1>16. \A s \in Stages : Times(s, e) = 0
    BY <1>1, <1>4, <1>5 DEF PlaceInv
  <1>17. \A j \in Locked!Shards : Locked!StageOf(thr[j].layer)' = Locked!StageOf(thr'[j].layer)
    BY DEF Locked!StageOf
  <1>18. PlaceInv'
    <2> SUFFICES ASSUME NEW d \in Locked!Seqs
                 PROVE /\ \A s \in Stages :
                            /\ Times(s, d) \in {0, 1}
                            /\ Times(s, d) = 1 => Locked!InBounds(d) /\ ~Coming(d)'
                            /\ \A j \in Locked!Shards : Holds(j, d)' =>
                                 (Times(s, d) = 1 <=> s < Locked!StageOf(thr'[j].layer))
                       /\ Locked!InBounds(d) =>
                            Coming(d)' \/ (\E j \in Locked!Shards : Holds(j, d)') \/ Times(0, d) = 1
      BY <1>13, <1>17 DEF PlaceInv
    <2>1. /\ \A s \in Stages :
               /\ Times(s, d) \in {0, 1}
               /\ Times(s, d) = 1 => Locked!InBounds(d) /\ ~Coming(d)
               /\ \A j \in Locked!Shards : Holds(j, d) => (Times(s, d) = 1 <=> s < Locked!StageOf(thr[j].layer))
          /\ Locked!InBounds(d) => Coming(d) \/ (\E j \in Locked!Shards : Holds(j, d)) \/ Times(0, d) = 1
      BY <1>1 DEF PlaceInv
    <2>2. CASE d = e
      <3>1. \A j \in Locked!Shards : Holds(j, d)' <=> j = k
        BY <1>4, <1>12, <2>2
      <3>2. thr'[k].layer = 0
        BY <1>7, <1>10
      <3>3. \A s \in Stages : Times(s, d) = 0 /\ ~(s < 0)
        BY <1>16, <2>2 DEF Stages
      <3> QED
        BY <1>6, <3>1, <3>2, <3>3
    <2>3. CASE d # e
      <3>1. \A j \in Locked!Shards : (Holds(j, d)' <=> Holds(j, d)) /\ (Holds(j, d) => thr'[j] = thr[j])
        BY <1>10, <1>12, <2>3
      <3>2. Coming(d)' <=> Coming(d)
        BY <1>5, <2>3
      <3> QED
        BY <2>1, <3>1, <3>2
    <2> QED
      BY <2>2, <2>3
  <1>19. LockInv'
    <2>1. \A j \in Locked!Shards : thr'[j].pc = "update" => thr'[j] = thr[j]
      BY <1>7, <1>10
    <2> QED
      BY <1>1, <1>2, <2>1, LockKept
  <1>20. CellsInv'
    <2>1. ASSUME NEW l \in LayersOf, NEW c \in Locked!Cells(Locked!StageOf(l)), NEW d \in Locked!Seqs,
                 c \in Locked!PatchAt(d, l)
          PROVE  Reached(d, l, c)' <=> Reached(d, l, c)
      <3>1. Times(Locked!StageOf(l), d)' = Times(Locked!StageOf(l), d)
        BY <1>13 DEF Locked!StageOf
      <3>2. CASE d = e
        <4>1. \A j \in Locked!Shards : Holds(j, d)' <=> j = k
          BY <1>4, <1>12, <3>2
        <4>2. ~(t.layer > l) /\ (t.layer = l => c \in t.left) /\ t.pc # "forwarded"
          BY <1>6, <1>7, <2>1, <3>2, LayerFacts
        <4>3. thr'[k] = t
          BY <1>10
        <4>4. ~(\E j \in Locked!Shards : /\ Holds(j, d)'
                              /\ \/ thr'[j].layer > l
                                 \/ thr'[j].layer = l /\ (thr'[j].pc = "forwarded" \/ c \notin thr'[j].left))
          BY <4>1, <4>2, <4>3
        <4> QED
          BY <1>4, <3>1, <3>2, <4>4 DEF Reached
      <3>3. CASE d # e
        <4>1. \A j \in Locked!Shards : (Holds(j, d)' <=> Holds(j, d)) /\ (Holds(j, d) => thr'[j] = thr[j])
          BY <1>10, <1>12, <3>3
        <4> QED
          BY <3>1, <4>1 DEF Reached
      <3> QED
        BY <3>2, <3>3
    <2> QED
      BY <1>1, <1>2, <2>1, CellsKept
  <1>21. CommitInv'
    BY <1>1, <1>2, <1>13, CommitKept
  <1> QED
    BY <1>11, <1>15, <1>18, <1>19, <1>20, <1>21 DEF LockedInv

LEMMA LockStep ==
  ASSUME LockedAssumption, LockedInv, NEW k \in Locked!Shards, Locked!LockPatch(k)
  PROVE  LockedInv'
  <1> DEFINE l == thr[k].layer
             c == CellOf(k)
             t == [pc |-> "update", eof |-> thr[k].eof, last |-> thr[k].last, e |-> thr[k].e,
                   layer |-> thr[k].layer, left |-> thr[k].left, loaded |-> log.cells[l][c]]
  <1>1. LockedType /\ OrderInv /\ PlaceInv /\ LockInv /\ CellsInv /\ CommitInv
    BY DEF LockedInv
  <1>2. /\ thr[k].pc = "lock" /\ thr' = [thr EXCEPT ![k] = t] /\ q' = q
        /\ todo' = todo /\ drained' = drained /\ pushed' = pushed /\ mark' = mark /\ log' = log
        /\ Locked!Free(k, l, c)
    BY DEF Locked!LockPatch, Locked!Goto, Locked!OfMain, CellOf
  <1>3. /\ thr[k].eof \in BOOLEAN /\ thr[k].last \in Int /\ thr[k].e \in Locked!Seqs /\ l \in LayersOf
        /\ thr[k].left # {} /\ thr[k].left \subseteq Locked!PatchAt(thr[k].e, l)
    BY <1>1, <1>2, HandFacts
  <1>4. thr[k].left \in SUBSET Int
    BY <1>3, PatchFacts, LayerFacts
  <1>5. log.cells[l][c] \in Seq(Locked!Seqs)
    <2>1. c \in Locked!Cells(Locked!StageOf(l))
      BY <1>1, <1>2, CellFacts
    <2>2. log.cells[l] \in CellsType(l)
      BY <1>1, <1>3 DEF LockedType
    <2> QED
      BY <2>1, <2>2 DEF CellsType
  <1>6. /\ t.pc = "update" /\ t.eof = thr[k].eof /\ t.e = thr[k].e /\ t.layer = l /\ t.left = thr[k].left
        /\ t.loaded = log.cells[l][c]
    OBVIOUS
  <1>7. t \in ThreadType
    <2>1. InHand(t)
      BY <1>3, <1>6 DEF InHand
    <2>2. t \in [pc : {"update"}, eof : BOOLEAN, last : Int, e : Locked!Seqs, layer : LayersOf, left : SUBSET Int,
                 loaded : Seq(Locked!Seqs)]
      BY <1>3, <1>4, <1>5
    <2> HIDE DEF t
    <2> QED
      BY <2>1, <2>2 DEF ThreadType
  <1> HIDE DEF t, c
  <1>8. \A j \in Locked!Shards : thr'[j] = IF j = k THEN t ELSE thr[j]
    BY <1>1, <1>2 DEF LockedType
  <1>9. LockedType'
    BY <1>1, <1>2, <1>7, ShardType DEF LockedType
  <1>10. \A j \in Locked!Shards : \A e : Holds(j, e)' <=> Holds(j, e)
    <2> TAKE j \in Locked!Shards
    <2> TAKE e
    <2>1. CASE j = k
      BY <1>2, <1>6, <1>8, <2>1 DEF Holds
    <2>2. CASE j # k
      BY <1>8, <2>2 DEF Holds
    <2> QED
      BY <2>1, <2>2
  <1>11. \A j \in Locked!Shards : /\ thr'[j].eof = thr[j].eof
                                  /\ thr'[j].pc = "exit" => thr[j].eof
    <2>1. \A j \in Locked!Shards : thr[j].pc = "exit" => thr[j].eof
      BY <1>1 DEF OrderInv, NothingAfterEof
    <2> QED
      BY <1>6, <1>8, <2>1
  <1>12. OrderInv'
    BY <1>1, <1>2, <1>10, <1>11, QuietOrder
  <1>14. \A j \in Locked!Shards : \A e : Holds(j, e) =>
            /\ thr'[j].layer = thr[j].layer
            /\ thr'[j].pc = "forwarded" <=> thr[j].pc = "forwarded"
            /\ thr'[j].left = thr[j].left
    BY <1>2, <1>6, <1>8
  <1>15. \A e \in Locked!Seqs : Coming(e)' <=> Coming(e)
    BY <1>2 DEF Coming, QueueOf
  <1>16. PlaceInv'
    BY <1>1, <1>2, <1>10, <1>14, <1>15, PlaceKept
  <1>17. CellsInv'
    <2>1. \A e \in Locked!Seqs : \A m, b : Reached(e, m, b)' <=> Reached(e, m, b)
      BY <1>2, <1>10, <1>14, ReachedKept
    <2> QED
      BY <1>1, <1>2, <2>1, CellsKept
  <1>18. LockInv'
    <2> SUFFICES ASSUME NEW j \in Locked!Shards, thr'[j].pc = "update"
                 PROVE  /\ thr'[j].loaded = log.cells[thr'[j].layer][CellOf(j)']
                        /\ \A i \in Locked!Shards \ {j} :
                             thr'[i].pc = "update" /\ thr'[i].layer = thr'[j].layer => CellOf(i)' # CellOf(j)'
      BY <1>2 DEF LockInv
    <2>1. \A i \in Locked!Shards : CellOf(i)' = CellOf(i)
      BY <1>6, <1>8 DEF CellOf
    <2>2. \A i \in Locked!Shards \ {k} : thr[i].pc = "update" /\ thr[i].layer = l => CellOf(i) # c
      BY <1>2 DEF Locked!Free, CellOf
    <2>3. CASE j = k
      BY <1>6, <1>8, <2>1, <2>2, <2>3 DEF c
    <2>4. CASE j # k
      <3>1. thr'[j] = thr[j] /\ thr[j].pc = "update"
        BY <1>8, <2>4
      <3>2. /\ thr[j].loaded = log.cells[thr[j].layer][CellOf(j)]
            /\ \A i \in Locked!Shards \ {j} :
                 thr[i].pc = "update" /\ thr[i].layer = thr[j].layer => CellOf(i) # CellOf(j)
        BY <1>1, <3>1 DEF LockInv
      <3>3. ASSUME NEW i \in Locked!Shards \ {j}, thr'[i].pc = "update", thr'[i].layer = thr'[j].layer
            PROVE  CellOf(i) # CellOf(j)
        <4>1. CASE i = k
          BY <1>6, <1>8, <2>2, <2>4, <3>1, <3>3, <4>1 DEF c
        <4>2. CASE i # k
          BY <1>8, <3>1, <3>2, <3>3, <4>2
        <4> QED
          BY <4>1, <4>2
      <3> QED
        BY <2>1, <3>1, <3>2, <3>3
    <2> QED
      BY <2>3, <2>4
  <1>19. CommitInv'
    <2>1. \A s, e : Times(s, e)' = Times(s, e)
      BY <1>2 DEF Times
    <2> QED
      BY <1>1, <1>2, <2>1, CommitKept
  <1> QED
    BY <1>9, <1>12, <1>16, <1>17, <1>18, <1>19 DEF LockedInv

\* The only shard that has an event in hand, and how far the event has got.
LEMMA ReachedInHand ==
  ASSUME LockedAssumption, LockedType, OrderInv, NEW k \in Locked!Shards, NEW e \in Locked!Seqs, Holds(k, e), NEW l, NEW c
  PROVE  Reached(e, l, c) <=> \/ Times(Locked!StageOf(l), e) = 1
                              \/ thr[k].layer > l
                              \/ thr[k].layer = l /\ (thr[k].pc = "forwarded" \/ c \notin thr[k].left)
  <1>1. \A j \in Locked!Shards : Holds(j, e) <=> j = k
    BY HeldNotComing
  <1> QED
    BY <1>1 DEF Reached

\* The store of a cell, and the layer or the cell that the shard goes on to.
LEMMA StoreFacts ==
  ASSUME LockedAssumption, LockedInv, NEW k \in Locked!Shards, Locked!UpdatePatch(k),
         NEW e, e = thr[k].e, NEW l, l = thr[k].layer, NEW c, c = CellOf(k)
  PROVE  /\ e \in Locked!Seqs /\ l \in LayersOf /\ c \in thr[k].left
         /\ c \in Locked!PatchAt(e, l) /\ c \in Locked!Cells(Locked!StageOf(l))
         /\ thr[k].pc = "update" /\ Holds(k, e)
         /\ todo' = todo /\ drained' = drained /\ pushed' = pushed /\ mark' = mark /\ q' = q
         /\ DOMAIN log' = DOMAIN log /\ log'.stage = log.stage /\ log'.overtaken = log.overtaken
         /\ DOMAIN log'.cells = LayersOf
         /\ \A m \in LayersOf : /\ log'.cells[m] \in CellsType(m)
                                /\ \A b \in Locked!Cells(Locked!StageOf(m)) :
                                     log'.cells[m][b] = IF m = l /\ b = c THEN Append(log.cells[l][c], e)
                                                        ELSE log.cells[m][b]
         /\ \E t \in ThreadType :
              /\ thr' = [thr EXCEPT ![k] = t]
              /\ t.eof = thr[k].eof /\ t.e = e
              /\ \/ t.pc = "lock" /\ t.layer = l /\ t.left = thr[k].left \ {c}
                 \/ t.pc = "lock" /\ t.layer = l + 1 /\ l % 2 = 0 /\ thr[k].left = {c}
                    /\ t.left = Locked!PatchAt(e, l + 1)
                 \/ t.pc = "forwarded" /\ t.layer = l /\ thr[k].left = {c}
  <1> DEFINE left == thr[k].left \ {c}
             s == Locked!StageOf(l)
             u == IF left # {} THEN [pc |-> "lock", eof |-> thr[k].eof, last |-> thr[k].last,
                                     e |-> e, layer |-> l, left |-> left]
                  ELSE IF l % 2 = 0 THEN Locked!EnterLayer(k, e, l + 1)
                  ELSE [pc |-> "forwarded", eof |-> thr[k].eof, last |-> thr[k].last, e |-> e, layer |-> l]
  <1>1. LockedType /\ OrderInv /\ PlaceInv /\ LockInv
    BY DEF LockedInv
  <1>2. /\ thr[k].pc = "update" /\ thr' = [thr EXCEPT ![k] = u] /\ q' = q
        /\ todo' = todo /\ drained' = drained /\ pushed' = pushed /\ mark' = mark
        /\ log' = [log EXCEPT !.cells[l][c] = Append(thr[k].loaded, e)]
    BY DEF Locked!UpdatePatch, Locked!Goto, Locked!OfMain, CellOf
  <1>3. /\ thr[k].eof \in BOOLEAN /\ thr[k].last \in Int /\ e \in Locked!Seqs /\ l \in LayersOf
        /\ thr[k].left # {} /\ thr[k].left \subseteq Locked!PatchAt(e, l)
    BY <1>1, <1>2, HandFacts
  <1>4. c \in thr[k].left /\ c \in Locked!PatchAt(e, l) /\ c \in Locked!Cells(s)
    BY <1>1, <1>2, CellFacts
  <1>5. /\ s \in Stages /\ l \in Nat
        /\ l % 2 = 0 => l + 1 \in LayersOf /\ Locked!StageOf(l + 1) = s
        /\ l % 2 \in {0, 1}
    BY <1>3, LayerFacts
  <1>6. /\ Locked!PatchAt(e, l) \in SUBSET Int
        /\ l % 2 = 0 => Locked!PatchAt(e, l + 1) \in SUBSET Int /\ Locked!PatchAt(e, l + 1) # {}
    <2>1. Locked!InBounds(e)
      BY <1>1, <1>2, <1>3, HeldNotComing DEF Holds
    <2> QED
      BY <1>3, <1>5, <2>1, PatchFacts
  <1>7. thr[k].loaded = log.cells[l][c]
    BY <1>1, <1>2 DEF LockInv
  <1>8. log.cells[l] \in CellsType(l)
    BY <1>1, <1>3 DEF LockedType
  <1>9. log.cells[l][c] \in Seq(Locked!Seqs)
    BY <1>4, <1>8 DEF CellsType
  <1>10. Append(log.cells[l][c], e) \in Seq(Locked!Seqs)
    BY <1>3, <1>9
  <1>11. /\ DOMAIN log' = DOMAIN log /\ log'.stage = log.stage /\ log'.overtaken = log.overtaken
         /\ log'.cells = [log.cells EXCEPT ![l][c] = Append(log.cells[l][c], e)]
    BY <1>1, <1>2, <1>7 DEF LockedType
  <1>12. DOMAIN log'.cells = LayersOf
    BY <1>1, <1>11 DEF LockedType
  <1>13. ASSUME NEW m \in LayersOf
         PROVE  /\ log'.cells[m] \in CellsType(m)
                /\ \A b \in Locked!Cells(Locked!StageOf(m)) :
                     log'.cells[m][b] = IF m = l /\ b = c THEN Append(log.cells[l][c], e) ELSE log.cells[m][b]
    <2>0. log.cells[m] \in CellsType(m) /\ DOMAIN log.cells = LayersOf
      BY <1>1 DEF LockedType
    <2>1. CASE m = l
      <3>1. log'.cells[m] = [log.cells[l] EXCEPT ![c] = Append(log.cells[l][c], e)]
        BY <1>3, <1>11, <2>0, <2>1
      <3>2. PICK f, x : f = log.cells[l] /\ x = Append(log.cells[l][c], e)
        OBVIOUS
      <3>3. f \in [Locked!Cells(s) -> Seq(Locked!Seqs)] /\ x \in Seq(Locked!Seqs) /\ CellsType(l) = [Locked!Cells(s) -> Seq(Locked!Seqs)]
        BY <1>8, <1>10, <3>2 DEF CellsType
      <3>4. /\ [f EXCEPT ![c] = x] \in [Locked!Cells(s) -> Seq(Locked!Seqs)]
            /\ \A b \in Locked!Cells(s) : [f EXCEPT ![c] = x][b] = IF b = c THEN x ELSE f[b]
        <4> HIDE DEF s
        <4> QED
          BY <3>3
      <3>5. log'.cells[m] = [f EXCEPT ![c] = x]
        BY <3>1, <3>2
      <3> QED
        BY <2>1, <3>2, <3>3, <3>4, <3>5
    <2>2. CASE m # l
      BY <1>11, <2>0, <2>2
    <2> QED
      BY <2>1, <2>2
  <1>14. /\ u.eof = thr[k].eof /\ u.e = e
         /\ \/ u.pc = "lock" /\ u.layer = l /\ u.left = left /\ left # {}
            \/ u.pc = "lock" /\ u.layer = l + 1 /\ l % 2 = 0 /\ left = {} /\ u.left = Locked!PatchAt(e, l + 1)
            \/ u.pc = "forwarded" /\ u.layer = l /\ left = {} /\ l % 2 = 1
    <2>1. CASE left # {}
      BY <2>1
    <2>2. CASE left = {} /\ l % 2 = 0
      BY <1>5, <2>2 DEF Locked!EnterLayer
    <2>3. CASE left = {} /\ l % 2 = 1
      BY <2>3
    <2> QED
      BY <1>5, <2>1, <2>2, <2>3
  <1>15. u \in ThreadType
    <2>1. CASE left # {}
      <3>1. u \in [pc : {"lock"}, eof : BOOLEAN, last : Int, e : Locked!Seqs, layer : LayersOf, left : SUBSET Int]
        BY <1>3, <1>6, <2>1
      <3>2. InHand(u)
        BY <1>3, <1>14, <2>1 DEF InHand
      <3> HIDE DEF u
      <3> QED
        BY <3>1, <3>2 DEF ThreadType
    <2>2. CASE left = {} /\ l % 2 = 0
      <3>1. u \in [pc : {"lock"}, eof : BOOLEAN, last : Int, e : Locked!Seqs, layer : LayersOf, left : SUBSET Int]
        BY <1>3, <1>5, <1>6, <2>2 DEF Locked!EnterLayer
      <3>2. InHand(u)
        BY <1>3, <1>5, <1>6, <1>14, <2>2 DEF InHand
      <3> HIDE DEF u
      <3> QED
        BY <3>1, <3>2 DEF ThreadType
    <2>3. CASE left = {} /\ l % 2 = 1
      <3>1. u \in [pc : {"forwarded"}, eof : BOOLEAN, last : Int, e : Locked!Seqs, layer : LayersOf]
        BY <1>3, <2>3
      <3>2. InHand(u)
        <4>1. u.e = e /\ u.layer = l /\ u.pc = "forwarded"
          BY <2>3
        <4> HIDE DEF u
        <4> QED
          BY <1>3, <2>3, <4>1 DEF InHand
      <3> HIDE DEF u
      <3> QED
        BY <3>1, <3>2 DEF ThreadType
    <2> QED
      BY <1>5, <2>1, <2>2, <2>3
  <1>16. left = {} => thr[k].left = {c}
    BY <1>4
  <1>17. Holds(k, e)
    BY <1>2 DEF Holds
  <1>18. \E t \in ThreadType :
              /\ thr' = [thr EXCEPT ![k] = t]
              /\ t.eof = thr[k].eof /\ t.e = e
              /\ \/ t.pc = "lock" /\ t.layer = l /\ t.left = thr[k].left \ {c}
                 \/ t.pc = "lock" /\ t.layer = l + 1 /\ l % 2 = 0 /\ thr[k].left = {c}
                    /\ t.left = Locked!PatchAt(e, l + 1)
                 \/ t.pc = "forwarded" /\ t.layer = l /\ thr[k].left = {c}
    <2> HIDE DEF u
    <2> QED
      BY <1>2, <1>14, <1>15, <1>16
  <1> HIDE DEF u, s, left
  <1>19. c \in Locked!PatchAt(e, l) /\ c \in Locked!Cells(Locked!StageOf(l))
    BY <1>4 DEF s
  <1> QED
    BY <1>2, <1>3, <1>4, <1>11, <1>12, <1>13, <1>17, <1>18, <1>19

LEMMA UpdateStep ==
  ASSUME LockedAssumption, LockedInv, NEW k \in Locked!Shards, Locked!UpdatePatch(k)
  PROVE  LockedInv'
  <1>1. LockedType /\ OrderInv /\ PlaceInv /\ LockInv /\ CellsInv /\ CommitInv
    BY DEF LockedInv
  <1>2. PICK e, l, c : e = thr[k].e /\ l = thr[k].layer /\ c = CellOf(k)
    OBVIOUS
  <1>3. /\ e \in Locked!Seqs /\ l \in LayersOf /\ c \in thr[k].left
        /\ c \in Locked!PatchAt(e, l) /\ c \in Locked!Cells(Locked!StageOf(l))
        /\ thr[k].pc = "update" /\ Holds(k, e)
    BY <1>2, StoreFacts
  <1>4. /\ todo' = todo /\ drained' = drained /\ pushed' = pushed /\ mark' = mark /\ q' = q
        /\ DOMAIN log' = DOMAIN log /\ log'.stage = log.stage /\ log'.overtaken = log.overtaken
        /\ DOMAIN log'.cells = LayersOf
    BY <1>2, StoreFacts
  <1>5. \A m \in LayersOf : /\ log'.cells[m] \in CellsType(m)
                            /\ \A b \in Locked!Cells(Locked!StageOf(m)) :
                                 log'.cells[m][b] = IF m = l /\ b = c THEN Append(log.cells[l][c], e)
                                                    ELSE log.cells[m][b]
    BY <1>2, StoreFacts
  <1>6. PICK t \in ThreadType :
              /\ thr' = [thr EXCEPT ![k] = t]
              /\ t.eof = thr[k].eof /\ t.e = e
              /\ \/ t.pc = "lock" /\ t.layer = l /\ t.left = thr[k].left \ {c}
                 \/ t.pc = "lock" /\ t.layer = l + 1 /\ l % 2 = 0 /\ thr[k].left = {c}
                    /\ t.left = Locked!PatchAt(e, l + 1)
                 \/ t.pc = "forwarded" /\ t.layer = l /\ thr[k].left = {c}
    BY <1>2, StoreFacts
  <1>7. \A j \in Locked!Shards : thr'[j] = IF j = k THEN t ELSE thr[j]
    BY <1>1, <1>6 DEF LockedType
  <1>8. thr' \in [Locked!Shards -> ThreadType]
    BY <1>1, <1>6 DEF LockedType
  <1>9. LockedType'
    BY <1>1, <1>4, <1>5, <1>8 DEF LockedType, CellsType, ThreadType, InHand
  <1>10. \A j \in Locked!Shards : \A d : Holds(j, d)' <=> Holds(j, d)
    <2> TAKE j \in Locked!Shards
    <2> TAKE d
    <2>1. CASE j = k
      BY <1>2, <1>3, <1>6, <1>7, <2>1 DEF Holds
    <2>2. CASE j # k
      BY <1>7, <2>2 DEF Holds
    <2> QED
      BY <2>1, <2>2
  <1>11. \A j \in Locked!Shards : thr'[j].eof = thr[j].eof /\ (thr'[j].pc = "exit" => thr[j].eof)
    <2>1. \A j \in Locked!Shards : thr[j].pc = "exit" => thr[j].eof
      BY <1>1 DEF OrderInv, NothingAfterEof
    <2> QED
      BY <1>6, <1>7, <2>1
  <1>12. OrderInv'
    BY <1>1, <1>4, <1>10, <1>11, QuietOrder
  <1>13. \A d \in Locked!Seqs : Coming(d)' <=> Coming(d)
    BY <1>4 DEF Coming, QueueOf
  <1>14. /\ l \in Nat
         /\ l % 2 = 0 => Locked!StageOf(l + 1) = Locked!StageOf(l)
    BY <1>3, LayerFacts
  <1>15. \A j \in Locked!Shards : \A d \in Locked!Seqs :
            Holds(j, d) => Locked!StageOf(thr'[j].layer) = Locked!StageOf(thr[j].layer)
    BY <1>2, <1>6, <1>7, <1>14
  <1>16. PlaceInv'
    BY <1>1, <1>4, <1>10, <1>13, <1>15, PlaceKept
  <1>17. \A j \in Locked!Shards \ {k} : thr[j].pc = "update" /\ thr[j].layer = l => CellOf(j) # c
    BY <1>1, <1>2, <1>3 DEF LockInv
  <1>18. LockInv'
    <2> SUFFICES ASSUME NEW j \in Locked!Shards, thr'[j].pc = "update"
                 PROVE  /\ thr'[j].loaded = log'.cells[thr'[j].layer][CellOf(j)']
                        /\ \A i \in Locked!Shards \ {j} :
                             thr'[i].pc = "update" /\ thr'[i].layer = thr'[j].layer => CellOf(i)' # CellOf(j)'
      BY DEF LockInv
    <2>1. j # k /\ thr'[j] = thr[j] /\ thr[j].pc = "update"
      BY <1>6, <1>7
    <2>2. \A i \in Locked!Shards \ {k} : CellOf(i)' = CellOf(i)
      BY <1>7 DEF CellOf
    <2>3. /\ thr[j].loaded = log.cells[thr[j].layer][CellOf(j)]
          /\ \A i \in Locked!Shards \ {j} :
               thr[i].pc = "update" /\ thr[i].layer = thr[j].layer => CellOf(i) # CellOf(j)
      BY <1>1, <2>1 DEF LockInv
    <2>4. thr[j].layer \in LayersOf /\ CellOf(j) \in Locked!Cells(Locked!StageOf(thr[j].layer))
      BY <1>1, <2>1, HandFacts, CellFacts
    <2>5. log'.cells[thr[j].layer][CellOf(j)] = log.cells[thr[j].layer][CellOf(j)]
      BY <1>5, <1>17, <2>1, <2>4
    <2>6. ASSUME NEW i \in Locked!Shards \ {j}, thr'[i].pc = "update", thr'[i].layer = thr'[j].layer
          PROVE  CellOf(i)' # CellOf(j)'
      <3>1. i # k
        BY <1>6, <1>7, <2>6
      <3> QED
        BY <1>7, <2>1, <2>2, <2>3, <2>6, <3>1
    <2> QED
      BY <2>1, <2>2, <2>3, <2>5, <2>6
  <1>19. \A s, d : Times(s, d)' = Times(s, d)
    BY <1>4 DEF Times
  <1>20. ASSUME NEW m \in LayersOf, NEW b, b \in Locked!PatchAt(e, m)
         PROVE  Reached(e, m, b)' <=> Reached(e, m, b) \/ (m = l /\ b = c)
    <2>1. \A j \in Locked!Shards : Holds(j, e) <=> j = k
      BY <1>1, <1>3, HeldNotComing
    <2>2. Reached(e, m, b) <=> \/ Times(Locked!StageOf(m), e) = 1
                               \/ l > m
                               \/ l = m /\ b \notin thr[k].left
      BY <1>2, <1>3, <2>1 DEF Reached
    <2>3. Reached(e, m, b)' <=> \/ Times(Locked!StageOf(m), e) = 1
                                \/ t.layer > m
                                \/ t.layer = m /\ (t.pc = "forwarded" \/ b \notin t.left)
      <3>1. Times(Locked!StageOf(m), e)' = Times(Locked!StageOf(m), e)
        BY <1>19 DEF Locked!StageOf
      <3> QED
        BY <1>7, <1>10, <2>1, <3>1 DEF Reached
    <2>4. m \in Nat /\ l \in Nat
      BY <1>3, LayerFacts
    <2>5. CASE t.pc = "lock" /\ t.layer = l /\ t.left = thr[k].left \ {c}
      BY <1>3, <2>2, <2>3, <2>5
    <2>6. CASE t.pc = "lock" /\ t.layer = l + 1 /\ l % 2 = 0 /\ thr[k].left = {c}
               /\ t.left = Locked!PatchAt(e, l + 1)
      <3>1. m = l + 1 => b \in t.left
        BY <1>20, <2>6
      <3>2. l + 1 > m <=> l > m \/ m = l
        BY <2>4
      <3> QED
        BY <2>2, <2>3, <2>6, <3>1, <3>2
    <2>7. CASE t.pc = "forwarded" /\ t.layer = l /\ thr[k].left = {c}
      BY <2>2, <2>3, <2>7
    <2> QED
      BY <1>6, <2>5, <2>6, <2>7
  <1>21. ASSUME NEW d \in Locked!Seqs, d # e, NEW m, NEW b PROVE Reached(d, m, b)' <=> Reached(d, m, b)
    <2>1. \A j \in Locked!Shards : Holds(j, d) => thr'[j] = thr[j]
      <3>1. ~Holds(k, d)
        BY <1>2, <1>21 DEF Holds
      <3> QED
        BY <1>7, <3>1
    <2>2. Times(Locked!StageOf(m), d)' = Times(Locked!StageOf(m), d)
      BY <1>19 DEF Locked!StageOf
    <2> QED
      BY <1>10, <2>1, <2>2 DEF Reached
  <1>22. ~Reached(e, l, c)
    <2>1. ~(Times(Locked!StageOf(l), e) = 1)
      <3>1. Locked!StageOf(l) \in Stages /\ ~(Locked!StageOf(l) < Locked!StageOf(l))
        BY <1>3, LayerFacts DEF Stages
      <3> QED
        BY <1>1, <1>2, <1>3, <3>1 DEF PlaceInv
    <2>2. Reached(e, l, c) <=> \/ Times(Locked!StageOf(l), e) = 1
                               \/ thr[k].layer > l
                               \/ thr[k].layer = l /\ (thr[k].pc = "forwarded" \/ c \notin thr[k].left)
      BY <1>1, <1>3, ReachedInHand
    <2>3. ~(l > l)
      BY <1>14
    <2> QED
      BY <1>2, <1>3, <2>1, <2>2, <2>3
  <1>23. CellsInv'
    <2> SUFFICES ASSUME NEW m \in LayersOf, NEW b \in Locked!Cells(Locked!StageOf(m)), NEW d \in Locked!Seqs
                 PROVE Locked!Count(log'.cells[m][b], d) =
                         IF b \in Locked!PatchAt(d, m) /\ Reached(d, m, b)' THEN 1 ELSE 0
      BY DEF CellsInv
    <2>1. Locked!Count(log.cells[m][b], d) =
            IF b \in Locked!PatchAt(d, m) /\ Reached(d, m, b) THEN 1 ELSE 0
      BY <1>1 DEF CellsInv
    <2>2. CASE m = l /\ b = c
      <3>1. log.cells[l][c] \in Seq(Locked!Seqs)
        BY <1>1, <1>3 DEF LockedType, CellsType
      <3>2. Locked!Count(Append(log.cells[l][c], e), d) =
              Locked!Count(log.cells[l][c], d) + (IF e = d THEN 1 ELSE 0)
        BY <1>3, <3>1, CountOfAppend
      <3>3. CASE d = e
        BY <1>3, <1>5, <1>20, <1>22, <2>1, <2>2, <3>2, <3>3
      <3>4. CASE d # e
        <4>1. Locked!Count(log.cells[l][c], d) \in Nat
          BY <3>1, CountsAreNat
        <4> QED
          BY <1>5, <1>21, <2>1, <2>2, <3>2, <3>4, <4>1
      <3> QED
        BY <3>3, <3>4
    <2>3. CASE ~(m = l /\ b = c)
      <3>1. log'.cells[m][b] = log.cells[m][b]
        BY <1>5, <2>3
      <3>2. b \in Locked!PatchAt(d, m) => (Reached(d, m, b)' <=> Reached(d, m, b))
        BY <1>20, <1>21, <2>3
      <3> QED
        BY <2>1, <3>1, <3>2
    <2> QED
      BY <2>2, <2>3
  <1>24. CommitInv'
    BY <1>1, <1>4, <1>19, CommitKept
  <1> QED
    BY <1>9, <1>12, <1>16, <1>18, <1>23, <1>24 DEF LockedInv

LEMMA LayersBelow ==
  ASSUME LockedAssumption, NEW l \in LayersOf, l % 2 = 1, NEW m \in LayersOf
  PROVE  /\ m <= l <=> Locked!StageOf(m) <= Locked!StageOf(l)
         /\ Locked!StageOf(m) \in Stages /\ Locked!StageOf(m) \in Int /\ Locked!StageOf(l) \in Int
  <1> DEFINE s == Locked!StageOf(l)
             r == Locked!StageOf(m)
  <1>1. /\ s \in Stages /\ l \in Nat /\ l = 2 * s + 1
        /\ r \in Stages /\ m \in Nat
        /\ m % 2 \in {0, 1}
        /\ m % 2 = 0 => m = 2 * r
        /\ m % 2 = 1 => m = 2 * r + 1
    BY LayerFacts
  <1>2. s \in Int /\ r \in Int
    BY <1>1 DEF Stages
  <1> HIDE DEF s, r
  <1>3. m = 2 * r \/ m = 2 * r + 1
    BY <1>1
  <1>4. m <= l <=> r <= s
    BY <1>1, <1>2, <1>3
  <1> QED
    BY <1>1, <1>2, <1>4 DEF s, r

\* An event has been through a stage: what the shard does with it next.
LEMMA FinishFacts ==
  ASSUME LockedAssumption, LockedInv, NEW k \in Locked!Shards, Locked!EndStage(k),
         NEW e, e = thr[k].e, NEW l, l = thr[k].layer
  PROVE  /\ e \in Locked!Seqs /\ l \in LayersOf /\ l % 2 = 1 /\ thr[k].pc = "forwarded" /\ Holds(k, e)
         /\ todo' = todo /\ drained' = drained /\ pushed' = pushed /\ q' = q
         /\ DOMAIN log' = DOMAIN log /\ log'.cells = log.cells /\ log'.overtaken = log.overtaken
         /\ log'.stage \in [Stages -> Seq(Locked!Seqs)]
         /\ \A s \in Stages : \A d :
              Times(s, d)' = IF s = Locked!StageOf(l) /\ d = e THEN Times(s, d) + 1 ELSE Times(s, d)
         /\ \E t \in ThreadType :
              /\ thr' = [thr EXCEPT ![k] = t] /\ t.eof = thr[k].eof
              /\ \/ /\ t.pc = "lock" /\ t.e = e /\ t.layer = l + 1 /\ l + 1 \in LayersOf
                    /\ Locked!StageOf(l + 1) = Locked!StageOf(l) + 1
                    /\ t.left = Locked!PatchAt(e, l + 1)
                    /\ mark' = mark
                 \/ t.pc = "pop" /\ mark' = [mark EXCEPT ![k] = e]
  <1> DEFINE s == Locked!StageOf(l)
  <1>1. LockedType /\ OrderInv
    BY DEF LockedInv
  <1>2. /\ thr[k].pc = "forwarded" /\ q' = q /\ todo' = todo /\ drained' = drained /\ pushed' = pushed
        /\ log' = [log EXCEPT !.stage[s] = Append(log.stage[s], e)]
        /\ \/ s < Deepest /\ thr' = [thr EXCEPT ![k] = Locked!EnterLayer(k, e, l + 1)] /\ mark' = mark
           \/ mark' = [mark EXCEPT ![k] = e] /\ thr' = [thr EXCEPT ![k] = Finished(thr[k].eof, e)]
    BY DEF Locked!EndStage, Locked!Goto, Locked!OfMain, Locked!Commit, Finished
  <1>3. e \in Locked!Seqs /\ l \in LayersOf /\ l % 2 = 1 /\ thr[k].eof \in BOOLEAN /\ thr[k].last \in Int
    BY <1>1, <1>2, HandFacts
  <1>4. Holds(k, e)
    BY <1>2 DEF Holds
  <1>5. /\ s \in Stages /\ l \in Nat
        /\ s < Deepest => l + 1 \in LayersOf /\ Locked!StageOf(l + 1) = s + 1 /\ (l + 1) % 2 = 0
    BY <1>3, LayerFacts
  <1>6. log.stage \in [Stages -> Seq(Locked!Seqs)]
    BY <1>1 DEF LockedType
  <1> HIDE DEF s
  <1>7. /\ DOMAIN log' = DOMAIN log /\ log'.cells = log.cells /\ log'.overtaken = log.overtaken
        /\ log'.stage = [log.stage EXCEPT ![s] = Append(log.stage[s], e)]
    BY <1>1, <1>2 DEF LockedType
  <1>8. log'.stage \in [Stages -> Seq(Locked!Seqs)]
    <2>1. Append(log.stage[s], e) \in Seq(Locked!Seqs)
      BY <1>3, <1>5, <1>6
    <2> QED
      BY <1>6, <1>7, <2>1
  <1>9. ASSUME NEW r \in Stages, NEW d
        PROVE  Times(r, d)' = IF r = s /\ d = e THEN Times(r, d) + 1 ELSE Times(r, d)
    <2>1. Times(r, d)' = Locked!Count(log'.stage[r], d)
      BY DEF Times
    <2>2. CASE r = s
      <3>1. log'.stage[r] = Append(log.stage[s], e)
        BY <1>5, <1>6, <1>7, <2>2
      <3>2. log.stage[s] \in Seq(Locked!Seqs)
        BY <1>5, <1>6
      <3>3. Locked!Count(Append(log.stage[s], e), d) = Locked!Count(log.stage[s], d) + (IF e = d THEN 1 ELSE 0)
        BY <1>3, <3>2, CountOfAppend
      <3>4. Locked!Count(log.stage[s], d) \in Nat
        BY <3>2, CountsAreNat
      <3> QED
        BY <2>1, <2>2, <3>1, <3>3, <3>4 DEF Times
    <2>3. CASE r # s
      BY <1>6, <1>7, <2>1, <2>3 DEF Times
    <2> QED
      BY <2>2, <2>3
  <1>10. ASSUME s < Deepest
         PROVE  /\ Locked!EnterLayer(k, e, l + 1) \in ThreadType
                /\ Locked!EnterLayer(k, e, l + 1).eof = thr[k].eof
                /\ Locked!EnterLayer(k, e, l + 1).pc = "lock"
                /\ Locked!EnterLayer(k, e, l + 1).e = e
                /\ Locked!EnterLayer(k, e, l + 1).layer = l + 1
                /\ Locked!EnterLayer(k, e, l + 1).left = Locked!PatchAt(e, l + 1)
    <2> DEFINE n == l + 1
               u == Locked!EnterLayer(k, e, n)
    <2>1. n \in LayersOf /\ n % 2 = 0
      BY <1>5, <1>10
    <2> HIDE DEF n
    <2>2. Locked!InBounds(e)
      BY <1>1, <1>3, <1>4, HeldNotComing
    <2>3. Locked!PatchAt(e, n) # {} /\ Locked!PatchAt(e, n) \in SUBSET Int
      BY <1>3, <2>1, <2>2, PatchFacts
    <2>4. /\ u.pc = "lock" /\ u.e = e /\ u.layer = n /\ u.eof = thr[k].eof
          /\ u.left = Locked!PatchAt(e, n)
      BY DEF Locked!EnterLayer
    <2>5. u \in [pc : {"lock"}, eof : BOOLEAN, last : Int, e : Locked!Seqs, layer : LayersOf, left : SUBSET Int]
      BY <1>3, <2>1, <2>3 DEF Locked!EnterLayer
    <2> HIDE DEF u
    <2>6. InHand(u)
      BY <1>3, <2>1, <2>3, <2>4 DEF InHand
    <2>7. u \in ThreadType
      BY <2>5, <2>6 DEF ThreadType
    <2> QED
      BY <2>4, <2>7 DEF u, n
  <1>11. /\ Finished(thr[k].eof, e) \in ThreadType /\ Finished(thr[k].eof, e).pc = "pop"
         /\ Finished(thr[k].eof, e).eof = thr[k].eof
    <2>1. e \in Int
      BY <1>3, OwnerIs
    <2> QED
      BY <1>3, <2>1, FinishedIs
  <1>12. \E t \in ThreadType :
              /\ thr' = [thr EXCEPT ![k] = t] /\ t.eof = thr[k].eof
              /\ \/ /\ t.pc = "lock" /\ t.e = e /\ t.layer = l + 1 /\ l + 1 \in LayersOf
                    /\ Locked!StageOf(l + 1) = s + 1
                    /\ t.left = Locked!PatchAt(e, l + 1)
                    /\ mark' = mark
                 \/ t.pc = "pop" /\ mark' = [mark EXCEPT ![k] = e]
    <2>1. CASE s < Deepest /\ thr' = [thr EXCEPT ![k] = Locked!EnterLayer(k, e, l + 1)] /\ mark' = mark
      BY <1>5, <1>10, <2>1
    <2>2. CASE mark' = [mark EXCEPT ![k] = e] /\ thr' = [thr EXCEPT ![k] = Finished(thr[k].eof, e)]
      BY <1>11, <2>2
    <2> QED
      BY <1>2, <2>1, <2>2
  <1> QED
    BY <1>2, <1>3, <1>4, <1>7, <1>8, <1>9, <1>12 DEF s

LEMMA FinishStep ==
  ASSUME LockedAssumption, LockedInv, NEW k \in Locked!Shards, Locked!EndStage(k)
  PROVE  LockedInv'
  <1>1. LockedType /\ OrderInv /\ PlaceInv /\ LockInv /\ CellsInv /\ CommitInv
    BY DEF LockedInv
  <1>2. PICK e, l : e = thr[k].e /\ l = thr[k].layer
    OBVIOUS
  <1>3. e \in Locked!Seqs /\ l \in LayersOf /\ l % 2 = 1 /\ thr[k].pc = "forwarded" /\ Holds(k, e)
    BY <1>2, FinishFacts
  <1>4. /\ todo' = todo /\ drained' = drained /\ pushed' = pushed /\ q' = q
        /\ DOMAIN log' = DOMAIN log /\ log'.cells = log.cells /\ log'.overtaken = log.overtaken
        /\ log'.stage \in [Stages -> Seq(Locked!Seqs)]
    BY <1>2, FinishFacts
  <1>5. PICK s : s = Locked!StageOf(l)
    OBVIOUS
  <1>6. \A r \in Stages : \A d :
          Times(r, d)' = IF r = s /\ d = e THEN Times(r, d) + 1 ELSE Times(r, d)
    BY <1>2, <1>5, FinishFacts
  <1>7. PICK t \in ThreadType :
          /\ thr' = [thr EXCEPT ![k] = t] /\ t.eof = thr[k].eof
          /\ \/ /\ t.pc = "lock" /\ t.e = e /\ t.layer = l + 1 /\ l + 1 \in LayersOf
                /\ Locked!StageOf(l + 1) = s + 1
                /\ t.left = Locked!PatchAt(e, l + 1)
                /\ mark' = mark
             \/ t.pc = "pop" /\ mark' = [mark EXCEPT ![k] = e]
    BY <1>2, <1>5, FinishFacts
  <1>8. \A j \in Locked!Shards : thr'[j] = IF j = k THEN t ELSE thr[j]
    BY <1>1, <1>7 DEF LockedType
  <1>9. s \in Stages /\ s \in Int /\ l \in Nat
    BY <1>3, <1>5, LayerFacts DEF Stages
  <1>10. e \in Int /\ e \in Nat
    BY <1>3, OwnerIs
  <1>11. LockedType'
    <2>1. thr' \in [Locked!Shards -> ThreadType] /\ mark' \in [Locked!Shards -> Int]
      BY <1>1, <1>7, <1>10 DEF LockedType
    <2> QED
      BY <1>1, <1>4, <2>1 DEF LockedType, CellsType, ThreadType, InHand
  <1>12. /\ \A j \in Locked!Shards \ {k} : \A d : Holds(j, d)' <=> Holds(j, d)
         /\ \A d : Holds(k, d)' <=> d = e /\ t.pc = "lock"
         /\ \A d : Holds(k, d) <=> d = e
    BY <1>2, <1>3, <1>7, <1>8 DEF Holds
  <1>13. \A j \in Locked!Shards : /\ thr'[j].eof = thr[j].eof
                                  /\ thr'[j].pc = "exit" => thr[j].eof
                                  /\ \A d \in Locked!Seqs : Holds(j, d)' => Holds(j, d)
    <2>1. \A j \in Locked!Shards : thr[j].pc = "exit" => thr[j].eof
      BY <1>1 DEF OrderInv, NothingAfterEof
    <2>2. \A j \in Locked!Shards : \A d \in Locked!Seqs : Holds(j, d)' => Holds(j, d)
      BY <1>12
    <2> QED
      BY <1>7, <1>8, <2>1, <2>2
  <1>14. OrderInv'
    BY <1>1, <1>4, <1>13, QuietOrder
  <1>15. \A d : Coming(d)' <=> Coming(d)
    BY <1>4 DEF Coming, QueueOf
  <1>16. \A j \in Locked!Shards : Holds(j, e) <=> j = k
    BY <1>1, <1>3, HeldNotComing
  <1>17. Locked!InBounds(e) /\ Locked!ShardOf(Locked!Column(e)) = k /\ ~Coming(e)
    BY <1>1, <1>3, HeldNotComing
  <1>18. \A r \in Stages : r \in Int /\ Times(r, e) = IF r < s THEN 1 ELSE 0
    <2> TAKE r \in Stages
    <2>1. Times(r, e) \in {0, 1} /\ (Times(r, e) = 1 <=> r < s)
      BY <1>1, <1>2, <1>3, <1>5 DEF PlaceInv
    <2> QED
      BY <2>1 DEF Stages
  <1>19. \A r \in Stages : Times(r, e)' = IF r <= s THEN 1 ELSE 0
    BY <1>6, <1>9, <1>18
  <1>20. \A j \in Locked!Shards : Locked!StageOf(thr[j].layer)' = Locked!StageOf(thr'[j].layer)
    BY DEF Locked!StageOf
  <1>21. 0 \in Stages
    BY DEF Stages, LockedAssumption
  <1>22. PlaceInv'
    <2> SUFFICES ASSUME NEW d \in Locked!Seqs
                 PROVE /\ \A r \in Stages :
                            /\ Times(r, d)' \in {0, 1}
                            /\ Times(r, d)' = 1 => Locked!InBounds(d) /\ ~Coming(d)'
                            /\ \A j \in Locked!Shards : Holds(j, d)' =>
                                 (Times(r, d)' = 1 <=> r < Locked!StageOf(thr'[j].layer))
                       /\ Locked!InBounds(d) =>
                            Coming(d)' \/ (\E j \in Locked!Shards : Holds(j, d)') \/ Times(0, d)' = 1
      BY <1>20 DEF PlaceInv
    <2>1. /\ \A r \in Stages :
               /\ Times(r, d) \in {0, 1}
               /\ Times(r, d) = 1 => Locked!InBounds(d) /\ ~Coming(d)
               /\ \A j \in Locked!Shards : Holds(j, d) => (Times(r, d) = 1 <=> r < Locked!StageOf(thr[j].layer))
          /\ Locked!InBounds(d) => Coming(d) \/ (\E j \in Locked!Shards : Holds(j, d)) \/ Times(0, d) = 1
      BY <1>1 DEF PlaceInv
    <2>2. CASE d = e
      <3>1. ASSUME NEW j \in Locked!Shards, Holds(j, d)'
            PROVE  j = k /\ t.pc = "lock" /\ Locked!StageOf(thr'[j].layer) = s + 1
        <4>1. j = k
          BY <1>12, <1>16, <2>2, <3>1
        <4> QED
          BY <1>7, <1>8, <1>12, <3>1, <4>1
      <3>2. \A r \in Stages : Times(r, d)' \in {0, 1} /\ (Times(r, d)' = 1 <=> r < s + 1)
        BY <1>9, <1>18, <1>19, <2>2
      <3>3. 0 < s + 1
        BY <1>9 DEF Stages
      <3> QED
        BY <1>15, <1>17, <1>21, <2>2, <3>1, <3>2, <3>3
    <2>3. CASE d # e
      <3>1. \A j \in Locked!Shards : (Holds(j, d)' <=> Holds(j, d)) /\ (Holds(j, d) => thr'[j] = thr[j])
        BY <1>8, <1>12, <2>3
      <3>2. \A r \in Stages : Times(r, d)' = Times(r, d)
        BY <1>6, <2>3
      <3> QED
        BY <1>15, <1>21, <2>1, <3>1, <3>2
    <2> QED
      BY <2>2, <2>3
  <1>23. LockInv'
    <2>1. \A j \in Locked!Shards : thr'[j].pc = "update" => thr'[j] = thr[j]
      BY <1>7, <1>8
    <2> QED
      BY <1>1, <1>4, <2>1, LockKept
  <1>24. CellsInv'
    <2>1. ASSUME NEW m \in LayersOf, NEW b \in Locked!Cells(Locked!StageOf(m)), NEW d \in Locked!Seqs,
                 b \in Locked!PatchAt(d, m)
          PROVE  Reached(d, m, b)' <=> Reached(d, m, b)
      <3>1. PICK r : r = Locked!StageOf(m)
        OBVIOUS
      <3>2. (m <= l <=> r <= s) /\ r \in Stages /\ r \in Int
        BY <1>3, <1>5, <3>1, LayersBelow
      <3>3. m \in Nat
        BY LayerFacts
      <3>4. /\ Reached(d, m, b) <=>
                  \/ Times(r, d) = 1
                  \/ \E j \in Locked!Shards : /\ Holds(j, d)
                                              /\ \/ thr[j].layer > m
                                                 \/ thr[j].layer = m /\ (thr[j].pc = "forwarded" \/ b \notin thr[j].left)
            /\ Reached(d, m, b)' <=>
                  \/ Times(r, d)' = 1
                  \/ \E j \in Locked!Shards : /\ Holds(j, d)'
                                              /\ \/ thr'[j].layer > m
                                                 \/ thr'[j].layer = m /\ (thr'[j].pc = "forwarded" \/ b \notin thr'[j].left)
        <4>1. Times(Locked!StageOf(m), d)' = Times(r, d)'
          BY <3>1 DEF Times, Locked!StageOf
        <4> QED
          BY <3>1, <4>1 DEF Reached
      <3>5. CASE d = e
        <4>1. Reached(d, m, b) <=> Times(r, e) = 1 \/ l > m \/ l = m
          BY <1>2, <1>3, <1>16, <3>4, <3>5
        <4>2. Reached(d, m, b) <=> r <= s
          <5>1. Times(r, e) = 1 <=> r < s
            BY <1>18, <3>2
          <5> QED
            BY <1>9, <3>2, <3>3, <4>1, <5>1
        <4>3. Times(r, d)' = 1 <=> r <= s
          BY <1>19, <3>2, <3>5
        <4>4. ASSUME NEW j \in Locked!Shards, Holds(j, d)',
                     thr'[j].layer > m \/ (thr'[j].layer = m /\ (thr'[j].pc = "forwarded" \/ b \notin thr'[j].left))
              PROVE  m <= l
          <5>1. j = k /\ t.pc = "lock"
            BY <1>12, <1>16, <3>5, <4>4
          <5>2. thr'[j] = t /\ t.layer = l + 1 /\ t.left = Locked!PatchAt(e, l + 1)
            BY <1>7, <1>8, <5>1
          <5>3. m = l + 1 => b \in t.left
            BY <2>1, <3>5, <5>2
          <5> QED
            BY <1>9, <3>3, <4>4, <5>1, <5>2, <5>3
        <4> QED
          BY <3>2, <3>4, <4>2, <4>3, <4>4
      <3>6. CASE d # e
        <4>1. \A j \in Locked!Shards : (Holds(j, d)' <=> Holds(j, d)) /\ (Holds(j, d) => thr'[j] = thr[j])
          BY <1>8, <1>12, <3>6
        <4>2. Times(r, d)' = Times(r, d)
          BY <1>6, <3>2, <3>6
        <4> QED
          BY <3>4, <4>1, <4>2
      <3> QED
        BY <3>5, <3>6
    <2> QED
      BY <1>1, <1>4, <2>1, CellsKept
  <1>25. \A d \in Locked!Seqs : Times(0, d) = 1 => Times(0, d)' = 1
    <2> TAKE d \in Locked!Seqs
    <2> HAVE Times(0, d) = 1
    <2>1. CASE d = e
      <3>1. 0 < s
        BY <1>18, <1>21, <2>1
      <3> QED
        BY <1>9, <1>19, <1>21, <2>1, <3>1
    <2>2. CASE d # e
      BY <1>6, <1>21, <2>2
    <2> QED
      BY <2>1, <2>2
  <1>26. ASSUME NEW d \in Locked!Seqs, Locked!InBounds(d), Locked!ShardOf(Locked!Column(d)) = k, d < e
         PROVE  Times(0, d) = 1
    <2>1. d \in Nat /\ d # e
      BY <1>10, <1>26, OwnerIs
    <2>2. HeldInOrder(k) /\ Floor(EventTo(k, e)) = e + 1
      BY <1>1 DEF OrderInv, Floor, FloorOf, EventTo, PushTo
    <2>3. ASSUME NEW j \in DOMAIN todo, Brings(todo[j], "event"), todo[j].msg.seq = d PROVE FALSE
      <3>1. After(EventTo(k, e), todo[j])
        BY <1>3, <2>2 DEF HeldInOrder
      <3> QED
        BY <1>10, <1>26, <2>1, <2>2, <2>3, <3>1 DEF After
    <2>4. ASSUME NEW i \in DOMAIN QueueOf(k), QueueOf(k)[i].type = "event", QueueOf(k)[i].seq = d PROVE FALSE
      <3>1. After(EventTo(k, e), PushTo(k, QueueOf(k)[i]))
        BY <1>3, <2>2 DEF HeldInOrder
      <3>2. Brings(PushTo(k, QueueOf(k)[i]), "event") /\ PushTo(k, QueueOf(k)[i]).msg.seq = d
        BY <2>4 DEF PushTo, Brings
      <3> QED
        BY <1>10, <1>26, <2>1, <2>2, <3>1, <3>2 DEF After
    <2>5. ~Holds(k, d)
      BY <1>12, <2>1
    <2> QED
      BY <1>1, <1>10, <1>26, <2>3, <2>4, <2>5, DoneIsDone
  <1>27. CommitInv'
    <2>1. CASE mark' = mark
      BY <1>1, <1>4, <1>25, <2>1, CommitKept
    <2>2. CASE mark' = [mark EXCEPT ![k] = e]
      BY <1>1, <1>4, <1>10, <1>25, <1>26, <2>2, CommitMoved
    <2> QED
      BY <1>7, <2>1, <2>2
  <1> QED
    BY <1>11, <1>14, <1>22, <1>23, <1>24, <1>27 DEF LockedInv

-----------------------------------------------------------------------------
(* The theorems about s6. *)

LEMMA LockedStep ==
  ASSUME LockedAssumption, LockedInv,
         [Locked!Producer \/ \E k \in Locked!Shards : Locked!Thread(k)]_(Locked!vars)
  PROVE  LockedInv'
  <1>1. CASE Locked!Producer
    BY <1>1, ProducerStep
  <1>2. ASSUME NEW k \in Locked!Shards, Locked!Thread(k) PROVE LockedInv'
    <2>1. CASE Locked!TakeEvent(k)
      BY <2>1, TakeStep
    <2>2. CASE Locked!TakeMarker(k)
      BY <2>2, MarkerStep
    <2>3. CASE Locked!LockPatch(k)
      BY <2>3, LockStep
    <2>4. CASE Locked!UpdatePatch(k)
      BY <2>4, UpdateStep
    <2>5. CASE Locked!EndStage(k)
      BY <2>5, FinishStep
    <2>6. CASE Locked!TakeEof(k)
      BY <2>6, EofStep
    <2>7. CASE Locked!QueueEmpty(k)
      BY <2>7, EmptyStep
    <2>8. CASE Locked!CatchUp(k)
      BY <2>8, CatchUpStep
    <2>9. CASE Locked!LeaveOrSpin(k)
      BY <2>9, LeaveStep
    <2> QED
      BY <1>2, <2>1, <2>2, <2>3, <2>4, <2>5, <2>6, <2>7, <2>8, <2>9
         DEF Locked!Thread, Locked!ForwardLocked, Locked!Loop
  <1>3. CASE UNCHANGED Locked!vars
    <2>1. /\ todo' = todo /\ drained' = drained /\ q' = q /\ pushed' = pushed /\ mark' = mark /\ log' = log /\ thr' = thr
      BY <1>3 DEF Locked!vars
    <2>2. /\ \A k, e : Holds(k, e)' <=> Holds(k, e)
          /\ \A s, e : Times(s, e)' = Times(s, e)
          /\ \A e, l, c : Reached(e, l, c)' <=> Reached(e, l, c)
      BY <2>1, SameHands
    <2>3. LockedType'
      BY <2>1 DEF LockedInv, LockedType, CellsType, ThreadType, InHand
    <2>4. \A j \in Locked!Shards : thr[j].pc = "exit" => thr[j].eof
      BY DEF LockedInv, OrderInv, NothingAfterEof
    <2>5. OrderInv'
      BY <2>1, <2>2, <2>4, QuietOrder DEF LockedInv
    <2>6. \A e \in Locked!Seqs : Coming(e)' <=> Coming(e)
      BY <2>1 DEF Coming, QueueOf
    <2>7. PlaceInv'
      BY <2>1, <2>2, <2>6, PlaceKept DEF LockedInv
    <2>8. LockInv'
      BY <2>1, LockKept DEF LockedInv
    <2>9. CellsInv'
      BY <2>1, <2>2, CellsKept DEF LockedInv
    <2>10. CommitInv'
      BY <2>1, <2>2, CommitKept DEF LockedInv
    <2> QED
      BY <2>3, <2>5, <2>7, <2>8, <2>9, <2>10 DEF LockedInv
  <1> QED
    BY <1>1, <1>2, <1>3

\* The inductive invariant of s6: what is still to come is in order, each event is in one place,
\* no two shards are in one cell, each cell has the events that have got to it, and a mark promises
\* what is done.
THEOREM LockedInvariant ==
  ASSUME LockedAssumption
  PROVE  Locked!Spec => []LockedInv
  <1>1. Locked!Init => LockedInv
    BY LockedStart
  <1>2. LockedInv /\ [Locked!Producer \/ \E k \in Locked!Shards : Locked!Thread(k)]_(Locked!vars) => LockedInv'
    BY LockedStep
  <1> QED
    BY <1>1, <1>2, PTL DEF Locked!Spec

\* No update of a shared cell is lost and none is made twice: the lock of a cell covers the load and
\* the store, so an event that has been through a stage is in every cell of its patch once.
THEOREM LockedApplies ==
  ASSUME LockedAssumption
  PROVE  Locked!Spec => []Locked!AppliedOnce
  <1>1. ASSUME LockedInv PROVE Locked!AppliedOnce
    <2>1. LockedType /\ PlaceInv /\ CellsInv
      BY <1>1 DEF LockedInv
    <2> SUFFICES ASSUME NEW l \in LayersOf,
                        NEW e \in {log.stage[Locked!StageOf(l)][i] : i \in DOMAIN log.stage[Locked!StageOf(l)]},
                        NEW c \in DOMAIN log.cells[l]
                 PROVE  Locked!Count(log.cells[l][c], e) =
                          (IF c \in Locked!PatchAt(e, l) THEN 1 ELSE 0)
      BY <2>1 DEF Locked!AppliedOnce, Locked!OnceInPatch, LockedType
    <2>2. PICK s : s = Locked!StageOf(l)
      OBVIOUS
    <2>3. s \in Stages
      BY <2>2, LayerFacts
    <2>4. log.stage[s] \in Seq(Locked!Seqs)
      BY <2>1, <2>3 DEF LockedType
    <2>5. \E i \in DOMAIN log.stage[s] : log.stage[s][i] = e
      BY <2>2
    <2>6. e \in Locked!Seqs /\ Times(s, e) > 0
      BY <2>4, <2>5, CountsAreNat DEF Times
    <2>7. Times(s, e) = 1
      BY <2>1, <2>3, <2>6 DEF PlaceInv
    <2>8. Reached(e, l, c)
      BY <2>2, <2>7 DEF Reached
    <2>9. c \in Locked!Cells(Locked!StageOf(l))
      BY <2>1 DEF LockedType, CellsType
    <2> QED
      BY <2>1, <2>6, <2>8, <2>9 DEF CellsInv
  <1> QED
    BY <1>1, LockedInvariant, PTL

\* A drain has waited for every event before it, unless a shard overtook one: the shard found its queue
\* empty, and then committed to a number that had been published after an event was pushed.
THEOREM LockedDrains ==
  ASSUME LockedAssumption
  PROVE  Locked!Spec => []Locked!DrainsComplete
  <1>1. ASSUME LockedInv PROVE Locked!DrainsComplete
    <2>1. LockedType /\ CommitInv
      BY <1>1 DEF LockedInv
    <2> SUFFICES ASSUME ~log.overtaken, NEW e \in 0 .. drained - 1, Locked!InBounds(e)
                 PROVE  Locked!Count(log.stage[0], e) = 1
      BY DEF Locked!DrainsComplete
    <2>2. drained \in 0 .. Locked!Total /\ Locked!Total \in Nat
      BY <2>1 DEF LockedType, LockedAssumption, Locked!Total
    <2>3. e \in Locked!Seqs /\ e < drained
      BY <2>2 DEF Locked!Seqs
    <2> QED
      BY <2>1, <2>3 DEF CommitInv, Times
  <1> QED
    BY <1>1, LockedInvariant, PTL

\* When the producer and the shards are through, the queues are empty and each event of the sensor
\* has been through stage 0 once, those outside it not at all.
THEOREM LockedEnds ==
  ASSUME LockedAssumption
  PROVE  Locked!Spec => []Locked!EndsClean
  <1>1. ASSUME LockedInv PROVE Locked!EndsClean
    <2>1. LockedType /\ OrderInv /\ PlaceInv
      BY <1>1 DEF LockedInv
    <2> SUFFICES ASSUME todo = <<>>, \A k \in Locked!Shards : thr[k].pc = "exit"
                 PROVE  Locked!AllQueuesEmpty /\ Locked!EachOnce
      BY DEF Locked!EndsClean, Locked!RunEnded
    <2>2. \A k \in Locked!Shards : QueueOf(k) = <<>> /\ \A e : ~Holds(k, e)
      BY <2>1 DEF OrderInv, NothingAfterEof, Holds
    <2>3. Locked!AllQueuesEmpty
      <3>1. DOMAIN q = {Locked!Own(k) : k \in Locked!Shards}
        BY <2>1 DEF LockedType
      <3> QED
        BY <2>2, <3>1 DEF Locked!AllQueuesEmpty, QueueOf
    <2>4. ASSUME NEW e \in Locked!Seqs
          PROVE  Locked!Count(log.stage[0], e) = (IF Locked!InBounds(e) THEN 1 ELSE 0)
      <3>1. ~Coming(e)
        BY <2>2 DEF Coming
      <3>2. 0 \in Stages
        BY DEF Stages, LockedAssumption
      <3>3. Times(0, e) \in {0, 1} /\ (Times(0, e) = 1 <=> Locked!InBounds(e))
        BY <2>1, <2>2, <3>1, <3>2 DEF PlaceInv
      <3> QED
        BY <3>3 DEF Times
    <2> QED
      BY <2>3, <2>4 DEF Locked!EachOnce
  <1> QED
    BY <1>1, LockedInvariant, PTL
===============================================================================

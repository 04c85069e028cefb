-------------------------- MODULE BlockRouting_proof --------------------------
(***************************************************************************)
(* On every grid, for any number of workers and events: the blocks         *)
(* partition the cells and their halos reach far enough, and an event      *)
(* reaches its owner once, after all that its patch needs.                 *)
(***************************************************************************)
EXTENDS BlockRouting, TLAPS, SequenceTheorems, FiniteSetTheorems

-------------------------------------------------------------------------------
(* The topology alone.                                                     *)

Grid == [W2 : Nat \ {0}, H2 : Nat \ {0}, n : {2, 4, 8}]
Parts == {1, 2, 4}      \* strips on an axis

(* The boundaries start at 0, never go back, and end at the extent.        *)
LEMMA Boundaries ==
    ASSUME NEW extent \in Nat \ {0}, NEW n \in Parts
    PROVE  /\ Split(extent, n, 0) = 0 /\ Split(extent, n, n) = extent
           /\ \A i \in 0 .. n : Split(extent, n, i) \in 0 .. extent
           /\ \A i \in 0 .. n - 1 : Split(extent, n, i) <= Split(extent, n, i + 1)
<1>1. CASE n = 1
  BY <1>1 DEF Split, Uniform
<1>2. CASE n = 2
  BY <1>2 DEF Split, Uniform
<1>3. CASE n = 4 /\ Middle(extent, n) < 1
  <2>1. \A i \in 0 .. 4 : Split(extent, 4, i) = Uniform(extent, 4, i)
    BY <1>3 DEF Split
  <2>2. \A i \in 0 .. 4 : i = 0 \/ i = 1 \/ i = 2 \/ i = 3 \/ i = 4
    OBVIOUS
  <2>3. /\ Split(extent, 4, 0) = 0 /\ Split(extent, 4, 1) = extent \div 4
        /\ Split(extent, 4, 2) = 2 * (extent \div 4)
        /\ Split(extent, 4, 3) = 3 * (extent \div 4)
        /\ Split(extent, 4, 4) = extent
    BY <2>1 DEF Uniform
  <2>4. extent \div 4 \in Nat /\ 4 * (extent \div 4) <= extent
    OBVIOUS
  <2> QED
    BY <1>3, <2>2, <2>3, <2>4
<1>4. CASE n = 4 /\ ~ (Middle(extent, n) < 1)
  <2> DEFINE m == Middle(extent, 4)
             d == Deficit(extent, 4)
  <2>1. m \in Nat /\ m >= 1 /\ d \in Nat /\ extent = 4 * m + 4 + d
    BY <1>4 DEF Middle, Deficit, HALO
  <2>2. /\ Split(extent, 4, 0) = 0 /\ Split(extent, 4, 1) = m + 2 + d \div 2
        /\ Split(extent, 4, 2) = m + 2 + d \div 2 + m
        /\ Split(extent, 4, 3) = m + 2 + d \div 2 + 2 * m
        /\ Split(extent, 4, 4)
              = m + 2 + d \div 2 + 2 * m + (m + 2 + d - d \div 2)
    <3> HIDE DEF m, d
    <3> QED
      BY <1>4, <2>1 DEF Split, HALO, m, d
  <2>3. d \div 2 \in Nat /\ d \div 2 <= d
    BY <2>1
  <2>4. \A i \in 0 .. 4 : i = 0 \/ i = 1 \/ i = 2 \/ i = 3 \/ i = 4
    OBVIOUS
  <2> HIDE DEF m, d
  <2> QED
    BY <1>4, <2>1, <2>2, <2>3, <2>4
<1> QED
  BY <1>1, <1>2, <1>3, <1>4 DEF Parts

(* A coordinate is in exactly one strip of its axis.                       *)
LEMMA OneStrip ==
    ASSUME NEW extent \in Nat \ {0}, NEW n \in Parts, NEW v \in 0 .. extent - 1
    PROVE  \E i \in 0 .. n - 1 :
              /\ In(v, Strip(extent, n, i))
              /\ \A j \in 0 .. n - 1 : In(v, Strip(extent, n, j)) => j = i
<1> DEFINE S(i) == Split(extent, n, i)
<1>1. /\ S(0) = 0 /\ S(n) = extent
      /\ \A i \in 0 .. n : S(i) \in 0 .. extent
      /\ \A i \in 0 .. n - 1 : S(i) <= S(i + 1)
  BY Boundaries
<1>2. \A i \in 0 .. n - 1 :
         In(v, Strip(extent, n, i)) <=> S(i) <= v /\ v < S(i + 1)
  BY DEF In, Strip
<1> HIDE DEF S
<1>3. \E i \in 0 .. n - 1 :
         /\ S(i) <= v /\ v < S(i + 1)
         /\ \A j \in 0 .. n - 1 : S(j) <= v /\ v < S(j + 1) => j = i
  <2>1. CASE n = 1
    BY <1>1, <2>1
  <2>2. CASE n = 2
    BY <1>1, <2>2
  <2>3. CASE n = 4
    <3>1. /\ S(0) = 0 /\ S(4) = extent /\ S(1) \in Int /\ S(2) \in Int
          /\ S(3) \in Int /\ S(0) <= S(1) /\ S(1) <= S(2) /\ S(2) <= S(3)
          /\ S(3) <= S(4)
      BY <1>1, <2>3
    <3>2. \A j \in 0 .. 3 : j = 0 \/ j = 1 \/ j = 2 \/ j = 3
      OBVIOUS
    <3> QED
      BY <2>3, <3>1, <3>2
  <2> QED
    BY <2>1, <2>2, <2>3 DEF Parts
<1> QED
  BY <1>2, <1>3

(* The blocks are the pairs of a strip across and a strip down.            *)
LEMMA BlockOfStrips ==
    ASSUME NEW n \in {2, 4, 8}
    PROVE  /\ Down(n) \in Parts /\ Across(n) \in Parts
           /\ \A i \in 0 .. Across(n) - 1, j \in 0 .. Down(n) - 1 :
                 \E b \in 0 .. n - 1 : b \div Down(n) = i /\ b % Down(n) = j
           /\ \A b \in 0 .. n - 1 : /\ b \div Down(n) \in 0 .. Across(n) - 1
                                    /\ b % Down(n) \in 0 .. Down(n) - 1
           /\ \A b, c \in 0 .. n - 1 :
                 b \div Down(n) = c \div Down(n) /\ b % Down(n) = c % Down(n)
                    => b = c
<1>1. ASSUME NEW d \in Parts, n = 2 * d
      PROVE  /\ \A i \in 0 .. 1, j \in 0 .. d - 1 :
                   \E b \in 0 .. n - 1 : b \div d = i /\ b % d = j
             /\ \A b \in 0 .. n - 1 : b \div d \in 0 .. 1 /\ b % d \in 0 .. d - 1
             /\ \A b, c \in 0 .. n - 1 :
                   b \div d = c \div d /\ b % d = c % d => b = c
  <2>1. ASSUME NEW i \in 0 .. 1, NEW j \in 0 .. d - 1
        PROVE  \E b \in 0 .. n - 1 : b \div d = i /\ b % d = j
    <3>1. CASE d = 1
      <4> WITNESS i \in 0 .. n - 1
      <4> QED BY <1>1, <2>1, <3>1
    <3>2. CASE d = 2
      <4>1. 2 * i + j \in 0 .. n - 1
        BY <1>1, <2>1, <3>2
      <4> WITNESS 2 * i + j \in 0 .. n - 1
      <4> QED BY <2>1, <3>2
    <3>3. CASE d = 4
      <4>1. 4 * i + j \in 0 .. n - 1
        BY <1>1, <2>1, <3>3
      <4> WITNESS 4 * i + j \in 0 .. n - 1
      <4> QED BY <2>1, <3>3
    <3> QED
      BY <3>1, <3>2, <3>3 DEF Parts
  <2>2. ASSUME NEW b \in 0 .. n - 1
        PROVE  b \div d \in 0 .. 1 /\ b % d \in 0 .. d - 1
    BY <1>1 DEF Parts
  <2>3. ASSUME NEW b \in 0 .. n - 1, NEW c \in 0 .. n - 1,
               b \div d = c \div d, b % d = c % d
        PROVE  b = c
    BY <1>1, <2>3 DEF Parts
  <2> QED
    BY <2>1, <2>2, <2>3
<1>2. Across(n) = 2 /\ Down(n) \in Parts /\ n = 2 * Down(n)
  BY DEF Across, Down, Parts
<1>3. Across(n) \in Parts /\ Across(n) - 1 = 1
  BY <1>2 DEF Parts
<1>4. \A i \in 0 .. 1, j \in 0 .. Down(n) - 1 :
         \E b \in 0 .. n - 1 : b \div Down(n) = i /\ b % Down(n) = j
  BY <1>1, <1>2
<1>5. \A b \in 0 .. n - 1 :
         b \div Down(n) \in 0 .. 1 /\ b % Down(n) \in 0 .. Down(n) - 1
  BY <1>1, <1>2
<1>6. \A b, c \in 0 .. n - 1 :
         b \div Down(n) = c \div Down(n) /\ b % Down(n) = c % Down(n) => b = c
  BY <1>1, <1>2
<1> QED
  BY <1>2, <1>3, <1>4, <1>5, <1>6

(* Whatever way the extents divide, a cell of the grid has one owner: its  *)
(* events make no prediction twice and none is left without a block        *)
(* (grid_topology: "owned cells are disjoint").                            *)
THEOREM OneOwner ==
    ASSUME NEW g \in Grid,
           NEW cell \in [x : 0 .. g.W2 - 1, y : 0 .. g.H2 - 1]
    PROVE  \E b \in 0 .. g.n - 1 :
              /\ Owns(g, b, cell)
              /\ \A c \in 0 .. g.n - 1 : Owns(g, c, cell) => c = b
<1>1. /\ g.W2 \in Nat \ {0} /\ g.H2 \in Nat \ {0} /\ g.n \in {2, 4, 8}
      /\ cell.x \in 0 .. g.W2 - 1 /\ cell.y \in 0 .. g.H2 - 1
  BY DEF Grid
<1>2. Down(g.n) \in Parts /\ Across(g.n) \in Parts
  BY <1>1, BlockOfStrips
<1>3. PICK i \in 0 .. Across(g.n) - 1 :
         /\ In(cell.x, Strip(g.W2, Across(g.n), i))
         /\ \A k \in 0 .. Across(g.n) - 1 :
               In(cell.x, Strip(g.W2, Across(g.n), k)) => k = i
  BY <1>1, <1>2, OneStrip
<1>4. PICK j \in 0 .. Down(g.n) - 1 :
         /\ In(cell.y, Strip(g.H2, Down(g.n), j))
         /\ \A k \in 0 .. Down(g.n) - 1 :
               In(cell.y, Strip(g.H2, Down(g.n), k)) => k = j
  BY <1>1, <1>2, OneStrip
<1>5. PICK b \in 0 .. g.n - 1 : b \div Down(g.n) = i /\ b % Down(g.n) = j
  BY <1>1, BlockOfStrips
<1>6. Owns(g, b, cell)
  BY <1>3, <1>4, <1>5 DEF Owns, OwnedX, OwnedY
<1>7. ASSUME NEW c \in 0 .. g.n - 1, Owns(g, c, cell)
      PROVE  c = b
  <2>1. /\ c \div Down(g.n) \in 0 .. Across(g.n) - 1
        /\ c % Down(g.n) \in 0 .. Down(g.n) - 1
    BY <1>1, BlockOfStrips
  <2>2. c \div Down(g.n) = i /\ c % Down(g.n) = j
    BY <1>3, <1>4, <1>7, <2>1 DEF Owns, OwnedX, OwnedY
  <2> QED
    BY <1>1, <1>5, <2>2, BlockOfStrips
<1> QED
  BY <1>6, <1>7

(* The halo is wide enough for stage 2: the owner of a cell processes the  *)
(* events of every cell of the grid within HALO of it, in particular its   *)
(* own and those that update its 3x3 patch.                                *)
THEOREM HaloReaches ==
    ASSUME NEW g \in Grid, NEW b \in 0 .. g.n - 1,
           NEW cell \in [x : 0 .. g.W2 - 1, y : 0 .. g.H2 - 1], Owns(g, b, cell),
           NEW near \in [x : 0 .. g.W2 - 1, y : 0 .. g.H2 - 1],
           near.x - cell.x \in -HALO .. HALO,
           near.y - cell.y \in -HALO .. HALO
    PROVE  Processes(g, b, near)
<1>1. ASSUME NEW extent \in Nat, NEW range \in [lo : Int, hi : Int],
             NEW v \in 0 .. extent - 1, In(v, range),
             NEW u \in 0 .. extent - 1, u - v \in -HALO .. HALO
      PROVE  In(u, Widened(range, extent))
  BY <1>1 DEF In, Widened, HALO
<1>2. /\ g.W2 \in Nat \ {0} /\ g.H2 \in Nat \ {0} /\ g.n \in {2, 4, 8}
      /\ cell.x \in 0 .. g.W2 - 1 /\ cell.y \in 0 .. g.H2 - 1
      /\ near.x \in 0 .. g.W2 - 1 /\ near.y \in 0 .. g.H2 - 1
  BY DEF Grid
<1>3. ASSUME NEW extent \in Nat \ {0}, NEW n \in Parts, NEW i \in 0 .. n - 1
      PROVE  Strip(extent, n, i) \in [lo : Int, hi : Int]
  <2>1. n \in Nat
    BY DEF Parts
  <2>2. i \in 0 .. n /\ i + 1 \in 0 .. n
    BY <2>1
  <2>3. Split(extent, n, i) \in 0 .. extent /\ Split(extent, n, i + 1) \in 0 .. extent
    BY <2>2, Boundaries
  <2> QED
    BY <2>3 DEF Strip
<1>4. OwnedX(g, b) \in [lo : Int, hi : Int] /\ OwnedY(g, b) \in [lo : Int, hi : Int]
  BY <1>2, <1>3, BlockOfStrips DEF OwnedX, OwnedY
<1>5. In(cell.x, OwnedX(g, b)) /\ In(cell.y, OwnedY(g, b))
  BY DEF Owns
<1>6. In(near.x, Widened(OwnedX(g, b), g.W2))
  BY <1>1, <1>2, <1>4, <1>5
<1>7. In(near.y, Widened(OwnedY(g, b), g.H2))
  BY <1>1, <1>2, <1>4, <1>5
<1> QED
  BY <1>6, <1>7 DEF Processes

-----------------------------------------------------------------------------
(* The s3 cells of the blocks.                                             *)

LEMMA StripsInOrder ==
    ASSUME NEW extent \in Nat \ {0}, NEW n \in Parts,
           NEW i \in 0 .. n - 1, NEW j \in 0 .. n - 1
    PROVE  /\ Strip(extent, n, i).lo \in 0 .. extent
           /\ Strip(extent, n, i).hi \in 0 .. extent
           /\ Strip(extent, n, i).lo <= Strip(extent, n, i).hi
           /\ i < j => Strip(extent, n, i).hi <= Strip(extent, n, j).lo
<1> DEFINE S(k) == Split(extent, n, k)
<1>1. /\ \A k \in 0 .. n : S(k) \in 0 .. extent
      /\ \A k \in 0 .. n - 1 : S(k) <= S(k + 1)
  BY Boundaries
<1>2. \A k \in 0 .. n - 1 : Strip(extent, n, k).lo = S(k) /\ Strip(extent, n, k).hi = S(k + 1)
  BY DEF Strip
<1> HIDE DEF S
<1>3. n \in {1, 2, 4}
  BY DEF Parts
<1>4. i < j => S(i + 1) <= S(j)
  <2>1. CASE n = 1
    BY <2>1
  <2>2. CASE n = 2
    BY <1>1, <2>2
  <2>3. CASE n = 4
    <3>1. S(1) <= S(2) /\ S(2) <= S(3) /\ S(1) \in Int /\ S(2) \in Int /\ S(3) \in Int
      BY <1>1, <2>3
    <3>2. /\ i = 0 \/ i = 1 \/ i = 2 \/ i = 3
          /\ j = 0 \/ j = 1 \/ j = 2 \/ j = 3
      BY <2>3
    <3> QED  BY <3>1, <3>2
  <2> QED  BY <1>3, <2>1, <2>2, <2>3
<1>5. n \in Nat /\ i \in 0 .. n /\ i + 1 \in 0 .. n
  BY <1>3
<1> QED  BY <1>1, <1>2, <1>4, <1>5

LEMMA S3Ranges ==
    ASSUME NEW g \in Grid, NEW b \in 0 .. g.n - 1
    PROVE  \A r \in {OwnedX(g, b), OwnedY(g, b)} :
              r.lo \in Nat /\ r.hi \in Nat /\ r.lo <= r.hi
<1>1. /\ g.W2 \in Nat \ {0} /\ g.H2 \in Nat \ {0} /\ g.n \in {2, 4, 8}
  BY DEF Grid
<1>2. /\ Down(g.n) \in Parts /\ Across(g.n) \in Parts
      /\ b \div Down(g.n) \in 0 .. Across(g.n) - 1 /\ b % Down(g.n) \in 0 .. Down(g.n) - 1
  BY <1>1, BlockOfStrips
<1>3. OwnedX(g, b).lo \in Nat /\ OwnedX(g, b).hi \in Nat /\ OwnedX(g, b).lo <= OwnedX(g, b).hi
  BY <1>1, <1>2, StripsInOrder DEF OwnedX
<1>4. OwnedY(g, b).lo \in Nat /\ OwnedY(g, b).hi \in Nat /\ OwnedY(g, b).lo <= OwnedY(g, b).hi
  BY <1>1, <1>2, StripsInOrder DEF OwnedY
<1> QED  BY <1>3, <1>4

(* No s3 cell belongs to the predictions of two blocks, odd boundaries     *)
(* included: halving both ends keeps the ranges apart.                     *)
THEOREM OnePredictor ==
    ASSUME NEW g \in Grid, NEW b \in 0 .. g.n - 1, NEW c \in 0 .. g.n - 1,
           NEW cell \in [x : Nat, y : Nat],
           HasPrediction(g, b, cell), HasPrediction(g, c, cell)
    PROVE  b = c
<1>1. /\ g.W2 \in Nat \ {0} /\ g.H2 \in Nat \ {0} /\ g.n \in {2, 4, 8}
      /\ cell.x \in Nat /\ cell.y \in Nat
  BY DEF Grid
<1>2. ASSUME NEW extent \in Nat \ {0}, NEW n \in Parts, NEW v \in Nat,
             NEW i \in 0 .. n - 1, NEW j \in 0 .. n - 1,
             In(v, Halved(Strip(extent, n, i))), In(v, Halved(Strip(extent, n, j)))
      PROVE  i = j
  <2> DEFINE p == Strip(extent, n, i)
             q == Strip(extent, n, j)
  <2>1. /\ p.lo \in Nat /\ p.hi \in Nat /\ q.lo \in Nat /\ q.hi \in Nat
        /\ i < j => p.hi <= q.lo
        /\ j < i => q.hi <= p.lo
    BY StripsInOrder
  <2>2. /\ p.lo \div 2 <= v /\ v < p.hi \div 2
        /\ q.lo \div 2 <= v /\ v < q.hi \div 2
    BY <1>2 DEF In, Halved
  <2> HIDE DEF p, q
  <2>3. i \in Int /\ j \in Int
    BY DEF Parts
  <2> QED  BY <2>1, <2>2, <2>3
<1>3. /\ Down(g.n) \in Parts /\ Across(g.n) \in Parts
      /\ b \div Down(g.n) \in 0 .. Across(g.n) - 1 /\ b % Down(g.n) \in 0 .. Down(g.n) - 1
      /\ c \div Down(g.n) \in 0 .. Across(g.n) - 1 /\ c % Down(g.n) \in 0 .. Down(g.n) - 1
  BY <1>1, BlockOfStrips
<1>4. b \div Down(g.n) = c \div Down(g.n)
  BY <1>1, <1>2, <1>3 DEF HasPrediction, S3X, OwnedX
<1>5. b % Down(g.n) = c % Down(g.n)
  BY <1>1, <1>2, <1>3 DEF HasPrediction, S3Y, OwnedY
<1> QED  BY <1>1, <1>4, <1>5, BlockOfStrips

LEMMA RowMajor ==
    ASSUME NEW width \in Nat, NEW height \in Nat,
           NEW r \in 0 .. height - 1, NEW c \in 0 .. width - 1
    PROVE  /\ r * width + c \in Nat
           /\ r * width + c < height * width
           /\ \A s \in 0 .. height - 1, d \in 0 .. width - 1 :
                 r * width + c = s * width + d => r = s /\ c = d
<1>1. ASSUME NEW m \in Nat, NEW k \in Nat, m < k PROVE m * width + width <= k * width
  <2>1. PICK t \in Nat : k = m + 1 + t
    <3>1. k = m + 1 + (k - m - 1) /\ k - m - 1 \in Nat
      BY <1>1
    <3> QED  BY <3>1
  <2>2. k * width = m * width + width + t * width
    BY <2>1
  <2>3. t * width \in Nat /\ m * width \in Nat /\ k * width \in Nat
    OBVIOUS
  <2> QED  BY <2>2, <2>3
<1>2. r \in Nat /\ c \in Nat /\ c < width /\ r < height /\ r * width \in Nat /\ height * width \in Nat
  OBVIOUS
<1>3. r * width + c < height * width
  BY <1>1, <1>2
<1>4. ASSUME NEW s \in 0 .. height - 1, NEW d \in 0 .. width - 1,
             r * width + c = s * width + d
      PROVE  r = s /\ c = d
  <2>1. s \in Nat /\ d \in Nat /\ d < width /\ s * width \in Nat
    OBVIOUS
  <2>2. r < s => r * width + width <= s * width
    BY <1>1, <1>2, <2>1
  <2>3. s < r => s * width + width <= r * width
    BY <1>1, <1>2, <2>1
  <2>4. r = s
    BY <1>2, <1>4, <2>1, <2>2, <2>3
  <2> QED  BY <1>2, <1>4, <2>1, <2>4
<1> QED  BY <1>2, <1>3, <1>4

(* Within a block, two s3 cells have two places in the prediction buffer.  *)
THEOREM OwnPlace ==
    ASSUME NEW g \in Grid, NEW b \in 0 .. g.n - 1,
           NEW cell \in [x : Nat, y : Nat], HasPrediction(g, b, cell)
    PROVE  /\ PredictionIndex(g, b, cell) \in Nat
           /\ PredictionIndex(g, b, cell) < Size(S3Y(g, b)) * Size(S3X(g, b))
           /\ \A other \in [x : Nat, y : Nat] :
                 HasPrediction(g, b, other)
                 /\ PredictionIndex(g, b, other) = PredictionIndex(g, b, cell)
                    => other.x = cell.x /\ other.y = cell.y
<1> DEFINE X == S3X(g, b)
           Y == S3Y(g, b)
<1>1. /\ X.lo \in Nat /\ X.hi \in Nat /\ X.lo <= X.hi
      /\ Y.lo \in Nat /\ Y.hi \in Nat /\ Y.lo <= Y.hi
  <2>1. ASSUME NEW r, r.lo \in Nat, r.hi \in Nat, r.lo <= r.hi
        PROVE  Halved(r).lo \in Nat /\ Halved(r).hi \in Nat /\ Halved(r).lo <= Halved(r).hi
    BY <2>1 DEF Halved
  <2> QED  BY <2>1, S3Ranges DEF S3X, S3Y
<1>2. \A other \in [x : Nat, y : Nat] : HasPrediction(g, b, other) =>
         /\ other.x - X.lo \in 0 .. Size(X) - 1 /\ other.y - Y.lo \in 0 .. Size(Y) - 1
         /\ PredictionIndex(g, b, other) = (other.y - Y.lo) * Size(X) + (other.x - X.lo)
  BY <1>1 DEF HasPrediction, In, Size, PredictionIndex
<1>3. Size(X) \in Nat /\ Size(Y) \in Nat
  BY <1>1 DEF Size
<1>4. Size(S3Y(g, b)) * Size(S3X(g, b)) = Size(Y) * Size(X)
  OBVIOUS
<1> HIDE DEF X, Y
<1>5. /\ cell.x - X.lo \in 0 .. Size(X) - 1 /\ cell.y - Y.lo \in 0 .. Size(Y) - 1
      /\ PredictionIndex(g, b, cell) = (cell.y - Y.lo) * Size(X) + (cell.x - X.lo)
  BY <1>2
<1>6. ASSUME NEW other \in [x : Nat, y : Nat], HasPrediction(g, b, other),
             PredictionIndex(g, b, other) = PredictionIndex(g, b, cell)
      PROVE  other.x = cell.x /\ other.y = cell.y
  <2>1. /\ other.x - X.lo \in 0 .. Size(X) - 1 /\ other.y - Y.lo \in 0 .. Size(Y) - 1
        /\ PredictionIndex(g, b, other) = (other.y - Y.lo) * Size(X) + (other.x - X.lo)
    BY <1>2, <1>6
  <2>2. cell.y - Y.lo = other.y - Y.lo /\ cell.x - X.lo = other.x - X.lo
    BY <1>3, <1>5, <1>6, <2>1, RowMajor
  <2> QED  BY <1>1, <2>2
<1> QED  BY <1>3, <1>4, <1>5, <1>6, RowMajor

(* With even boundaries every owned event has its cell, and the cell lies  *)
(* within the buffer that alloc_predictions_n_block sizes from the halved  *)
(* extents rather than the halved ends.                                    *)
THEOREM EvenBlock ==
    ASSUME NEW g \in Grid, NEW b \in 0 .. g.n - 1,
           \A r \in {OwnedX(g, b), OwnedY(g, b)} : r.lo % 2 = 0 /\ r.hi % 2 = 0,
           NEW cell \in [x : Nat, y : Nat]
    PROVE  /\ Owns(g, b, cell) =>
                 HasPrediction(g, b, [x |-> cell.x \div 2, y |-> cell.y \div 2])
           /\ HasPrediction(g, b, cell) =>
                 PredictionIndex(g, b, cell) < PredictionCells(g, b)
<1>1. \A r \in {OwnedX(g, b), OwnedY(g, b)} : 
         r.lo \in Nat /\ r.hi \in Nat /\ r.lo <= r.hi /\ r.lo % 2 = 0 /\ r.hi % 2 = 0
  BY S3Ranges
<1>2. ASSUME NEW r, r.lo \in Nat, r.hi \in Nat, r.lo <= r.hi, r.lo % 2 = 0, r.hi % 2 = 0,
             NEW v \in Nat
      PROVE  /\ In(v, r) => In(v \div 2, Halved(r))
             /\ Size(Halved(r)) = Size(r) \div 2
             /\ Size(r) \div 2 \in Nat
  BY <1>2 DEF In, Halved, Size
<1>3. cell.x \in Nat /\ cell.y \in Nat
  OBVIOUS
<1>4. Owns(g, b, cell) => HasPrediction(g, b, [x |-> cell.x \div 2, y |-> cell.y \div 2])
  <2>1. In(cell.x, OwnedX(g, b)) => In(cell.x \div 2, S3X(g, b))
    BY <1>1, <1>2, <1>3 DEF S3X
  <2>2. In(cell.y, OwnedY(g, b)) => In(cell.y \div 2, S3Y(g, b))
    BY <1>1, <1>2, <1>3 DEF S3Y
  <2> QED  BY <2>1, <2>2 DEF Owns, HasPrediction
<1>5. HasPrediction(g, b, cell) => PredictionIndex(g, b, cell) < PredictionCells(g, b)
  <2> SUFFICES ASSUME HasPrediction(g, b, cell)
               PROVE  PredictionIndex(g, b, cell) < PredictionCells(g, b)
    OBVIOUS
  <2> DEFINE w == Size(OwnedX(g, b)) \div 2
             h == Size(OwnedY(g, b)) \div 2
  <2>1. Size(S3X(g, b)) = w /\ w \in Nat
    BY <1>1, <1>2 DEF S3X
  <2>2. Size(S3Y(g, b)) = h /\ h \in Nat
    BY <1>1, <1>2 DEF S3Y
  <2>3. PredictionIndex(g, b, cell) \in Nat /\ PredictionIndex(g, b, cell) < h * w
    BY <2>1, <2>2, OwnPlace
  <2>4. PredictionCells(g, b) = IF w * h < 1 THEN 1 ELSE w * h
    BY DEF PredictionCells
  <2> HIDE DEF w, h
  <2>5. h * w = w * h /\ w * h \in Nat
    BY <2>1, <2>2
  <2> QED  BY <2>3, <2>4, <2>5
<1> QED  BY <1>4, <1>5
-------------------------------------------------------------------------------
(* The routing: the inductive invariant.                                   *)

\* What a block has been sent, in order: processed or still in its ring.
Line(b) == done[b] \o ring[b]

\* A worker at this place has still to offer event e to block b.
Ahead(place, e, b) == place.event = e /\ place.block <= b

\* An event lies on the grid, and its worker has pushed no later one while it
\* is at it.
EventsOnGrid ==
    /\ \A e \in 1 .. Len(event) :
          event[e].x \in 0 .. grid.W2 - 1 /\ event[e].y \in 0 .. grid.H2 - 1
    /\ \A w \in Worker : at[w].event # 0 =>
          /\ event[at[w].event].worker = w
          /\ \A n \in 1 .. Len(event) :
                event[n].worker = w => n <= at[w].event

\* A block has been sent the events it processes and no others, save those the
\* push loop has not yet brought to it.
Sent ==
    \A b \in Blocks, e \in 1 .. Len(event) :
        e \in Elements(Line(b)) <=>
            Processes(grid, b, event[e]) /\ ~Ahead(at[event[e].worker], e, b)

\* A block is sent the events of a worker in their order.
InOrder ==
    \A b \in Blocks : \A i, j \in 1 .. Len(Line(b)) :
        i < j /\ event[Line(b)[i]].worker = event[Line(b)[j]].worker
            => Line(b)[i] < Line(b)[j]

\* A prediction lies in a cell of its block, at that cell's place.
WrittenInBlock ==
    \A v \in written : /\ HasPrediction(grid, v.block, v)
                       /\ v.index = PredictionIndex(grid, v.block, v)

\* An event timed as a prediction has an owner, which wrote it if it has the
\* cell.
ProducedByOwner ==
    \A e \in produced : \E b \in Blocks :
        /\ Owns(grid, b, event[e])
        /\ HasPrediction(grid, b, [x |-> event[e].x \div 2, y |-> event[e].y \div 2])
              => \E v \in written : v.event = e

(* The inductive invariant.                                                *)
RoutingInv ==
    TypeOK /\ EventsOnGrid /\ Sent /\ InOrder /\ WrittenInBlock /\ ProducedByOwner
-------------------------------------------------------------------------------
(* Two sequences, one after the other.                                     *)

LEMMA SameElements ==
    ASSUME NEW S, NEW s \in Seq(S), NEW t \in Seq(S)
    PROVE  Elements(s \o t) = Elements(t \o s)
<1>1. ASSUME NEW u \in Seq(S), NEW v \in Seq(S), NEW x \in Elements(u \o v)
      PROVE  x \in Elements(v \o u)
  <2>1. Len(u) \in Nat /\ Len(v) \in Nat
    BY LenProperties
  <2>2. /\ Len(u \o v) = Len(u) + Len(v)
        /\ \A i \in 1 .. Len(u) + Len(v) :
              (u \o v)[i] = IF i <= Len(u) THEN u[i] ELSE v[i - Len(u)]
    BY ConcatProperties
  <2>3. /\ Len(v \o u) = Len(v) + Len(u)
        /\ \A i \in 1 .. Len(v) + Len(u) :
              (v \o u)[i] = IF i <= Len(v) THEN v[i] ELSE u[i - Len(v)]
    BY ConcatProperties
  <2>4. PICK i \in 1 .. Len(u) + Len(v) : x = (u \o v)[i]
    BY <1>1, <2>2 DEF Elements
  <2>5. CASE i <= Len(u)
    <3>1. /\ Len(v) + i \in 1 .. Len(v) + Len(u) /\ ~(Len(v) + i <= Len(v))
          /\ (Len(v) + i) - Len(v) = i
      BY <2>1, <2>4, <2>5
    <3>2. (v \o u)[Len(v) + i] = x
      BY <2>2, <2>3, <2>4, <2>5, <3>1
    <3> QED  BY <2>3, <3>1, <3>2 DEF Elements
  <2>6. CASE ~(i <= Len(u))
    <3>1. i - Len(u) \in 1 .. Len(v) + Len(u) /\ i - Len(u) <= Len(v)
      BY <2>1, <2>4, <2>6
    <3>2. (v \o u)[i - Len(u)] = x
      BY <2>2, <2>3, <2>4, <2>6, <3>1
    <3> QED  BY <2>3, <3>1, <3>2 DEF Elements
  <2> QED  BY <2>5, <2>6
<1> QED  BY <1>1

LEMMA ElementsInSet ==
    ASSUME NEW S, NEW s \in Seq(S)
    PROVE  Elements(s) \subseteq S
BY ElementOfSeq DEF Elements

LEMMA ElementsOfAppend ==
    ASSUME NEW S, NEW s \in Seq(S), NEW e \in S
    PROVE  Elements(Append(s, e)) = Elements(s) \cup {e}
<1>1. /\ Len(s) \in Nat /\ Len(Append(s, e)) = Len(s) + 1
      /\ \A i \in 1 .. Len(s) : Append(s, e)[i] = s[i]
      /\ Append(s, e)[Len(s) + 1] = e
  BY AppendProperties, LenProperties
<1>2. 1 .. Len(s) + 1 = 1 .. Len(s) \cup {Len(s) + 1}
  BY <1>1
<1> QED  BY <1>1, <1>2 DEF Elements

LEMMA FirstPart ==
    ASSUME NEW S, NEW s \in Seq(S), NEW t \in Seq(S), NEW i \in 1 .. Len(s)
    PROVE  (s \o t)[i] = s[i]
<1>1. Len(s) \in Nat /\ Len(t) \in Nat
  BY LenProperties
<1>2. i \in 1 .. Len(s) + Len(t) /\ i <= Len(s)
  BY <1>1
<1> QED  BY <1>2, ConcatProperties

LEMMA AppendToSecond ==
    ASSUME NEW S, NEW s \in Seq(S), NEW t \in Seq(S), NEW e \in S
    PROVE  s \o Append(t, e) = Append(s \o t, e)
<1>1. /\ Append(t, e) = t \o <<e>> /\ <<e>> \in Seq(S)
      /\ s \o t \in Seq(S) /\ Append(s \o t, e) = (s \o t) \o <<e>>
  <2>1. \A u \in Seq(S) : Append(u, e) = u \o <<e>>
    BY AppendIsConcat
  <2>2. s \o t \in Seq(S)
    BY ConcatProperties
  <2>3. Append(<< >>, e) \in Seq(S) /\ << >> \in Seq(S)
    BY AppendProperties, EmptySeq
  <2>4. <<e>> \in Seq(S)
    BY <2>3
  <2> QED  BY <2>1, <2>2, <2>4
<1> QED  BY <1>1, ConcatAssociative

LEMMA MoveHead ==
    ASSUME NEW S, NEW s \in Seq(S), NEW t \in Seq(S), t # << >>
    PROVE  Append(s, Head(t)) \o Tail(t) = s \o t
<1> DEFINE e == Head(t)
           u == Append(s, e)
           v == Tail(t)
<1>1. /\ e \in S /\ e = t[1] /\ v \in Seq(S) /\ Len(v) = Len(t) - 1
      /\ \A i \in 1 .. Len(v) : v[i] = t[i + 1]
  BY HeadTailProperties
<1> HIDE DEF e, v
<1>2. /\ u \in Seq(S) /\ Len(u) = Len(s) + 1
      /\ \A i \in 1 .. Len(s) : u[i] = s[i]
      /\ u[Len(s) + 1] = e
  BY <1>1, AppendProperties
<1> HIDE DEF u
<1>3. Len(s) \in Nat /\ Len(t) \in Nat /\ Len(t) > 0
  BY LenProperties, EmptySeq
<1>4. /\ u \o v \in Seq(S) /\ Len(u \o v) = Len(u) + Len(v)
      /\ \A i \in 1 .. Len(u) + Len(v) :
            (u \o v)[i] = IF i <= Len(u) THEN u[i] ELSE v[i - Len(u)]
  BY <1>1, <1>2, ConcatProperties
<1>5. /\ s \o t \in Seq(S) /\ Len(s \o t) = Len(s) + Len(t)
      /\ \A i \in 1 .. Len(s) + Len(t) :
            (s \o t)[i] = IF i <= Len(s) THEN s[i] ELSE t[i - Len(s)]
  BY ConcatProperties
<1>6. Len(u \o v) = Len(s \o t)
  BY <1>1, <1>2, <1>3, <1>4, <1>5
<1>7. ASSUME NEW i \in 1 .. Len(s) + Len(t) PROVE (u \o v)[i] = (s \o t)[i]
  <2>1. CASE i <= Len(s)
    BY <1>1, <1>2, <1>3, <1>4, <1>5, <2>1
  <2>2. CASE i = Len(s) + 1
    <3>1. i <= Len(u) /\ i \in 1 .. Len(u) + Len(v) /\ i - Len(s) = 1 /\ ~(i <= Len(s))
      BY <1>1, <1>2, <1>3, <2>2
    <3>2. (u \o v)[i] = u[i] /\ (s \o t)[i] = t[1]
      BY <1>4, <1>5, <3>1
    <3> QED  BY <1>1, <1>2, <2>2, <3>2
  <2>3. CASE i > Len(s) + 1
    <3>1. i - (Len(s) + 1) \in 1 .. Len(v) /\ i = Len(s) + 1 + (i - (Len(s) + 1))
      BY <1>1, <1>3, <2>3
    <3>2. PICK k \in 1 .. Len(v) : i = Len(s) + 1 + k
      BY <3>1
    <3>3. /\ i - Len(u) = k /\ ~(i <= Len(u)) /\ i \in 1 .. Len(u) + Len(v)
          /\ i - Len(s) = k + 1 /\ ~(i <= Len(s))
      BY <1>1, <1>2, <1>3, <3>2
    <3>4. (u \o v)[i] = v[k] /\ (s \o t)[i] = t[k + 1]
      BY <1>4, <1>5, <3>3
    <3> QED  BY <1>1, <3>4
  <2>4. i <= Len(s) \/ i = Len(s) + 1 \/ i > Len(s) + 1
    BY <1>3
  <2> QED  BY <2>1, <2>2, <2>3, <2>4
<1>8. u \o v = s \o t
  BY <1>4, <1>5, <1>6, <1>7, SeqEqual
<1> QED  BY <1>8 DEF u, v, e

LEMMA GridFacts ==
    ASSUME grid \in Grids
    PROVE  /\ grid \in Grid
           /\ grid.W2 \in Nat \ {0} /\ grid.H2 \in Nat \ {0} /\ grid.n \in {2, 4, 8}
           /\ 0 \in Blocks
           /\ \A b \in Blocks : b \in Nat
           /\ \A b \in Blocks : ~LastBlock(b) => b + 1 \in Blocks
           /\ \A b, c \in Blocks : LastBlock(b) => c <= b
BY GridsAssumption DEF Grid, Blocks, LastBlock

LEMMA InitTypes == Init => TypeOK
<1> SUFFICES ASSUME Init PROVE TypeOK
  OBVIOUS
<1>1. /\ event \in Seq([x : Nat, y : Nat, worker : Worker]) /\ Len(event) = 0
      /\ \A b \in Blocks : ring[b] \in Seq(1 .. 0) /\ done[b] \in Seq(1 .. 0)
  BY EmptySeq DEF Init
<1>2. 0 \in Blocks
  BY GridFacts DEF Init
<1> QED  BY <1>1, <1>2 DEF Init, TypeOK, NoEvent

LEMMA NextTypes == TypeOK /\ [Next]_vars => TypeOK'
<1> SUFFICES ASSUME TypeOK, [Next]_vars PROVE TypeOK'
  OBVIOUS
<1>1. /\ grid \in Grids /\ Len(event) \in Nat
      /\ event \in Seq([x : Nat, y : Nat, worker : Worker])
      /\ grid.W2 \in Nat /\ grid.H2 \in Nat
  BY GridFacts DEF TypeOK
<1>2. ASSUME NEW w \in Worker, NEW c \in Cells, Survive(w, c) PROVE TypeOK'
  <2> DEFINE e == [x |-> c.x, y |-> c.y, worker |-> w]
  <2>1. e \in [x : Nat, y : Nat, worker : Worker]
    BY <1>1 DEF Cells
  <2>2. event' = Append(event, e)
    BY <1>2 DEF Survive
  <2> HIDE DEF e
  <2>3. event' \in Seq([x : Nat, y : Nat, worker : Worker])
        /\ Len(event') = Len(event) + 1
    BY <1>1, <2>1, <2>2, AppendProperties
  <2>4. 1 .. Len(event) \subseteq 1 .. Len(event') /\ 0 .. Len(event) \subseteq 0 .. Len(event')
    BY <1>1, <2>3
  <2>5. \A b \in Blocks : ring[b] \in Seq(1 .. Len(event')) /\ done[b] \in Seq(1 .. Len(event'))
    <3>1. \A s \in Seq(1 .. Len(event)) : s \in Seq(1 .. Len(event'))
      BY <2>4, SeqMonotonic
    <3> QED  BY <3>1 DEF TypeOK
  <2>6. at' \in [Worker -> [event : 0 .. Len(event'), block : Blocks]]
    BY <1>1, <1>2, <2>3, <2>4, GridFacts DEF TypeOK, Survive
  <2>7. ring' \in [Blocks -> Seq(1 .. Len(event'))] /\ done' \in [Blocks -> Seq(1 .. Len(event'))]
    BY <1>2, <2>5 DEF Survive, TypeOK
  <2>8. Blocks' = Blocks
    BY <1>2 DEF Survive, Blocks
  <2>9. produced' \subseteq 1 .. Len(event')
    BY <1>2, <2>4 DEF Survive, TypeOK
  <2>10. written' \subseteq [event : 1 .. Len(event'), block : Blocks, x : Nat, y : Nat, index : Nat]
    BY <1>2, <2>4 DEF Survive, TypeOK
  <2>11. grid' \in Grids
    BY <1>1, <1>2 DEF Survive
  <2> QED  BY <2>3, <2>6, <2>7, <2>8, <2>9, <2>10, <2>11 DEF TypeOK
<1>3. ASSUME NEW w \in Worker, PushTo(w) PROVE TypeOK'
  <2> DEFINE e == at[w].event
             b == at[w].block
  <2>1. e \in 1 .. Len(event) /\ b \in Blocks
    BY <1>1, <1>3 DEF PushTo, TypeOK
  <2>2. at' = [at EXCEPT ![w] = IF LastBlock(b) THEN NoEvent ELSE [event |-> e, block |-> b + 1]]
    BY <1>3 DEF PushTo
  <2>3. ring' = ring \/ ring' = [ring EXCEPT ![b] = Append(ring[b], e)]
    BY <1>3 DEF PushTo
  <2>4. UNCHANGED <<grid, event, done, produced, written>> /\ Blocks' = Blocks
    BY <1>3 DEF PushTo, Blocks
  <2> HIDE DEF e, b
  <2>5. at' \in [Worker -> [event : 0 .. Len(event), block : Blocks]]
    <3>1. NoEvent \in [event : 0 .. Len(event), block : Blocks]
      BY <1>1, GridFacts DEF NoEvent
    <3>2. ~LastBlock(b) => [event |-> e, block |-> b + 1] \in [event : 0 .. Len(event), block : Blocks]
      BY <1>1, <2>1, GridFacts
    <3> QED  BY <2>2, <3>1, <3>2 DEF TypeOK
  <2>6. Append(ring[b], e) \in Seq(1 .. Len(event))
    BY <2>1, AppendProperties DEF TypeOK
  <2>7. ring' \in [Blocks -> Seq(1 .. Len(event))]
    BY <2>1, <2>3, <2>6 DEF TypeOK
  <2> QED  BY <2>4, <2>5, <2>7 DEF TypeOK
<1>4. ASSUME NEW b \in Blocks, NEW pass \in BOOLEAN, ProcessEvent(b, pass) PROVE TypeOK'
  <2> DEFINE e == Head(ring[b])
             s3 == [x |-> event[e].x \div 2, y |-> event[e].y \div 2]
             record == [event |-> e, block |-> b, x |-> s3.x, y |-> s3.y,
                        index |-> PredictionIndex(grid, b, s3)]
  <2>1. e \in 1 .. Len(event) /\ Tail(ring[b]) \in Seq(1 .. Len(event))
    BY <1>4, HeadTailProperties DEF ProcessEvent, TypeOK
  <2>2. Append(done[b], e) \in Seq(1 .. Len(event))
    BY <2>1, AppendProperties DEF TypeOK
  <2>3. ring' = [ring EXCEPT ![b] = Tail(ring[b])] /\ done' = [done EXCEPT ![b] = Append(done[b], e)]
    BY <1>4 DEF ProcessEvent, TakeOldest
  <2>4. ring' \in [Blocks -> Seq(1 .. Len(event))] /\ done' \in [Blocks -> Seq(1 .. Len(event))]
    BY <2>1, <2>2, <2>3 DEF TypeOK
  <2>5. produced' = produced \/ produced' = produced \cup {e}
    BY <1>4 DEF ProcessEvent, TakeOldest
  <2>6. \/ written' = written
        \/ HasPrediction(grid, b, s3) /\ written' = written \cup {record}
    BY <1>4 DEF ProcessEvent, TakeOldest
  <2>7. UNCHANGED <<grid, event, at>> /\ Blocks' = Blocks
    BY <1>4 DEF ProcessEvent, Blocks
  <2>8. event[e] \in [x : Nat, y : Nat, worker : Worker]
    BY <2>1, ElementOfSeq DEF TypeOK
  <2>9. s3 \in [x : Nat, y : Nat]
    BY <2>8
  <2>10. HasPrediction(grid, b, s3) => PredictionIndex(grid, b, s3) \in Nat
    BY <1>1, <2>9, OwnPlace, GridFacts DEF Blocks
  <2>11. HasPrediction(grid, b, s3) =>
            record \in [event : 1 .. Len(event), block : Blocks, x : Nat, y : Nat, index : Nat]
    BY <2>1, <2>9, <2>10
  <2> HIDE DEF e, s3, record
  <2> QED  BY <2>1, <2>4, <2>5, <2>6, <2>7, <2>11 DEF TypeOK
<1>5. CASE UNCHANGED vars
  BY <1>5 DEF vars, TypeOK, Blocks
<1> QED  BY <1>2, <1>3, <1>4, <1>5 DEF Next

(* The variables keep their types: in particular every event a block holds *)
(* is one that was generated, and every index it writes is a natural.      *)
THEOREM TypeCorrect == Spec => []TypeOK
BY InitTypes, NextTypes, PTL DEF Spec

-------------------------------------------------------------------------------
(* What a step does to the lines.                                          *)

LEMMA LineFacts ==
    ASSUME TypeOK, NEW b \in Blocks
    PROVE  /\ Line(b) \in Seq(1 .. Len(event))
           /\ Len(done[b]) \in Nat /\ Len(ring[b]) \in Nat
           /\ Len(Line(b)) = Len(done[b]) + Len(ring[b])
           /\ \A i \in 1 .. Len(done[b]) : Line(b)[i] = done[b][i]
           /\ \A i \in 1 .. Len(Line(b)) : Line(b)[i] \in 1 .. Len(event)
           /\ Elements(ring[b] \o done[b]) = Elements(Line(b))
<1>1. done[b] \in Seq(1 .. Len(event)) /\ ring[b] \in Seq(1 .. Len(event))
  BY DEF TypeOK
<1>2. Len(done[b]) \in Nat /\ Len(ring[b]) \in Nat
  BY <1>1, LenProperties
<1>3. /\ Line(b) \in Seq(1 .. Len(event)) /\ Len(Line(b)) = Len(done[b]) + Len(ring[b])
      /\ \A i \in 1 .. Len(done[b]) + Len(ring[b]) :
            Line(b)[i] = IF i <= Len(done[b]) THEN done[b][i] ELSE ring[b][i - Len(done[b])]
  BY <1>1, ConcatProperties DEF Line
<1>4. \A i \in 1 .. Len(Line(b)) : Line(b)[i] \in 1 .. Len(event)
  BY <1>3, ElementOfSeq
<1>5. \A i \in 1 .. Len(done[b]) : Line(b)[i] = done[b][i]
  BY <1>1, FirstPart DEF Line
<1>6. Elements(ring[b] \o done[b]) = Elements(Line(b))
  BY <1>1, SameElements DEF Line
<1> QED  BY <1>2, <1>3, <1>4, <1>5, <1>6

LEMMA LinesOfPush ==
    ASSUME TypeOK, NEW w \in Worker, PushTo(w)
    PROVE  /\ at[w].event \in 1 .. Len(event) /\ at[w].block \in Blocks
           /\ UNCHANGED <<grid, event, done, produced, written>> /\ Blocks' = Blocks
           /\ at' = [at EXCEPT ![w] = IF LastBlock(at[w].block) THEN NoEvent
                       ELSE [event |-> at[w].event, block |-> at[w].block + 1]]
           /\ \A b \in Blocks :
                 IF b = at[w].block /\ Processes(grid, b, event[at[w].event])
                 THEN Line(b)' = Append(Line(b), at[w].event)
                 ELSE Line(b)' = Line(b)
<1> DEFINE e == at[w].event
           c == at[w].block
<1>1. e \in 1 .. Len(event) /\ c \in Blocks
  BY DEF PushTo, TypeOK
<1>2. UNCHANGED <<grid, event, done, produced, written>> /\ Blocks' = Blocks
  BY DEF PushTo, Blocks
<1>3. ring' = IF Processes(grid, c, event[e])
              THEN [ring EXCEPT ![c] = Append(ring[c], e)] ELSE ring
  BY DEF PushTo
<1>4. at' = [at EXCEPT ![w] = IF LastBlock(c) THEN NoEvent ELSE [event |-> e, block |-> c + 1]]
  BY DEF PushTo
<1> HIDE DEF e, c
<1>5. ASSUME NEW b \in Blocks
      PROVE  IF b = c /\ Processes(grid, b, event[e])
             THEN Line(b)' = Append(Line(b), e) ELSE Line(b)' = Line(b)
  <2>1. Line(b)' = done[b] \o ring'[b]
    BY <1>2 DEF Line
  <2>2. CASE b = c /\ Processes(grid, b, event[e])
    <3>1. ring'[b] = Append(ring[b], e)
      BY <1>3, <2>2 DEF TypeOK
    <3>2. done[b] \o Append(ring[b], e) = Append(done[b] \o ring[b], e)
      <4>1. done[b] \in Seq(1 .. Len(event)) /\ ring[b] \in Seq(1 .. Len(event))
        BY DEF TypeOK
      <4>2. \A u, v \in Seq(1 .. Len(event)) :
               u \o Append(v, e) = Append(u \o v, e)
        BY <1>1, AppendToSecond
      <4> QED  BY <4>1, <4>2
    <3> QED  BY <2>1, <2>2, <3>1, <3>2 DEF Line
  <2>3. CASE ~(b = c /\ Processes(grid, b, event[e]))
    <3>1. ring'[b] = ring[b]
      BY <1>3, <2>3 DEF TypeOK
    <3> QED  BY <2>1, <2>3, <3>1 DEF Line
  <2> QED  BY <2>2, <2>3
<1> QED  BY <1>1, <1>2, <1>4, <1>5 DEF e, c

LEMMA LinesOfProcess ==
    ASSUME TypeOK, NEW b \in Blocks, NEW pass \in BOOLEAN, ProcessEvent(b, pass)
    PROVE  /\ UNCHANGED <<grid, event, at>> /\ Blocks' = Blocks
           /\ \A c \in Blocks : Line(c)' = Line(c)
<1> DEFINE e == Head(ring[b])
<1>1. UNCHANGED <<grid, event, at>> /\ Blocks' = Blocks
  BY DEF ProcessEvent, Blocks
<1>2. ring' = [ring EXCEPT ![b] = Tail(ring[b])] /\ done' = [done EXCEPT ![b] = Append(done[b], e)]
  BY DEF ProcessEvent, TakeOldest
<1>3. done[b] \in Seq(1 .. Len(event)) /\ ring[b] \in Seq(1 .. Len(event)) /\ ring[b] # << >>
  BY DEF ProcessEvent, TypeOK
<1>4. Append(done[b], e) \o Tail(ring[b]) = done[b] \o ring[b]
  BY <1>3, MoveHead
<1> HIDE DEF e
<1>5. ASSUME NEW c \in Blocks PROVE Line(c)' = Line(c)
  <2>1. CASE c = b
    <3>1. done'[b] = Append(done[b], e) /\ ring'[b] = Tail(ring[b])
      BY <1>2 DEF TypeOK
    <3> QED  BY <1>4, <2>1, <3>1 DEF Line
  <2>2. CASE c # b
    BY <1>2, <2>2 DEF TypeOK, Line
  <2> QED  BY <2>1, <2>2
<1> QED  BY <1>1, <1>5

LEMMA EventFacts ==
    ASSUME TypeOK, NEW e \in 1 .. Len(event)
    PROVE  event[e].x \in Nat /\ event[e].y \in Nat /\ event[e].worker \in Worker
<1>1. event[e] \in [x : Nat, y : Nat, worker : Worker]
  BY ElementOfSeq DEF TypeOK
<1> QED  BY <1>1

LEMMA LinesOfSurvive ==
    ASSUME TypeOK, NEW w \in Worker, NEW c \in Cells, Survive(w, c)
    PROVE  /\ UNCHANGED <<grid, done, ring, produced, written>> /\ Blocks' = Blocks
           /\ at[w].event = 0
           /\ Len(event) \in Nat /\ Len(event') = Len(event) + 1
           /\ \A e \in 1 .. Len(event) : event'[e] = event[e]
           /\ event'[Len(event) + 1] = [x |-> c.x, y |-> c.y, worker |-> w]
           /\ at' = [at EXCEPT ![w] = [event |-> Len(event) + 1, block |-> 0]]
           /\ \A b \in Blocks : Line(b)' = Line(b)
<1> DEFINE e == [x |-> c.x, y |-> c.y, worker |-> w]
<1>1. /\ UNCHANGED <<grid, done, ring, produced, written>>
      /\ at[w] = NoEvent /\ event' = Append(event, e)
      /\ at' = [at EXCEPT ![w] = [event |-> Len(event'), block |-> 0]]
  BY DEF Survive
<1>2. at[w].event = 0
  BY <1>1 DEF NoEvent
<1>3. e \in [x : Nat, y : Nat, worker : Worker]
  BY GridFacts DEF TypeOK, Cells
<1>4. event \in Seq([x : Nat, y : Nat, worker : Worker])
  BY DEF TypeOK
<1> HIDE DEF e
<1>5. /\ Len(event) \in Nat /\ Len(event') = Len(event) + 1
      /\ \A n \in 1 .. Len(event) : event'[n] = event[n]
      /\ event'[Len(event) + 1] = e
  BY <1>1, <1>3, <1>4, AppendProperties, LenProperties
<1>6. Blocks' = Blocks /\ \A b \in Blocks : Line(b)' = Line(b)
  BY <1>1 DEF Blocks, Line
<1> QED  BY <1>1, <1>2, <1>5, <1>6 DEF e

LEMMA NothingMoves ==
    ASSUME UNCHANGED vars
    PROVE  /\ UNCHANGED <<grid, event, at, done, ring, produced, written>>
           /\ Blocks' = Blocks /\ \A b \in Blocks : Line(b)' = Line(b)
BY DEF vars, Blocks, Line

-------------------------------------------------------------------------------
(* The invariant, one conjunct at a time.                                  *)

LEMMA EventsOnGridStep ==
    TypeOK /\ TypeOK' /\ EventsOnGrid /\ [Next]_vars => EventsOnGrid'
<1> SUFFICES ASSUME TypeOK, TypeOK', EventsOnGrid, [Next]_vars PROVE EventsOnGrid'
  OBVIOUS
<1>1. Len(event) \in Nat /\ at \in [Worker -> [event : 0 .. Len(event), block : Blocks]]
  BY LenProperties DEF TypeOK
<1>2. ASSUME NEW w \in Worker, NEW c \in Cells, Survive(w, c) PROVE EventsOnGrid'
  <2>1. /\ grid' = grid /\ Len(event') = Len(event) + 1
        /\ \A e \in 1 .. Len(event) : event'[e] = event[e]
        /\ event'[Len(event) + 1] = [x |-> c.x, y |-> c.y, worker |-> w]
        /\ at' = [at EXCEPT ![w] = [event |-> Len(event) + 1, block |-> 0]]
    BY <1>2, LinesOfSurvive
  <2>2. c.x \in 0 .. grid.W2 - 1 /\ c.y \in 0 .. grid.H2 - 1
    BY DEF Cells
  <2>3. ASSUME NEW e \in 1 .. Len(event')
        PROVE  event'[e].x \in 0 .. grid'.W2 - 1 /\ event'[e].y \in 0 .. grid'.H2 - 1
    <3>1. CASE e \in 1 .. Len(event)
      BY <2>1, <3>1 DEF EventsOnGrid
    <3>2. CASE e = Len(event) + 1
      BY <2>1, <2>2, <3>2
    <3> QED  BY <1>1, <2>1, <3>1, <3>2
  <2>4. ASSUME NEW v \in Worker, at'[v].event # 0
        PROVE  /\ event'[at'[v].event].worker = v
               /\ \A n \in 1 .. Len(event') : event'[n].worker = v => n <= at'[v].event
    <3>1. CASE v = w
      <4>1. at'[v].event = Len(event) + 1
        BY <1>1, <2>1, <3>1
      <4> QED  BY <1>1, <2>1, <3>1, <4>1
    <3>2. CASE v # w
      <4>1. at'[v] = at[v] /\ at[v].event \in 0 .. Len(event)
        BY <1>1, <2>1, <3>2
      <4>2. at[v].event \in 1 .. Len(event)
        BY <1>1, <2>4, <4>1
      <4>3. /\ event[at[v].event].worker = v
            /\ \A n \in 1 .. Len(event) : event[n].worker = v => n <= at[v].event
        BY <2>4, <4>1 DEF EventsOnGrid
      <4>4. event'[at'[v].event].worker = v
        BY <2>1, <4>1, <4>2, <4>3
      <4>5. ASSUME NEW n \in 1 .. Len(event'), event'[n].worker = v PROVE n <= at'[v].event
        <5>1. n # Len(event) + 1
          BY <2>1, <3>2, <4>5
        <5>2. n \in 1 .. Len(event)
          BY <1>1, <2>1, <5>1
        <5> QED  BY <2>1, <4>1, <4>3, <4>5, <5>2
      <4> QED  BY <4>4, <4>5
    <3> QED  BY <3>1, <3>2
  <2> QED  BY <2>3, <2>4 DEF EventsOnGrid
<1>3. ASSUME NEW w \in Worker, PushTo(w) PROVE EventsOnGrid'
  <2>1. /\ grid' = grid /\ event' = event
        /\ at' = [at EXCEPT ![w] = IF LastBlock(at[w].block) THEN NoEvent
                    ELSE [event |-> at[w].event, block |-> at[w].block + 1]]
    BY <1>3, LinesOfPush
  <2>2. \A v \in Worker : at'[v].event = at[v].event \/ at'[v].event = 0
    BY <1>1, <2>1 DEF NoEvent
  <2> QED  BY <2>1, <2>2 DEF EventsOnGrid
<1>4. ASSUME NEW b \in Blocks, NEW pass \in BOOLEAN, ProcessEvent(b, pass) PROVE EventsOnGrid'
  BY <1>4 DEF ProcessEvent, EventsOnGrid
<1>5. CASE UNCHANGED vars
  BY <1>5 DEF vars, EventsOnGrid
<1> QED  BY <1>2, <1>3, <1>4, <1>5 DEF Next

LEMMA SentStep ==
    TypeOK /\ EventsOnGrid /\ Sent /\ [Next]_vars => Sent'
<1> SUFFICES ASSUME TypeOK, EventsOnGrid, Sent, [Next]_vars PROVE Sent'
  OBVIOUS
<1>1. /\ Len(event) \in Nat /\ at \in [Worker -> [event : 0 .. Len(event), block : Blocks]]
      /\ grid \in Grids
  BY LenProperties DEF TypeOK
<1>2. ASSUME NEW w \in Worker, NEW c \in Cells, Survive(w, c) PROVE Sent'
  <2>1. /\ grid' = grid /\ Blocks' = Blocks /\ at[w].event = 0
        /\ Len(event') = Len(event) + 1
        /\ \A e \in 1 .. Len(event) : event'[e] = event[e]
        /\ event'[Len(event) + 1] = [x |-> c.x, y |-> c.y, worker |-> w]
        /\ at' = [at EXCEPT ![w] = [event |-> Len(event) + 1, block |-> 0]]
        /\ \A b \in Blocks : Line(b)' = Line(b)
    BY <1>2, LinesOfSurvive
  <2> SUFFICES ASSUME NEW b \in Blocks, NEW e \in 1 .. Len(event')
               PROVE  e \in Elements(Line(b)') <=>
                         Processes(grid', b, event'[e]) /\ ~Ahead(at'[event'[e].worker], e, b)
    BY <2>1 DEF Sent, Elements
  <2>2. CASE e = Len(event) + 1
    <3>1. e \notin Elements(Line(b))
      <4>1. Elements(Line(b)) \subseteq 1 .. Len(event)
        BY LineFacts, ElementsInSet
      <4> QED  BY <1>1, <2>2, <4>1
    <3>2. at'[w] = [event |-> Len(event) + 1, block |-> 0] /\ event'[e].worker = w
      BY <1>1, <2>1, <2>2
    <3>3. at'[w].event = e /\ at'[w].block <= b
      BY <1>1, <2>2, <3>2, GridFacts
    <3> QED  BY <2>1, <3>1, <3>2, <3>3 DEF Ahead
  <2>3. CASE e \in 1 .. Len(event)
    <3>1. e \in Elements(Line(b)) <=>
              Processes(grid, b, event[e]) /\ ~Ahead(at[event[e].worker], e, b)
      BY <2>3 DEF Sent
    <3>2. event[e].worker \in Worker
      BY <2>3, EventFacts
    <3>3. CASE event[e].worker = w
      <4>1. at'[w].event = Len(event) + 1
        BY <1>1, <2>1
      <4>2. ~Ahead(at[w], e, b) /\ ~Ahead(at'[w], e, b)
        BY <1>1, <2>1, <2>3, <4>1 DEF Ahead
      <4> QED  BY <2>1, <2>3, <3>1, <3>3, <4>2
    <3>4. CASE event[e].worker # w
      <4>1. at'[event[e].worker] = at[event[e].worker]
        BY <1>1, <2>1, <3>2, <3>4
      <4> QED  BY <2>1, <2>3, <3>1, <4>1 DEF Ahead
    <3> QED  BY <3>3, <3>4
  <2> QED  BY <1>1, <2>1, <2>2, <2>3
<1>3. ASSUME NEW w \in Worker, PushTo(w) PROVE Sent'
  <2> DEFINE m == at[w].event
             k == at[w].block
  <2>1. /\ m \in 1 .. Len(event) /\ k \in Blocks
        /\ grid' = grid /\ event' = event /\ Blocks' = Blocks
        /\ at' = [at EXCEPT ![w] = IF LastBlock(k) THEN NoEvent
                    ELSE [event |-> m, block |-> k + 1]]
        /\ \A b \in Blocks : IF b = k /\ Processes(grid, b, event[m])
                             THEN Line(b)' = Append(Line(b), m)
                             ELSE Line(b)' = Line(b)
    BY <1>3, LinesOfPush
  <2>2. event[m].worker = w
    BY <2>1 DEF EventsOnGrid
  <2> HIDE DEF m, k
  <2>3. ASSUME NEW b \in Blocks, NEW e \in 1 .. Len(event), event[e].worker = w
        PROVE  /\ Ahead(at[w], e, b) <=> e = m /\ k <= b
               /\ Ahead(at'[w], e, b) <=> e = m /\ k < b
    <3>1. /\ b \in Nat /\ k \in Nat
          /\ LastBlock(k) => b <= k
      BY <1>1, <2>1, GridFacts
    <3>2. Ahead(at[w], e, b) <=> e = m /\ k <= b
      BY DEF Ahead, m, k
    <3>3. CASE LastBlock(k)
      <4>1. at'[w].event = 0
        BY <1>1, <2>1, <3>3 DEF NoEvent
      <4> QED  BY <3>1, <3>2, <3>3, <4>1 DEF Ahead
    <3>4. CASE ~LastBlock(k)
      <4>1. at'[w].event = m /\ at'[w].block = k + 1
        BY <1>1, <2>1, <3>4
      <4> QED  BY <3>1, <3>2, <4>1 DEF Ahead
    <3> QED  BY <3>3, <3>4
  <2> SUFFICES ASSUME NEW b \in Blocks, NEW e \in 1 .. Len(event)
               PROVE  e \in Elements(Line(b)') <=>
                         Processes(grid, b, event[e]) /\ ~Ahead(at'[event[e].worker], e, b)
    BY <2>1 DEF Sent, Elements
  <2>4. e \in Elements(Line(b)) <=>
            Processes(grid, b, event[e]) /\ ~Ahead(at[event[e].worker], e, b)
    BY DEF Sent
  <2>5. event[e].worker \in Worker
    BY EventFacts
  <2>6. Elements(Append(Line(b), m)) = Elements(Line(b)) \cup {m}
    <3>1. \A s \in Seq(1 .. Len(event)) : Elements(Append(s, m)) = Elements(s) \cup {m}
      BY <2>1, ElementsOfAppend
    <3> QED  BY <3>1, LineFacts
  <2>7. CASE e = m
    <3>1. CASE b = k
      <4>1. Ahead(at[w], m, b) /\ ~Ahead(at'[w], m, b)
        BY <1>1, <2>1, <2>2, <2>3, <3>1, GridFacts
      <4>2. CASE Processes(grid, b, event[m])
        BY <2>1, <2>2, <2>6, <2>7, <3>1, <4>1, <4>2
      <4>3. CASE ~Processes(grid, b, event[m])
        BY <2>1, <2>2, <2>4, <2>7, <3>1, <4>1, <4>3
      <4> QED  BY <4>2, <4>3
    <3>2. CASE b # k
      <4>1. Ahead(at'[w], m, b) <=> Ahead(at[w], m, b)
        <5>1. b \in Nat /\ k \in Nat
          BY <1>1, <2>1, GridFacts
        <5> QED  BY <2>1, <2>2, <2>3, <3>2, <5>1
      <4> QED  BY <2>1, <2>2, <2>4, <2>7, <3>2, <4>1
    <3> QED  BY <3>1, <3>2
  <2>8. CASE e # m
    <3>1. Ahead(at'[event[e].worker], e, b) <=> Ahead(at[event[e].worker], e, b)
      <4>1. CASE event[e].worker = w
        BY <2>3, <2>8, <4>1
      <4>2. CASE event[e].worker # w
        BY <1>1, <2>1, <2>5, <4>2 DEF Ahead
      <4> QED  BY <4>1, <4>2
    <3>2. e \in Elements(Line(b)') <=> e \in Elements(Line(b))
      BY <2>1, <2>6, <2>8
    <3> QED  BY <2>4, <3>1, <3>2
  <2> QED  BY <2>7, <2>8
<1>4. ASSUME NEW b \in Blocks, NEW pass \in BOOLEAN, ProcessEvent(b, pass) PROVE Sent'
  <2>1. UNCHANGED <<grid, event, at>> /\ Blocks' = Blocks /\ \A c \in Blocks : Line(c)' = Line(c)
    BY <1>4, LinesOfProcess
  <2> QED  BY <2>1 DEF Sent, Ahead
<1>5. CASE UNCHANGED vars
  BY <1>5, NothingMoves DEF Sent, Ahead
<1> QED  BY <1>2, <1>3, <1>4, <1>5 DEF Next

LEMMA InOrderStep ==
    TypeOK /\ EventsOnGrid /\ Sent /\ InOrder /\ [Next]_vars => InOrder'
<1> SUFFICES ASSUME TypeOK, EventsOnGrid, Sent, InOrder, [Next]_vars PROVE InOrder'
  OBVIOUS
<1>1. ASSUME NEW w \in Worker, NEW c \in Cells, Survive(w, c) PROVE InOrder'
  <2>1. /\ Blocks' = Blocks /\ \A e \in 1 .. Len(event) : event'[e] = event[e]
        /\ \A b \in Blocks : Line(b)' = Line(b)
    BY <1>1, LinesOfSurvive
  <2>2. \A b \in Blocks : \A i \in 1 .. Len(Line(b)) : Line(b)[i] \in 1 .. Len(event)
    BY LineFacts
  <2> QED  BY <2>1, <2>2 DEF InOrder
<1>2. ASSUME NEW w \in Worker, PushTo(w) PROVE InOrder'
  <2> DEFINE m == at[w].event
             k == at[w].block
  <2>1. /\ m \in 1 .. Len(event) /\ k \in Blocks
        /\ event' = event /\ Blocks' = Blocks
        /\ \A b \in Blocks : IF b = k /\ Processes(grid, b, event[m])
                             THEN Line(b)' = Append(Line(b), m)
                             ELSE Line(b)' = Line(b)
    BY <1>2, LinesOfPush
  <2>2. event[m].worker = w /\ \A n \in 1 .. Len(event) : event[n].worker = w => n <= m
    BY <2>1 DEF EventsOnGrid
  <2>3. m \notin Elements(Line(k))
    <3>1. Ahead(at[w], m, k)
      <4>1. k \in Nat
        BY <2>1, GridFacts DEF TypeOK
      <4> QED  BY <4>1 DEF Ahead
    <3> QED  BY <2>1, <2>2, <3>1 DEF Sent
  <2> HIDE DEF m, k
  <2>4. ASSUME NEW b \in Blocks, Line(b)' = Line(b),
               NEW i \in 1 .. Len(Line(b)'), NEW j \in 1 .. Len(Line(b)'), i < j,
               event[Line(b)'[i]].worker = event[Line(b)'[j]].worker
        PROVE  Line(b)'[i] < Line(b)'[j]
    BY <2>4 DEF InOrder
  <2>5. ASSUME NEW b \in Blocks, b = k, Line(b)' = Append(Line(b), m),
               NEW i \in 1 .. Len(Line(b)'), NEW j \in 1 .. Len(Line(b)'), i < j,
               event[Line(b)'[i]].worker = event[Line(b)'[j]].worker
        PROVE  Line(b)'[i] < Line(b)'[j]
    <3> DEFINE s == Line(b)
    <3>1. s \in Seq(1 .. Len(event)) /\ \A n \in 1 .. Len(s) : s[n] \in 1 .. Len(event)
      BY LineFacts
    <3>2. \A n \in 1 .. Len(s) : s[n] # m
      BY <2>3, <2>5 DEF Elements
    <3>3. \A p, q \in 1 .. Len(s) :
             p < q /\ event[s[p]].worker = event[s[q]].worker => s[p] < s[q]
      BY DEF InOrder
    <3>4. Line(b)' = Append(s, m)
      BY <2>5
    <3> HIDE DEF s
    <3>5. /\ Len(s) \in Nat /\ Len(Append(s, m)) = Len(s) + 1
          /\ \A n \in 1 .. Len(s) : Append(s, m)[n] = s[n]
          /\ Append(s, m)[Len(s) + 1] = m
      BY <2>1, <3>1, AppendProperties, LenProperties
    <3>6. i \in 1 .. Len(s) + 1 /\ j \in 1 .. Len(s) + 1
      BY <2>5, <3>4, <3>5
    <3>7. i \in 1 .. Len(s) /\ Line(b)'[i] = s[i]
      BY <2>5, <3>4, <3>5, <3>6
    <3>8. CASE j = Len(s) + 1
      <4>1. Line(b)'[j] = m
        BY <3>4, <3>5, <3>8
      <4>2. s[i] \in 1 .. Len(event) /\ s[i] # m
        BY <3>1, <3>2, <3>7
      <4>3. event[s[i]].worker = w
        BY <2>2, <2>5, <3>7, <4>1
      <4>4. s[i] <= m
        BY <2>2, <4>2, <4>3
      <4> QED  BY <2>1, <3>7, <4>1, <4>2, <4>4
    <3>9. CASE j # Len(s) + 1
      <4>1. j \in 1 .. Len(s) /\ Line(b)'[j] = s[j]
        BY <3>4, <3>5, <3>6, <3>9
      <4> QED  BY <2>5, <3>3, <3>7, <4>1
    <3> QED  BY <3>8, <3>9
  <2> QED  BY <2>1, <2>4, <2>5 DEF InOrder
<1>3. ASSUME NEW b \in Blocks, NEW pass \in BOOLEAN, ProcessEvent(b, pass) PROVE InOrder'
  <2>1. event' = event /\ Blocks' = Blocks /\ \A c \in Blocks : Line(c)' = Line(c)
    BY <1>3, LinesOfProcess
  <2> QED  BY <2>1 DEF InOrder
<1>4. CASE UNCHANGED vars
  BY <1>4, NothingMoves DEF InOrder
<1> QED  BY <1>1, <1>2, <1>3, <1>4 DEF Next

LEMMA PredictionsStep ==
    TypeOK /\ WrittenInBlock /\ ProducedByOwner /\ [Next]_vars
        => WrittenInBlock' /\ ProducedByOwner'
<1> SUFFICES ASSUME TypeOK, WrittenInBlock, ProducedByOwner, [Next]_vars
             PROVE  WrittenInBlock' /\ ProducedByOwner'
  OBVIOUS
<1>1. ASSUME NEW w \in Worker, NEW c \in Cells, Survive(w, c)
      PROVE  WrittenInBlock' /\ ProducedByOwner'
  <2>1. /\ UNCHANGED <<grid, produced, written>> /\ Blocks' = Blocks
        /\ \A e \in 1 .. Len(event) : event'[e] = event[e]
    BY <1>1, LinesOfSurvive
  <2>2. produced \subseteq 1 .. Len(event)
    BY DEF TypeOK
  <2> QED  BY <2>1, <2>2 DEF WrittenInBlock, ProducedByOwner
<1>2. ASSUME NEW w \in Worker, PushTo(w) PROVE WrittenInBlock' /\ ProducedByOwner'
  <2>1. UNCHANGED <<grid, event, produced, written>> /\ Blocks' = Blocks
    BY <1>2, LinesOfPush
  <2> QED  BY <2>1 DEF WrittenInBlock, ProducedByOwner
<1>3. ASSUME NEW b \in Blocks, NEW pass \in BOOLEAN, ProcessEvent(b, pass)
      PROVE  WrittenInBlock' /\ ProducedByOwner'
  <2> DEFINE e == TakeOldest(b)
             s3 == [x |-> event[e].x \div 2, y |-> event[e].y \div 2]
             record == [event |-> e, block |-> b, x |-> s3.x, y |-> s3.y,
                        index |-> PredictionIndex(grid, b, s3)]
             predict == pass /\ Owns(grid, b, event[e])
  <2>1. /\ UNCHANGED <<grid, event>> /\ Blocks' = Blocks
        /\ produced' = IF predict THEN produced \cup {e} ELSE produced
        /\ written' = IF predict /\ HasPrediction(grid, b, s3)
                      THEN written \cup {record} ELSE written
    BY <1>3 DEF ProcessEvent, Blocks
  <2>2. /\ predict => Owns(grid, b, event[e])
        /\ record.event = e /\ record.block = b
        /\ record.index = PredictionIndex(grid, record.block, s3)
        /\ record.x = s3.x /\ record.y = s3.y
    OBVIOUS
  <2>3. /\ HasPrediction(grid, record.block, record) <=> HasPrediction(grid, b, s3)
        /\ record.index = PredictionIndex(grid, record.block, record)
    BY <2>2 DEF HasPrediction, PredictionIndex
  <2>4. s3 = [x |-> event[e].x \div 2, y |-> event[e].y \div 2]
    OBVIOUS
  <2> HIDE DEF e, s3, record, predict
  <2>5. WrittenInBlock'
    BY <2>1, <2>3 DEF WrittenInBlock
  <2>6. ProducedByOwner'
    <3>1. \A v \in written : v \in written'
      BY <2>1
    <3>2. ASSUME NEW n \in produced'
          PROVE  \E c \in Blocks :
                    /\ Owns(grid, c, event[n])
                    /\ HasPrediction(grid, c, [x |-> event[n].x \div 2, y |-> event[n].y \div 2])
                          => \E v \in written' : v.event = n
      <4>1. CASE n \in produced
        BY <3>1, <4>1 DEF ProducedByOwner
      <4>2. CASE n = e /\ predict
        <5>1. HasPrediction(grid, b, s3) => \E v \in written' : v.event = n
          BY <2>1, <2>2, <4>2
        <5> QED  BY <2>2, <2>4, <4>2, <5>1
      <4> QED  BY <2>1, <4>1, <4>2
    <3> QED  BY <2>1, <3>2 DEF ProducedByOwner
  <2> QED  BY <2>5, <2>6
<1>4. CASE UNCHANGED vars
  BY <1>4, NothingMoves DEF WrittenInBlock, ProducedByOwner
<1> QED  BY <1>1, <1>2, <1>3, <1>4 DEF Next

(* The invariant holds in every state.                                     *)
LEMMA RoutingCorrect == Spec => []RoutingInv
<1>1. Init => RoutingInv
  <2> SUFFICES ASSUME Init PROVE RoutingInv
    OBVIOUS
  <2>1. TypeOK
    BY InitTypes
  <2>2. Len(event) = 0 /\ 1 .. Len(event) = {}
    BY DEF Init
  <2>3. EventsOnGrid /\ Sent
    BY <2>2 DEF Init, EventsOnGrid, Sent, NoEvent
  <2>4. InOrder
    <3>1. \A b \in Blocks : 1 .. Len(Line(b)) = {}
      BY <2>1, <2>2, LineFacts
    <3> QED  BY <3>1 DEF InOrder
  <2>5. WrittenInBlock /\ ProducedByOwner
    BY DEF Init, WrittenInBlock, ProducedByOwner
  <2> QED  BY <2>1, <2>3, <2>4, <2>5 DEF RoutingInv
<1>2. RoutingInv /\ [Next]_vars => RoutingInv'
  BY NextTypes, EventsOnGridStep, SentStep, InOrderStep, PredictionsStep DEF RoutingInv
<1> QED  BY <1>1, <1>2, PTL DEF Spec

-------------------------------------------------------------------------------
(* The properties.                                                         *)

LEMMA CellFacts ==
    ASSUME TypeOK, EventsOnGrid, NEW e \in 1 .. Len(event)
    PROVE  [x |-> event[e].x, y |-> event[e].y] \in
               [x : 0 .. grid.W2 - 1, y : 0 .. grid.H2 - 1]
BY DEF EventsOnGrid

LEMMA OwnerIsSent ==
    ASSUME RoutingInv, NEW b \in Blocks, NEW e \in 1 .. Len(event),
           Owns(grid, b, event[e]),
           NEW n \in 1 .. Len(event), Near(e, n, HALO)
    PROVE  Processes(grid, b, event[n])
<1> DEFINE cell == [x |-> event[e].x, y |-> event[e].y]
           near == [x |-> event[n].x, y |-> event[n].y]
<1>1. /\ cell \in [x : 0 .. grid.W2 - 1, y : 0 .. grid.H2 - 1]
      /\ near \in [x : 0 .. grid.W2 - 1, y : 0 .. grid.H2 - 1]
  BY CellFacts DEF RoutingInv
<1>2. grid \in Grid /\ b \in 0 .. grid.n - 1
  BY GridFacts DEF RoutingInv, TypeOK, Blocks
<1>3. /\ event[n].x \in Nat /\ event[n].y \in Nat
      /\ event[e].x \in Nat /\ event[e].y \in Nat
  BY EventFacts DEF RoutingInv
<1>4. near.x - cell.x \in -HALO .. HALO /\ near.y - cell.y \in -HALO .. HALO
  <2>1. \A p, q \in Nat : p - q \in -2 .. 2 => q - p \in -2 .. 2
    OBVIOUS
  <2>2. event[e].x - event[n].x \in -2 .. 2 /\ event[e].y - event[n].y \in -2 .. 2
    BY DEF Near, HALO
  <2>3. event[n].x - event[e].x \in -2 .. 2 /\ event[n].y - event[e].y \in -2 .. 2
    BY <1>3, <2>1, <2>2
  <2> QED  BY <2>3 DEF HALO
<1>5. Owns(grid, b, cell)
  BY DEF Owns
<1>6. Processes(grid, b, near) <=> Processes(grid, b, event[n])
  BY DEF Processes
<1> HIDE DEF cell, near
<1> QED  BY <1>1, <1>2, <1>4, <1>5, <1>6, HaloReaches

LEMMA OneOwnerOfEvent ==
    ASSUME RoutingInv, NEW e \in 1 .. Len(event)
    PROVE  \E b \in Blocks : /\ Owns(grid, b, event[e])
                             /\ \A c \in Blocks : Owns(grid, c, event[e]) => c = b
<1> DEFINE cell == [x |-> event[e].x, y |-> event[e].y]
<1>1. cell \in [x : 0 .. grid.W2 - 1, y : 0 .. grid.H2 - 1]
  BY CellFacts DEF RoutingInv
<1>2. grid \in Grid /\ Blocks = 0 .. grid.n - 1
  BY GridFacts DEF RoutingInv, TypeOK, Blocks
<1>3. \A b \in Blocks : Owns(grid, b, cell) <=> Owns(grid, b, event[e])
  BY DEF Owns
<1> HIDE DEF cell
<1>4. \E b \in Blocks : /\ Owns(grid, b, cell)
                        /\ \A c \in Blocks : Owns(grid, c, cell) => c = b
  BY <1>1, <1>2, OneOwner
<1> QED  BY <1>3, <1>4

(* An event's owner, and no other block, has been sent it once the push    *)
(* loop is done with it: shard_worker's loop over all blocks and the       *)
(* partition of grid_topology fit together on every grid.                  *)
THEOREM OwnedOnceCorrect == Spec => []OwnedOnce
<1>1. RoutingInv => OwnedOnce
  <2> SUFFICES ASSUME RoutingInv, NEW e \in 1 .. Len(event),
                      \A w \in Worker : at[w].event # e
               PROVE  Cardinality({b \in Blocks : /\ Owns(grid, b, event[e])
                                                  /\ e \in Elements(ring[b] \o done[b])}) = 1
    BY DEF OwnedOnce
  <2>1. PICK b \in Blocks : /\ Owns(grid, b, event[e])
                            /\ \A c \in Blocks : Owns(grid, c, event[e]) => c = b
    BY OneOwnerOfEvent
  <2>2. e \in Elements(Line(b))
    <3>1. Near(e, e, HALO)
      BY EventFacts DEF RoutingInv, Near, HALO
    <3>2. ~Ahead(at[event[e].worker], e, b)
      BY EventFacts DEF RoutingInv, Ahead
    <3> QED  BY <2>1, <3>1, <3>2, OwnerIsSent DEF RoutingInv, Sent
  <2>3. e \in Elements(ring[b] \o done[b])
    BY <2>2, LineFacts DEF RoutingInv
  <2>4. {c \in Blocks : /\ Owns(grid, c, event[e])
                        /\ e \in Elements(ring[c] \o done[c])} = {b}
    BY <2>1, <2>3
  <2> QED  BY <2>4, FS_Singleton
<1> QED  BY <1>1, RoutingCorrect, PTL

(* When a block processes an event it owns, it has before processed every  *)
(* earlier event of the same worker within two cells: the halo is wide     *)
(* enough, and neither the push loop nor the ring changes a worker's order.*)
THEOREM PatchCoveredCorrect == Spec => []PatchCovered
<1>1. RoutingInv => PatchCovered
  <2> SUFFICES ASSUME RoutingInv, NEW b \in Blocks, NEW e \in Elements(done[b]),
                      Owns(grid, b, event[e]), NEW n \in 1 .. e - 1,
                      event[n].worker = event[e].worker, Near(e, n, 2)
               PROVE  n \in Before(e, b)
    BY DEF PatchCovered
  <2>1. done[b] \in Seq(1 .. Len(event)) /\ Len(event) \in Nat
    BY LenProperties DEF RoutingInv, TypeOK
  <2>2. e \in 1 .. Len(event)
    BY <2>1, ElementsInSet
  <2>3. n \in 1 .. Len(event) /\ n < e
    BY <2>1, <2>2
  <2>4. Processes(grid, b, event[n])
    BY <2>2, <2>3, OwnerIsSent DEF HALO
  <2>5. ~Ahead(at[event[n].worker], n, b)
    <3>1. event[n].worker \in Worker
      BY <2>3, EventFacts DEF RoutingInv
    <3>2. at[event[n].worker].event # 0 => e <= at[event[n].worker].event
      BY <2>2, <3>1 DEF RoutingInv, EventsOnGrid
    <3> QED  BY <2>2, <2>3, <3>2 DEF Ahead
  <2>6. n \in Elements(Line(b))
    BY <2>3, <2>4, <2>5 DEF RoutingInv, Sent
  <2>7. PICK i \in 1 .. Len(Line(b)) : Line(b)[i] = n
    BY <2>6 DEF Elements
  <2>8. PICK j \in 1 .. Len(done[b]) : done[b][j] = e
    BY DEF Elements
  <2>9. /\ Len(done[b]) \in Nat /\ Len(Line(b)) \in Nat /\ Len(done[b]) <= Len(Line(b))
        /\ \A k \in 1 .. Len(done[b]) : Line(b)[k] = done[b][k]
    <3>1. /\ Len(done[b]) \in Nat /\ Len(ring[b]) \in Nat
          /\ Len(Line(b)) = Len(done[b]) + Len(ring[b])
          /\ \A k \in 1 .. Len(done[b]) : Line(b)[k] = done[b][k]
      BY LineFacts DEF RoutingInv
    <3>2. \A p, q \in Nat : p + q \in Nat /\ p <= p + q
      OBVIOUS
    <3> QED  BY <3>1, <3>2
  <2>10. j \in 1 .. Len(Line(b)) /\ Line(b)[j] = e
    BY <2>8, <2>9
  <2>11. i < j
    <3>1. j < i => e < n
      BY <2>7, <2>10 DEF RoutingInv, InOrder
    <3>2. i # j
      BY <2>3, <2>7, <2>10
    <3>3. i \in Int /\ j \in Int
      BY <2>9
    <3> QED  BY <2>2, <2>3, <3>1, <3>2, <3>3
  <2>12. i \in 1 .. Len(done[b]) /\ done[b][i] = n
    BY <2>7, <2>8, <2>9, <2>11
  <2> QED  BY <2>8, <2>11, <2>12 DEF Before, Elements
<1> QED  BY <1>1, RoutingCorrect, PTL

(* No two blocks predict for one s3 cell, and within a block no two cells  *)
(* share a place of the buffer.                                            *)
THEOREM OwnDestinationCorrect == Spec => []OwnDestination
<1>1. RoutingInv => OwnDestination
  <2> SUFFICES ASSUME RoutingInv, NEW v \in written, NEW w \in written
               PROVE  /\ v.x = w.x /\ v.y = w.y => v.block = w.block
                      /\ v.block = w.block /\ v.index = w.index => v.x = w.x /\ v.y = w.y
    BY DEF OwnDestination
  <2> DEFINE p == [x |-> v.x, y |-> v.y]
             q == [x |-> w.x, y |-> w.y]
  <2>1. /\ v.block \in Blocks /\ w.block \in Blocks
        /\ p \in [x : Nat, y : Nat] /\ q \in [x : Nat, y : Nat]
    BY DEF RoutingInv, TypeOK
  <2>2. grid \in Grid /\ Blocks = 0 .. grid.n - 1
    BY GridFacts DEF RoutingInv, TypeOK, Blocks
  <2>3. /\ HasPrediction(grid, v.block, p) /\ v.index = PredictionIndex(grid, v.block, p)
        /\ HasPrediction(grid, w.block, q) /\ w.index = PredictionIndex(grid, w.block, q)
    BY DEF RoutingInv, WrittenInBlock, HasPrediction, PredictionIndex
  <2>4. /\ p.x = v.x /\ p.y = v.y /\ q.x = w.x /\ q.y = w.y
        /\ (v.x = w.x /\ v.y = w.y => p = q)
    OBVIOUS
  <2> HIDE DEF p, q
  <2>5. v.x = w.x /\ v.y = w.y => v.block = w.block
    BY <2>1, <2>2, <2>3, <2>4, OnePredictor
  <2>6. v.block = w.block /\ v.index = w.index => v.x = w.x /\ v.y = w.y
    BY <2>1, <2>2, <2>3, <2>4, OwnPlace
  <2> QED  BY <2>5, <2>6
<1> QED  BY <1>1, RoutingCorrect, PTL

(* Where every boundary is even, each timed prediction has been written,   *)
(* inside the buffer of its block.                                         *)
THEOREM PredictionsOnEvenGridsCorrect == Spec => []PredictionsOnEvenGrids
<1>1. RoutingInv => PredictionsOnEvenGrids
  <2> SUFFICES ASSUME RoutingInv, EvenBoundaries
               PROVE  /\ \A e \in produced : \E w \in written : w.event = e
                      /\ PredictionInBuffer
    BY DEF PredictionsOnEvenGrids
  <2>1. grid \in Grid /\ Blocks = 0 .. grid.n - 1
    BY GridFacts DEF RoutingInv, TypeOK, Blocks
  <2>2. \A b \in Blocks, cell \in [x : Nat, y : Nat] :
           /\ Owns(grid, b, cell) =>
                 HasPrediction(grid, b, [x |-> cell.x \div 2, y |-> cell.y \div 2])
           /\ HasPrediction(grid, b, cell) =>
                 PredictionIndex(grid, b, cell) < PredictionCells(grid, b)
    BY <2>1, EvenBlock DEF EvenBoundaries
  <2>3. ASSUME NEW e \in produced PROVE \E w \in written : w.event = e
    <3> DEFINE cell == [x |-> event[e].x, y |-> event[e].y]
    <3>1. PICK b \in Blocks :
             /\ Owns(grid, b, event[e])
             /\ HasPrediction(grid, b, [x |-> event[e].x \div 2, y |-> event[e].y \div 2])
                   => \E v \in written : v.event = e
      BY DEF RoutingInv, ProducedByOwner
    <3>2. e \in 1 .. Len(event)
      BY DEF RoutingInv, TypeOK
    <3>3. cell \in [x : Nat, y : Nat] /\ Owns(grid, b, cell)
      BY <3>1, <3>2, EventFacts DEF RoutingInv, Owns
    <3>4. HasPrediction(grid, b, [x |-> cell.x \div 2, y |-> cell.y \div 2])
      BY <2>2, <3>3
    <3> QED  BY <3>1, <3>4
  <2>4. ASSUME NEW w \in written PROVE w.index < PredictionCells(grid, w.block)
    <3> DEFINE cell == [x |-> w.x, y |-> w.y]
    <3>1. w.block \in Blocks /\ cell \in [x : Nat, y : Nat]
      BY DEF RoutingInv, TypeOK
    <3>2. HasPrediction(grid, w.block, cell) /\ w.index = PredictionIndex(grid, w.block, cell)
      BY DEF RoutingInv, WrittenInBlock, HasPrediction, PredictionIndex
    <3> HIDE DEF cell
    <3> QED  BY <2>2, <3>1, <3>2
  <2> QED  BY <2>3, <2>4 DEF PredictionInBuffer
<1> QED  BY <1>1, RoutingCorrect, PTL
===============================================================================

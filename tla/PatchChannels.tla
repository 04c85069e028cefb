----------------------------- MODULE PatchChannels -----------------------------
(***************************************************************************)
(* One cell of a layer: from the feature of the event and the hidden state *)
(* of the cell to its new hidden state and its share of the output. The    *)
(* numbers are left out; what is kept is which element of which array      *)
(* meets which: for a product with a weight matrix, the row, the input and *)
(* the place of the weight; for the recurrence, the hidden channel and the *)
(* rows of its query, value and gate. in and out are the channels of the   *)
(* feature and of the cell.                                                *)
(***************************************************************************)
EXTENDS Integers

Lanes == 0 .. 3
\* A vector register holds four channels.
Vectors(channels) == 0 .. channels \div 4 - 1
-----------------------------------------------------------------------------
(* Products. *)
Matvec(in, rows) ==
  {[row |-> r, with |-> i, at |-> r * in + i] : r \in 0 .. rows - 1, i \in 0 .. in - 1}

\* Four rows at a time from row first on, four inputs at a time.
VectorMatvec(in, first, rows) ==
  {[row |-> first + 4 * g + r, with |-> 4 * b + l, at |-> (first + 4 * g + r) * in + (4 * b + l)] :
     g \in Vectors(rows), r \in Lanes, b \in Vectors(in), l \in Lanes}

\* The template, and its specialisations for 12 inputs.
MatvecCt(in, rows) == IF in = 12 THEN VectorMatvec(in, 0, rows) ELSE Matvec(in, rows)

\* Two inputs: a load of eight weights is split into the even ones and the odd ones.
PairedMatvec(rows) ==
  {[row |-> 4 * g + l, with |-> m, at |-> 8 * g + 2 * l + m] :
     g \in Vectors(rows), l \in Lanes, m \in 0 .. 1}

\* load_layer writes goW_T[i * out + j] = goW[j * out + i]: the place of goW at each of its own.
Transposed(out) == [k \in 0 .. out * out - 1 |-> (k % out) * out + (k \div out)]

\* A tile broadcasts its four hidden channels over rows of goW_T.
TiledGather(out) ==
  {[row |-> 4 * v + l, with |-> 4 * t + r,
    at |-> Transposed(out)[(4 * t + r) * out + (4 * v + l)]] :
     v \in Vectors(out), l \in Lanes, t \in Vectors(out), r \in Lanes}

\* What is added to the output: the input itself if the channels stay the same.
Residual(in, out, product) == IF in = out THEN {} ELSE product
-----------------------------------------------------------------------------
(* The recurrence h = sigmoid(g) * h + v, and q * h for the output. *)
\* pack_qvg puts the rows of q, v and g below one another.
Lru(out) ==
  {[h |-> c, q |-> c, v |-> out + c, g |-> 2 * out + c] : c \in 0 .. out - 1}

\* The pointers q, v and g are advanced by four channels.
LruStep(out) ==
  {[h |-> 4 * t + l, q |-> 4 * t + l, v |-> out + (4 * t + l), g |-> 2 * out + (4 * t + l)] :
     t \in Vectors(out), l \in Lanes}

\* All of qvg in registers: vector b of q, n + b of v, 2n + b of g.
VectorLru(out) ==
  LET n == out \div 4
  IN  {[h |-> 4 * b + l, q |-> 4 * b + l, v |-> 4 * (n + b) + l, g |-> 4 * (2 * n + b) + l] :
         b \in Vectors(out), l \in Lanes}
-----------------------------------------------------------------------------
(* What a layer does with a cell: as it is defined, by the generic code, by the fused code. *)
Reference(in, out) ==
  [qvg |-> Matvec(in, 3 * out), lru |-> Lru(out), go |-> Matvec(out, out),
   residual |-> Residual(in, out, Matvec(in, out))]

Generic(in, out) ==
  [qvg |-> MatvecCt(in, 3 * out), lru |-> LruStep(out), go |-> MatvecCt(out, out),
   residual |-> Residual(in, out, MatvecCt(in, out))]

AllAtOnce(in, out) ==
  [qvg |-> VectorMatvec(in, 0, 3 * out), lru |-> VectorLru(out), go |-> VectorMatvec(out, 0, out),
   residual |-> Residual(in, out, VectorMatvec(in, 0, out))]

\* The rows of a tile in q, v or g (parts 0 to 2).
TiledRows(in, out, parts) ==
  UNION {VectorMatvec(in, part * out + 4 * t, 4) : part \in parts, t \in Vectors(out)}

Tiled(in, out) ==
  [qvg |-> TiledRows(in, out, 0 .. 2), lru |-> LruStep(out), go |-> TiledGather(out),
   residual |-> Residual(in, out, VectorMatvec(in, 0, out))]

Patch212 ==
  [qvg |-> PairedMatvec(36), lru |-> VectorLru(12), go |-> VectorMatvec(12, 0, 12),
   residual |-> PairedMatvec(12)]
Patch1212 == AllAtOnce(12, 12)
Patch1212StateOnly == [AllAtOnce(12, 12) EXCEPT !.go = {}]
Patch1224 == AllAtOnce(12, 24)
Patch1224Tiled == Tiled(12, 24)
Patch2424 == AllAtOnce(24, 24)
Patch2424Tiled == Tiled(24, 24)
\* Only the rows of v and g are computed.
Patch2424TiledStateOnly ==
  [qvg |-> TiledRows(24, 24, 1 .. 2), lru |-> LruStep(24), go |-> {}, residual |-> {}]
-----------------------------------------------------------------------------
\* The inputs and weights that go into row r, and what the new hidden state is made of.
RowOf(p, r) == {<<m.with, m.at>> : m \in {k \in p.qvg : k.row = r}}
StateUpdate(p) == {<<u.h, RowOf(p, u.v), RowOf(p, u.g)>> : u \in p.lru}
===============================================================================

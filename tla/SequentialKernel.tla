-------------------------- MODULE SequentialKernel --------------------------
(***************************************************************************)
(* Stages 2 and 3 one event at a time, as the oracle of the kernel's bench *)
(* computes them (orin/bench_s2_s3_head_celled.py, cpu_oracle): what a     *)
(* GPU block must do whatever its warps do at once.  For a stream of       *)
(* events it says which events pass the two tdrops and which updates each  *)
(* hidden cell has had, in order.                                          *)
(*                                                                         *)
(* Layers are numbered 4 to 7 and stages 2 and 3, as in the code.  An      *)
(* update is the event that made it and the layer whose output it was made *)
(* from; the arithmetic, and the weights the offset in the patch selects,  *)
(* are left out.                                                           *)
(***************************************************************************)
EXTENDS Integers, Sequences, FiniteSets

CONSTANTS W2, H2,    \* the s2 grid
          Window     \* tdrop_window

\* Both extents even: the s3 cell of the last row or column of an odd grid is
\* not in the s3 arrays, and nothing in the kernel keeps events off it.
ASSUME SequentialKernelAssumption ==
    /\ W2 \in Nat \ {0} /\ W2 % 2 = 0
    /\ H2 \in Nat \ {0} /\ H2 % 2 = 0
    /\ Window \in Nat

Layers == 4 .. 7
Stages == {2, 3}
StageOf(layer) == IF layer < 6 THEN 2 ELSE 3

\* The grid halves from stage 2 to stage 3, and so do coordinates (>> 1).
Cells(stage) ==
    [x : 0 .. (IF stage = 2 THEN W2 ELSE W2 \div 2) - 1,
     y : 0 .. (IF stage = 2 THEN H2 ELSE H2 \div 2) - 1]
Halve(c) == [x |-> c.x \div 2, y |-> c.y \div 2]
Center(c, stage) == IF stage = 2 THEN [x |-> c.x, y |-> c.y] ELSE Halve(c)

\* layer_step: the cells of the 3x3 patch that lie on the grid.
Patch(c, stage) ==
    {d \in Cells(stage) : /\ d.x - Center(c, stage).x \in -1 .. 1
                          /\ d.y - Center(c, stage).y \in -1 .. 1}

\* _tdrop: the counter before the event decides; a byte, one event in Window.
CounterRange == 256
Lets(pre) == Window <= 1 \/ pre % Window = 0

Earlier(s, n, c, stage) == {m \in 1 .. n - 1 : Center(s[m], stage) = c}
Passes2(s, n) ==
    Lets(Cardinality(Earlier(s, n, Center(s[n], 2), 2)) % CounterRange)

\* An event that stage 2 dropped does not enter stage 3.
Enters(s, n, stage) == stage = 3 => Passes2(s, n)
Counted(s, n, c, stage) ==
    Cardinality({m \in Earlier(s, n, c, stage) : Enters(s, m, stage)})
Passes3(s, n) ==
    /\ Passes2(s, n)
    /\ Lets(Counted(s, n, Center(s[n], 3), 3) % CounterRange)

\* The events whose layer output is used.
Outputs(s, n, layer) ==
    CASE layer = 4 -> TRUE
      [] layer \in {5, 6} -> Passes2(s, n)
      [] layer = 7 -> Passes3(s, n)

\* The hidden state of a cell: the updates of events 1 to n, one event after
\* the other.
Touches(s, n, c, layer) ==
    Enters(s, n, StageOf(layer)) /\ c \in Patch(s[n], StageOf(layer))
Update(n, layer) == [event |-> n, from |-> layer - 1]
History(s, n, c, layer) ==
    LET After[m \in Nat] ==
            IF m = 0 THEN << >>
            ELSE IF Touches(s, m, c, layer)
                 THEN Append(After[m - 1], Update(m, layer))
                 ELSE After[m - 1]
    IN  After[n]

\* What an event's output sums: the cells of its patch, as its update left them.
Summed(s, n, layer) ==
    {[cell |-> c, updates |-> History(s, n, c, layer)] :
        c \in Patch(s[n], StageOf(layer))}
=============================================================================

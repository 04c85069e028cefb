------------------------------ MODULE OracleRun ------------------------------
(***************************************************************************)
(* What the main functions of the multi-threaded schemes (s2 to s8) have   *)
(* in common: the producer, which pushes the events, pushes a marker and   *)
(* waits at every checkpoint, records the predictions, and closes the run. *)
(* And what they are compared with: the single-threaded programs           *)
(* (s1_reference, s2_decomp_st), which take one event after the other      *)
(* through the stages.                                                     *)
(*                                                                         *)
(* An event is its number (seq) and the column of its pixel: the schemes   *)
(* shard by columns. An event outside the sensor has a column outside      *)
(* 0 .. W-1. Rows, features and timestamps are left out.                   *)
(***************************************************************************)
EXTENDS Strips, Sequences, FiniteSets, SequencesExt

CONSTANTS Columns,   \* the columns of the events, in the order of the input
          LastStage,      \* the last stage (3 in the code)
          Window,    \* tdrop window
          Warmup,    \* --warmup
          Every,     \* --oracle-every; 0 stands for no --oracle-dump
          Cap        \* capacity of every queue

VARIABLES todo,      \* what the producer has still to do
          drained,   \* the marker it has waited for last
          q,         \* the queues
          pushed,    \* pushed_seq_max
          mark,      \* what a thread has published: marker_done, committed_seq, next_emit_seq
          done,      \* the done flag
          snaps,     \* the oracle: what had been decoded at each checkpoint
          log,       \* what has been computed, see the schemes
          thr        \* the local state of the threads

vars == <<todo, drained, q, pushed, mark, done, snaps, log, thr>>
-----------------------------------------------------------------------------
(* The single-threaded reference. *)
Total == Len(Columns)
Seqs == 0 .. Total - 1
Column(e) == Columns[e + 1]
InBounds(e) == Column(e) \in GridColumns
At(e, s) == Column(e) \div 2^s               \* tdrop_and_pool halves the coordinate
Width(s) == W \div 2^s                       \* columns at stage s

\* Of the events that reach the counter of one pooled cell, every Window-th passes.
PassesNth(n) == n % Window = 0

\* The last stage each event gets to; -1 outside the sensor.
Ended[e \in Seqs] ==
  LET Before(s) == {d \in 0 .. e - 1 : /\ Ended[d] >= s
                                       /\ At(d, s + 1) = At(e, s + 1)}
      Drops == {s \in 0 .. LastStage - 1 : ~PassesNth(Cardinality(Before(s)))}
  IN  IF ~InBounds(e) THEN -1
      ELSE CHOOSE s \in Drops \cup {LastStage} : \A t \in Drops : s <= t

\* The events below m that go through stage s, in order.
Reference(s, m) == SelectSeq([i \in 1 .. m |-> i - 1], LAMBDA e : Ended[e] >= s)

\* tdrop_and_pool(s) for an event at the end of a stage's log.
Survives(e, seen, s) ==
  PassesNth(Len(SelectSeq(seen, LAMBDA d : At(d, s + 1) = At(e, s + 1))))

\* One thread that takes e from tdrop_and_pool(0) to the head.
RunStages(stage, e) ==
  LET Drops == {s \in 0 .. LastStage - 1 : ~Survives(e, stage[s], s)}
      end == CHOOSE s \in Drops \cup {LastStage} : \A t \in Drops : s <= t
  IN  [s \in DOMAIN stage |-> IF s <= end THEN Append(stage[s], e) ELSE stage[s]]

\* Bit 0 of a shard's mask stands for column x + 1: in the last column nobody has it.
HasBitZero(k, x) == x + 1 \in GridColumns /\ ShardOf(x + 1) = k
\* The cells shard_layer_forward updates. Layer 0 has one position: the event's own column, if
\* bit 0 is set. Layer 1 has nine: the columns of the patch that k owns.
UpdatedBy(l, k, x) == IF l = 0 THEN {c \in {x} : HasBitZero(k, x)} ELSE OwnedPatch(k, x)
Applied(l, k, e) ==
  [log EXCEPT !.cells[l] = [c \in GridColumns |->
      IF c \in UpdatedBy(l, k, Column(e)) THEN Append(@[c], e) ELSE @[c]]]
-----------------------------------------------------------------------------
(* The producer's program. *)
Push(to, type, seq) == [op |-> "push", to |-> to, msg |-> [type |-> type, seq |-> seq]]
Do(op, seq) == [op |-> op, seq |-> seq]

\* events[e] are the pushes of an event, markers[m] those of a marker.
Program(events, markers, Close) ==
  LET Drain(m) == markers[m] \o <<Do("wait", m)>>
      Measured(e) == IF Every > 0 /\ (e - Warmup) % Every = 0
                     THEN events[e] \o Drain(e + 1) \o <<Do("record", e + 1)>>
                     ELSE events[e]
  IN  FlattenSeq([i \in 1 .. Warmup |-> events[i - 1]]) \o Drain(Warmup)
      \o FlattenSeq([i \in 1 .. Total - Warmup |-> Measured(Warmup + i - 1)])
      \o Drain(Total) \o Close

HasRoom(k) == Len(q[k]) < Cap
Sent(k, m) == [q EXCEPT ![k] = Append(@, m)]
Popped(k) == [q EXCEPT ![k] = Tail(@)]

\* One instruction; a push spins while the queue is full, a wait until finished has come to its
\* number.
Produce(finished, output) ==
  /\ todo # <<>> /\ todo' = Tail(todo)
  /\ LET do == Head(todo)
     IN  \/ do.op = "push" /\ HasRoom(do.to) /\ q' = Sent(do.to, do.msg)
            /\ UNCHANGED <<drained, pushed, done, snaps>>
         \/ do.op = "publish" /\ pushed' = do.seq /\ UNCHANGED <<drained, q, done, snaps>>
         \/ do.op = "wait" /\ finished >= do.seq /\ drained' = do.seq
            /\ UNCHANGED <<q, pushed, done, snaps>>
         \/ do.op = "record" /\ snaps' = Append(snaps, <<do.seq, output>>)
            /\ UNCHANGED <<drained, q, pushed, done>>
         \/ do.op = "done" /\ done' = TRUE /\ UNCHANGED <<drained, q, pushed, snaps>>
  /\ UNCHANGED <<mark, log, thr>>

NoStages == [s \in 0 .. LastStage |-> <<>>]

StartOf(program, queues, marks, logs, threads) ==
  /\ todo = program /\ drained = 0 /\ q = [k \in queues |-> <<>>] /\ pushed = 0 /\ mark = marks
  /\ done = FALSE /\ snaps = <<>> /\ log = logs /\ thr = threads
-----------------------------------------------------------------------------
(* What the properties of the schemes are stated with. *)
AllQueuesEmpty == \A k \in DOMAIN q : q[k] = <<>>
Count(seen, e) == Cardinality({i \in DOMAIN seen : seen[i] = e})
\* Each event of a set has been taken once by each column of its patch and by no other.
OnceInPatch(cells, events, Patch(_)) ==
  \A e \in events : \A c \in DOMAIN cells : Count(cells[c], e) = (IF c \in Patch(e) THEN 1 ELSE 0)
PatchOf(e) == PatchColumns(Column(e))
\* What the shards of s3 and s4 update together: layer 0 is not updated in the last column.
SharedPatch(l, e) == IF l = 0 THEN {Column(e)} \ {W - 1} ELSE PatchOf(e)
AppliedOnceIn(events) ==
  \A l \in {0, 1} : LET Patch(e) == SharedPatch(l, e) IN OnceInPatch(log.cells[l], events[l], Patch)
\* The events whose patch has column c.
Reaching(c) == SelectSeq([i \in 1 .. Total |-> i - 1], LAMBDA e : InBounds(e) /\ c \in PatchOf(e))

\* The decisions at the counter of each pooled cell are the reference's, in its order.
DecidedInOrder(seen, s) ==
  \A c \in {At(e, s + 1) : e \in Seqs} :
    IsPrefix(SelectSeq(seen, LAMBDA e : At(e, s + 1) = c),
             SelectSeq(Reference(s, Total), LAMBDA e : At(e, s + 1) = c))

\* The same of one shard of stage s, on the whole cells: those whose columns have one owner at
\* every stage that they are pooled from. Each event comes after just those that it does there.
Below(c, s, t) == {x \div 2^t : x \in {y \in GridColumns : y \div 2^s = c}}
Whole(c, s) == \A t \in 0 .. s - 1 : Cardinality({OwnerIn(d, Width(t)) : d \in Below(c, s, t)}) = 1
WholeAsReference(seen, s, p) ==
  LET taken == {d \in Seqs : Ended[d] >= s}
      whole == {c \in {At(d, p) : d \in Seqs} : Whole(c, p)}
  IN  \A i \in DOMAIN seen :
        LET here == {d \in Seqs : At(d, p) = At(seen[i], p)}
        IN  At(seen[i], p) \in whole =>
              /\ seen[i] \in taken
              /\ {seen[j] : j \in 1 .. i - 1} \cap here = {d \in taken \cap here : d < seen[i]}

\* All that the reference takes through the stages below m has been taken.
CompleteTo(m, stage) == \A s \in DOMAIN stage : \A i \in DOMAIN Reference(s, m) :
                           Reference(s, m)[i] \in {stage[s][j] : j \in DOMAIN stage[s]}
=============================================================================

---------------------------- MODULE MCHybridRun ----------------------------
(* The programs of the repository with two shards of two columns and of    *)
(* one, rings of one slot and batches of up to two events.                 *)
EXTENDS HybridRun

AllPrograms ==
    { [runner |-> r, source |-> "caller"] : r \in {"bench0", "bench01"} }
      \cup [runner : {"two", "multi"}, source : {"reader", "synth"}]
=============================================================================

------------------------------ MODULE MCLegacy ------------------------------
(***************************************************************************)
(* The legacy schemes and the single-threaded programs on small inputs,     *)
(* one after the other: scheme says which of them runs.                    *)
(***************************************************************************)
EXTENDS Integers

CONSTANT Schemes
VARIABLES scheme, todo, drained, q, pushed, mark, done, snaps, log, thr
vars == <<scheme, todo, drained, q, pushed, mark, done, snaps, log, thr>>

S2 == INSTANCE StagePipeline WITH
        Columns <- <<0, 1, 1, 0, 4, 1>>, W <- 4, N <- 1, LastStage <- 2, Warmup <- 1, Every <- 3, Cap <- 2, Window <- 2
S3 == INSTANCE ShardSums WITH
        Columns <- <<2, 3, 4>>, W <- 4, N <- 2, LastStage <- 1, Warmup <- 1, Every <- 2, Cap <- 1, Window <- 2
S3OVER == INSTANCE ShardSums WITH
        Columns <- <<2, 3>>, W <- 4, N <- 2, LastStage <- 1, Warmup <- 0, Every <- 0, Cap <- 1, Window <- 2
S4 == INSTANCE OwnerShards WITH
        Columns <- <<1, 2>>, W <- 4, N <- 2, LastStage <- 0, Warmup <- 0, Every <- 0, Cap <- 1, Window <- 2
S4FULL == INSTANCE OwnerShards WITH
        Columns <- <<1, 1>>, W <- 4, N <- 2, LastStage <- 0, Warmup <- 0, Every <- 0, Cap <- 1, Window <- 2
S5 == INSTANCE MergedShards WITH
        Columns <- <<1, 2>>, W <- 4, N <- 2, LastStage <- 0, Warmup <- 1, Every <- 0, Cap <- 1, Window <- 2
S6 == INSTANCE FullShards WITH
        Columns <- <<0, 1>>, W <- 2, N <- 2, LastStage <- 1, Warmup <- 0, Every <- 0, Cap <- 2, Window <- 2
S7 == INSTANCE Replicas WITH
        Columns <- <<2, 3, 6, 4, 2, 3>>, W <- 6, N <- 2, LastStage <- 1, Warmup <- 1, Every <- 4, Cap <- 1, Window <- 2
S8 == INSTANCE StageShards WITH
        Columns <- <<1, 0, 1>>, W <- 6, N <- 2, LastStage <- 1, Halo <- 1, Warmup <- 1, Every <- 0, Cap <- 1, Window <- 2
S8CUT == INSTANCE StageShards WITH
        Columns <- <<2, 3>>, W <- 6, N <- 2, LastStage <- 1, Halo <- 1, Warmup <- 1, Every <- 0, Cap <- 1, Window <- 2
S0 == INSTANCE Stage0Shards WITH
        Columns <- <<2, 1, 3, 0, 4, 2, 3>>, W <- 6, N <- 2, LastStage <- 1, Halo <- 1, Warmup <- 2, Every <- 0, Cap <- 2, Window <- 2
S1 == INSTANCE SinglePipeline WITH
        Program <- "decomp", Pixels <- <<<<3, 3>>, <<3, 3>>, <<2, 4>>, <<9, 1>>, <<2, 3>>, <<5, 3>>>>,
        Halo <- {}, W <- 8, H <- 8, Levels <- 2, Window <- 2, Warmup <- 1, Every <- 2
SHARD == INSTANCE SinglePipeline WITH
        Program <- "shard", Pixels <- <<<<3, 3>>, <<3, 3>>, <<2, 4>>, <<0, 7>>, <<2, 3>>, <<3, 2>>, <<5, 3>>>>,
        Halo <- {3}, W <- 8, H <- 8, Levels <- 2, Window <- 2, Warmup <- 0, Every <- 0
STAGE0 == INSTANCE SinglePipeline WITH
        Program <- "stage0", Pixels <- <<<<7, 0>>, <<3, 3>>, <<8, 0>>, <<6, 1>>, <<3, 2>>>>,
        Halo <- {}, W <- 8, H <- 8, Levels <- 2, Window <- 2, Warmup <- 1, Every <- 0
BENCH == INSTANCE MulticoreBench WITH
        Mode <- "strip", Columns <- <<0, 3, 1, 0, 4, 5, 1, 0>>, N <- 3, Warmup <- 2, Failing <- {}
BENCHALL == INSTANCE MulticoreBench WITH
        Mode <- "replicate", Columns <- <<0, 3, 1, 0>>, N <- 2, Warmup <- 2, Failing <- {1}
-----------------------------------------------------------------------------
\* What the single-threaded programs have no use for.
Unused == <<todo, drained, q, pushed, mark, done>>

Init ==
  /\ scheme \in Schemes
  /\ \/ scheme = "s2" /\ S2!Init
     \/ scheme = "s3" /\ S3!Init
     \/ scheme = "s3over" /\ S3OVER!Init
     \/ scheme = "s4" /\ S4!Init
     \/ scheme = "s4full" /\ S4FULL!Init
     \/ scheme = "s5" /\ S5!Init
     \/ scheme = "s6" /\ S6!Init
     \/ scheme = "s7" /\ S7!Init
     \/ scheme = "s8" /\ S8!Init
     \/ scheme = "s8cut" /\ S8CUT!Init
     \/ scheme = "s0" /\ S0!Init
     \/ /\ todo = <<>> /\ drained = 0 /\ q = <<>> /\ pushed = 0 /\ mark = <<>> /\ done = FALSE
        /\ \/ scheme = "s1" /\ S1!Init
           \/ scheme = "shard" /\ SHARD!Init
           \/ scheme = "stage0" /\ STAGE0!Init
           \/ scheme = "bench" /\ BENCH!Init /\ snaps = <<>>
           \/ scheme = "benchall" /\ BENCHALL!Init /\ snaps = <<>>

Producer ==
  /\ UNCHANGED scheme
  /\ \/ scheme = "s2" /\ S2!Producer
     \/ scheme = "s3" /\ S3!Producer
     \/ scheme = "s3over" /\ S3OVER!Producer
     \/ scheme = "s4" /\ S4!Producer
     \/ scheme = "s4full" /\ S4FULL!Producer
     \/ scheme = "s5" /\ S5!Producer
     \/ scheme = "s6" /\ S6!Producer
     \/ scheme = "s7" /\ S7!Producer
     \/ scheme = "s8" /\ S8!Producer
     \/ scheme = "s8cut" /\ S8CUT!Producer
     \/ scheme = "s0" /\ S0!Producer

Thread(t) ==
  /\ UNCHANGED scheme
  /\ \/ scheme = "s2" /\ S2!Thread(t)
     \/ scheme = "s3" /\ S3!Thread(t)
     \/ scheme = "s3over" /\ S3OVER!Thread(t)
     \/ scheme = "s4" /\ S4!Thread(t)
     \/ scheme = "s4full" /\ S4FULL!Thread(t)
     \/ scheme = "s5" /\ S5!Thread(t)
     \/ scheme = "s6" /\ S6!Thread(t)
     \/ scheme = "s7" /\ S7!Thread(t)
     \/ scheme = "s8" /\ S8!Thread(t)
     \/ scheme = "s8cut" /\ S8CUT!Thread(t)
     \/ scheme = "s0" /\ S0!Thread(t)
     \/ /\ UNCHANGED Unused
        /\ \/ scheme = "s1" /\ S1!Thread(t)
           \/ scheme = "shard" /\ SHARD!Thread(t)
           \/ scheme = "stage0" /\ STAGE0!Thread(t)
           \/ scheme = "bench" /\ BENCH!Thread(t) /\ UNCHANGED snaps
           \/ scheme = "benchall" /\ BENCHALL!Thread(t) /\ UNCHANGED snaps

Next == Producer \/ \E t \in 0 .. 3 : Thread(t)
\* The schemes whose end is stated (RunEnds).
Ending == scheme \in {"s2", "s3", "s5", "s6", "s7", "s0", "bench", "benchall"}
\* Every thread runs on; a thread that spins on a full or an empty ring is not starved.
Spec == /\ Init /\ [][Next]_vars
        /\ WF_vars(Ending /\ Producer)
        /\ \A t \in 0 .. 3 : WF_vars(Ending /\ Thread(t))
-----------------------------------------------------------------------------
\* Which events a stage lets pass, and in what order at each pooled cell, is what the single
\* thread of s1_reference decides: for the pipeline and the sum thread in the whole order of
\* the input, for s7 on the events a shard owns, for s8 and stage 0, whose shards have counters
\* of their own, on each cell that no strip boundary divides. No shard of s8 decides twice.
DecidedAsReference ==
  /\ scheme = "s2" => S2!StagesAsReference
  /\ scheme = "s3" => S3!StagesAsReference
  /\ scheme = "s3over" => S3OVER!StagesAsReference
  /\ scheme = "s7" => S7!OwnedAsReference
  /\ scheme = "s8" => S8!DecidedOnce
  /\ scheme = "s8cut" => S8CUT!DecidedOnce
  /\ scheme = "s0" => S0!DecidedOnce

\* When the producer passes a wait for a marker, all events before it have been through their
\* stages, and the recorded predictions are those of the reference. For s6 and s7 unless a
\* shard has committed an event that was still in its queue. The checkpoints of the single
\* thread of s2_decomp_st hold for each cell of a head the last event that passed to it, and
\* multicore_bench measures nobody while another worker still warms up.
DrainsComplete ==
  /\ scheme = "s1" => S1!PredictionsLatest
  /\ scheme = "s2" => S2!DrainsComplete
  /\ scheme = "s3" => S3!DrainsComplete
  /\ scheme = "s3over" => S3OVER!DrainsComplete
  /\ scheme = "s6" => S6!DrainsComplete
  /\ scheme = "s7" => S7!DrainsComplete
  /\ scheme = "bench" => BENCH!StartsTogether
  /\ scheme = "benchall" => BENCHALL!StartsTogether

\* Every event that has left a layer has updated each cell of its patch exactly once and no
\* other cell, over the shards that share the patch (s3, s4) and under the locks of the shared
\* cells (s5, s6). In s3 and s4 layer 0 is updated by the owner of the column to the right of
\* the event, in the last column by nobody (see UpdatesAsReference). For s4 as long as no
\* contribution ring has had two producers at once; and its sum is finalised more than once
\* only if the ring to the stages can have been full. In the
\* single-threaded programs every cell of each layer takes the events around it once, in order
\* and with the weights of their position, whether the interior or the border code runs, and
\* with the same weights and inputs where the output is left out (RoutinesAgree).
AppliedOnce ==
  /\ scheme = "s1" => S1!AppliedOnce /\ S1!RoutinesAgree
  /\ scheme = "shard" => SHARD!AppliedOnce /\ SHARD!RoutinesAgree
  /\ scheme = "stage0" => STAGE0!AppliedOnce /\ STAGE0!RoutinesAgree
  /\ scheme = "s3" => S3!AppliedOnce
  /\ scheme = "s3over" => S3OVER!AppliedOnce
  /\ scheme = "s4" => S4!AppliedOnce
  /\ scheme = "s4full" => S4FULL!AppliedOnce
  /\ scheme = "s5" => S5!AppliedOnce
  /\ scheme = "s6" => S6!AppliedOnce

\* A cell takes its events in the order of the input, and a shard with a halo sees every event
\* that reaches its columns and no event twice (s3, s7, s8, stage 0); at the later stages of s8
\* this is said of the cells that no strip boundary divides. The sum thread of s3
\* finalises a layer in the order of the events and with the partial of every shard that owns a
\* column of the patch, however late the partials arrive. The time difference an event is fed
\* with is to the event before it at its pixel.
CellsInOrder ==
  /\ scheme = "s3" => S3!CellsInOrder /\ S3!SumsComplete
  /\ scheme = "s3over" => S3OVER!CellsInOrder /\ S3OVER!SumsComplete
  /\ scheme = "s1" => S1!DtOfPixel
  /\ scheme = "shard" => SHARD!DtOfPixel
  /\ scheme = "s7" => S7!CellsInOrder
  /\ scheme = "s8" => S8!CellsInOrder
  /\ scheme = "s8cut" => S8CUT!CellsInOrder
  /\ scheme = "s0" => S0!CellsInOrder

\* When all threads have been joined no event is left in a ring, only a last marker or an Eof may
\* be, and every event has been taken to its end once; the statistics of stage 0 (but for passes
\* on divided cells), and what multicore_bench reports, are those of the events after the warm-up.
EndsClean ==
  /\ scheme = "s1" => S1!EndsClean
  /\ scheme = "shard" => SHARD!EndsClean
  /\ scheme = "stage0" => STAGE0!EndsClean
  /\ scheme = "bench" => BENCH!EndsClean
  /\ scheme = "benchall" => BENCHALL!EndsClean
  /\ scheme = "s3" => S3!EndsClean
  /\ scheme = "s3over" => S3OVER!EndsClean
  /\ scheme = "s4" => S4!EndsClean
  /\ scheme = "s4full" => S4FULL!EndsClean
  /\ scheme = "s5" => S5!EndsClean
  /\ scheme = "s6" => S6!EndsClean
  /\ scheme = "s7" => S7!EndsClean
  /\ scheme = "s0" => S0!EndsClean

\* docs/DEV_LOG.md:690-692 of s3: "stage 0 hidden state is partitioned by column ownership; per-event
\* partial sums accumulate to the same total a single-thread pass would produce". Every event of
\* a finalised layer has updated the cells that a single thread would: violated in the last column.
UpdatesAsReference == scheme = "s3" => S3!UpdatesAsReference

\* Every run of the schemes for which it is stated ends: no thread waits for a full ring, a marker
\* or an Eof for ever. But for the pipeline s2 whose first stage reads the done flag before the
\* Eof, and for multicore_bench, which waits for ever for a worker that has failed.
RunEnds == <>(\/ ~Ending
              \/ scheme = "s2" /\ (S2!RunEnded \/ S2!EofMissed)
              \/ scheme = "s3" /\ S3!RunEnded
              \/ scheme = "s5" /\ S5!RunEnded
              \/ scheme = "s6" /\ S6!RunEnded
              \/ scheme = "s7" /\ S7!RunEnded
              \/ scheme = "s0" /\ S0!RunEnded
              \/ scheme = "bench" /\ BENCH!RunEnded
              \/ scheme = "benchall" /\ (BENCHALL!RunEnded \/ BENCHALL!Stranded))
=============================================================================

------------------------------ MODULE HybridRun ------------------------------
(***************************************************************************)
(* The programs around the shard libraries, from launch to exit: who       *)
(* submits events, who takes statistics, who stops whom and in what order. *)
(*                                                                         *)
(*   bench0, bench01  orin/legacy/live_stage{0,01}_bench.py on the CPU     *)
(*                    libraries: the main thread submits by itself         *)
(*   two              orin/hybrid_runner.py                                *)
(*   multi            orin/hybrid_runner_multi.py, with its display or     *)
(*                    without: it adds one more way to signal and to leave *)
(*                                                                         *)
(* The hybrid runners take their events from a reader thread in Python or  *)
(* from the dispatching thread of the library (synth).  What the shards    *)
(* compute is the business of CpuShards and what becomes of an event on    *)
(* the GPU that of GpuRing and CelledKernel: here an event passes a tdrop  *)
(* or not, freely, and of the GPU remain its kernel and what was pushed.   *)
(***************************************************************************)
EXTENDS Integers, Sequences, Functions

CONSTANTS Programs,   \* which programs run, each a record [runner, source]
          Width, N,   \* columns and shards
          Halo,       \* halo
          QueueCap,   \* capacity of a shard's ring
          BatchSize,  \* bound: events in a batch
          MaxEvents   \* bound: events of a run

StripW == (Width + N - 1) \div N

ASSUME RunAssumption ==
    /\ Programs \subseteq [runner : {"bench0", "bench01", "two", "multi"},
                           source : {"caller", "reader", "synth"}]
    /\ \A p \in Programs : p.source = "caller" <=> p.runner \in {"bench0", "bench01"}
    /\ Width \in Nat \ {0} /\ N \in Nat \ {0} /\ Halo \in Nat /\ QueueCap \in Nat \ {0}
    /\ BatchSize \in Nat /\ MaxEvents \in Nat

VARIABLES
    program,      \* which program runs
    main, at,     \* the main thread, and how far it is in a loop of the library
    stop,         \* stop_event, cam_stop_event
    stopFlag,     \* *stop_flag, read by the kernel
    signalled,    \* history: the multi-block runner was told to stop
    timedOut,     \* history: join(timeout) gave up
    sums,         \* the snapshot being taken
    handle,       \* the library's handle: none, live, freed, or null for Python
    synthRunning, \* synth_running
    queue,        \* q_in of each shard
    returned,     \* which workers have returned
    count,        \* total_owner, total_halo, pass_stage0, pass_stage1
    pushed,       \* n_pushed of the GPU block
    nOob,         \* n_oob
    source,       \* the thread that submits: off, poll, waiting, submit, exited
    batch, to,    \* what it has still to submit, and the rings left for its event
    accepted, eventsIn,  \* what submit_batch returns, and their sum
    admitted, refused,   \* history: events admitted of each column, and out of bounds
    kernel        \* the persistent kernel: off, running, exited

controlVars == <<stop, stopFlag, signalled, timedOut>>
shardVars == <<returned, count, pushed>>
sourceVars == <<source, batch, to, accepted, eventsIn, admitted, refused, nOob>>
vars == <<program, main, at, controlVars, sums, handle, synthRunning, queue,
          shardVars, sourceVars, kernel>>

Shard == 0 .. N - 1
Column == 0 .. Width - 1
Counters == {"owner", "halo", "pass0", "pass1"}
Zero == [c \in Counters |-> 0]
Eof == [column |-> -1, owner |-> FALSE]

Runner == program.runner
Source == program.source
OnGpu == Runner \in {"two", "multi"}

Init ==
    /\ program \in Programs
    /\ main = "launch" /\ at = 0
    /\ stop = FALSE /\ stopFlag = FALSE /\ signalled = FALSE /\ timedOut = FALSE
    /\ sums = Zero
    /\ handle = "none" /\ synthRunning = FALSE
    /\ queue = [k \in Shard |-> << >>]
    /\ returned = Shard /\ count = [k \in Shard |-> Zero] /\ pushed = 0 /\ nOob = 0
    /\ source = "off" /\ batch = << >> /\ to = << >> /\ accepted = 0 /\ eventsIn = 0
    /\ admitted = [x \in Column |-> 0] /\ refused = 0
    /\ kernel = "off"

Events == SumFunctionOnSet(admitted, Column)

-----------------------------------------------------------------------------
(* The thread that submits.                                                *)

OwnerOf(x) == IF x \div StripW < N THEN x \div StripW ELSE N - 1
InGrid(x) == x \in Column

\* The rings an event goes to, in the order of dk = -1 .. 1.
Reached(x) ==
    LET Ring(k) == IF k \in Shard /\ k * StripW - Halo <= x /\ x < (k + 1) * StripW + Halo
                   THEN <<k>> ELSE << >>
    IN  Ring(x \div StripW - 1) \o Ring(x \div StripW) \o Ring(x \div StripW + 1)

\* The columns an event may have: multi drops those outside the grid, synth makes none.
Offered == IF (Runner = "two" /\ Source = "reader") \/ Source = "caller"
           THEN Column \cup {Width} ELSE Column
Batches == UNION {[1 .. n -> Offered] : n \in 1 .. IF Source = "synth" THEN 1 ELSE BatchSize}

\* The top of the loop: the reader looks at the stop event, synth at synth_running, and
\* the caller is the main thread in its own loop.
GoesOn ==
    CASE Source = "reader" -> ~stop
      [] Source = "synth"  -> synthRunning
      [] Source = "caller" -> main = "loop"

\* Bound: synth, which always submits next, stays here after MaxEvents.
Poll ==
    /\ source = "poll" /\ GoesOn
    /\ Source = "synth" => Events < MaxEvents
    /\ source' = "waiting"
    /\ UNCHANGED <<program, main, at, controlVars, sums, handle, synthRunning, queue,
                   shardVars, batch, to, accepted, eventsIn, admitted, refused, nOob, kernel>>

SourceExit ==
    /\ source = "poll" /\ Source # "caller" /\ ~GoesOn
    /\ source' = "exited"
    /\ UNCHANGED <<program, main, at, controlVars, sums, handle, synthRunning, queue,
                   shardVars, batch, to, accepted, eventsIn, admitted, refused, nOob, kernel>>

\* getNextEventBatch returns no batch, or one that is submitted; with a null handle
\* submit_batch returns 0 at once.
NoBatch ==
    /\ source = "waiting" /\ Source # "synth"
    /\ source' = "poll"
    /\ UNCHANGED <<program, main, at, controlVars, sums, handle, synthRunning, queue,
                   shardVars, batch, to, accepted, eventsIn, admitted, refused, nOob, kernel>>

Submit(events) ==
    /\ source = "waiting" /\ handle # "null"
    /\ Events + refused + Len(events) <= MaxEvents
    /\ source' = "submit" /\ batch' = events /\ accepted' = 0
    /\ eventsIn' = IF Source = "caller" THEN eventsIn + Len(events) ELSE eventsIn
    /\ UNCHANGED <<program, main, at, controlVars, sums, handle, synthRunning, queue,
                   shardVars, to, admitted, refused, nOob, kernel>>

TakeEvent ==
    /\ source = "submit" /\ to = << >> /\ batch # << >>
    /\ LET x == Head(batch) IN
         IF InGrid(x)
         THEN /\ to' = Reached(x) /\ admitted' = [admitted EXCEPT ![x] = @ + 1]
              /\ UNCHANGED <<batch, nOob, refused>>
         ELSE /\ nOob' = nOob + 1 /\ refused' = refused + 1 /\ batch' = Tail(batch)
              /\ UNCHANGED <<to, admitted>>
    /\ UNCHANGED <<program, main, at, controlVars, sums, handle, synthRunning, queue,
                   shardVars, source, accepted, eventsIn, kernel>>

\* push waits while the ring is full; after the last ring the event counts as accepted.
PushNext ==
    /\ source = "submit" /\ to # << >>
    /\ Len(queue[Head(to)]) < QueueCap
    /\ queue' = [queue EXCEPT ![Head(to)] =
           Append(@, [column |-> Head(batch), owner |-> Head(to) = OwnerOf(Head(batch))])]
    /\ to' = Tail(to)
    /\ IF Len(to) = 1
       THEN batch' = Tail(batch) /\ accepted' = accepted + 1
       ELSE UNCHANGED <<batch, accepted>>
    /\ UNCHANGED <<program, main, at, controlVars, sums, handle, synthRunning,
                   shardVars, source, eventsIn, admitted, refused, nOob, kernel>>

\* synth counts its event, a reader what was accepted, a bench all that it offered.
SubmitReturns ==
    /\ source = "submit" /\ to = << >> /\ batch = << >>
    /\ source' = "poll" /\ accepted' = 0
    /\ eventsIn' = IF Source = "caller" THEN eventsIn ELSE eventsIn + accepted
    /\ UNCHANGED <<program, main, at, controlVars, sums, handle, synthRunning, queue,
                   shardVars, batch, to, admitted, refused, nOob, kernel>>

SourceRuns == SourceExit \/ TakeEvent \/ PushNext \/ SubmitReturns

-----------------------------------------------------------------------------
(* The shard workers.                                                      *)

\* An owner's event may pass tdrop 0, and then tdrop 1 (libstage0 has none), after which
\* only the hybrid library pushes it.  The increments of an event are one step here.
Handle(k, pass0, pass1) ==
    LET owner == Head(queue[k]).owner
        counted == {IF owner THEN "owner" ELSE "halo"}
                     \cup (IF pass0 THEN {"pass0"} ELSE {})
                     \cup (IF pass1 THEN {"pass1"} ELSE {}) IN
    /\ k \notin returned /\ queue[k] # << >> /\ Head(queue[k]) # Eof
    /\ pass1 => pass0 /\ Runner # "bench0"
    /\ pass0 => owner
    /\ queue' = [queue EXCEPT ![k] = Tail(@)]
    /\ count' = [count EXCEPT ![k] =
           [c \in Counters |-> @[c] + IF c \in counted THEN 1 ELSE 0]]
    /\ pushed' = IF pass1 /\ OnGpu THEN pushed + 1 ELSE pushed
    /\ UNCHANGED <<program, main, at, controlVars, sums, handle, synthRunning,
                   returned, sourceVars, kernel>>

TakeEof(k) ==
    /\ k \notin returned /\ queue[k] # << >> /\ Head(queue[k]) = Eof
    /\ returned' = returned \cup {k}
    /\ queue' = [queue EXCEPT ![k] = Tail(@)]
    /\ UNCHANGED <<program, main, at, controlVars, sums, handle, synthRunning,
                   count, pushed, sourceVars, kernel>>

Worker(k) ==
    \/ \E pass0, pass1 \in BOOLEAN : Handle(k, pass0, pass1)
    \/ TakeEof(k)

-----------------------------------------------------------------------------
(* The persistent kernel.                                                  *)

KernelExit ==
    /\ kernel = "running" /\ stopFlag
    /\ kernel' = "exited"
    /\ UNCHANGED <<program, main, at, controlVars, sums, handle, synthRunning, queue,
                   shardVars, sourceVars>>

-----------------------------------------------------------------------------
(* The main thread: setting up.                                            *)

Launch ==
    /\ main = "launch"
    /\ main' = "init"
    /\ kernel' = IF OnGpu THEN "running" ELSE kernel
    /\ UNCHANGED <<program, at, controlVars, sums, handle, synthRunning, queue, shardVars,
                   sourceVars>>

\* Mutant: the source starts before the statistics are reset.
InitLibraryStarted ==
    /\ main = "init"
    /\ main' = "reset" /\ handle' = "live" /\ returned' = {}
    /\ source' = "poll" /\ synthRunning' = (Source = "synth")
    /\ UNCHANGED <<program, at, controlVars, sums, queue, count, pushed, batch, to, accepted,
                   eventsIn, admitted, refused, nOob, kernel>>

InitLibrary ==
    /\ main = "init"
    /\ main' = "reset" /\ handle' = "live" /\ returned' = {}
    /\ UNCHANGED <<program, at, controlVars, sums, synthRunning, queue, count, pushed,
                   sourceVars, kernel>>

\* reset_stats, shard by shard and then the counters of the handle.
ResetShard ==
    /\ main = "reset" /\ at < N
    /\ count' = [count EXCEPT ![at] = Zero]
    /\ at' = at + 1
    /\ UNCHANGED <<program, main, controlVars, sums, handle, synthRunning, queue,
                   returned, pushed, sourceVars, kernel>>

ResetDone ==
    /\ main = "reset" /\ at = N
    /\ main' = "start" /\ at' = 0 /\ pushed' = 0 /\ nOob' = 0
    /\ UNCHANGED <<program, controlVars, sums, handle, synthRunning, queue, returned,
                   count, source, batch, to, accepted, eventsIn, admitted, refused, kernel>>

StartSource ==
    /\ main = "start"
    /\ main' = "loop" /\ source' = "poll" /\ synthRunning' = (Source = "synth")
    /\ UNCHANGED <<program, at, controlVars, sums, handle, queue, shardVars, batch, to,
                   accepted, eventsIn, admitted, refused, nOob, kernel>>

-----------------------------------------------------------------------------
(* The main thread: running.  It is itself the source of a bench.           *)

MainFree == main = "loop" /\ (Source = "caller" => source = "poll")

\* SIGINT, or ESC in the display: hybrid_runner asks the reader to stop, the multi-block
\* runner stops the kernel at once.
Signal ==
    /\ OnGpu /\ main \in {"loop", "join"}
    /\ IF Runner = "two" THEN stop' = TRUE /\ UNCHANGED <<stopFlag, signalled>>
       ELSE stopFlag' = TRUE /\ signalled' = TRUE /\ UNCHANGED stop
    /\ UNCHANGED <<program, main, at, timedOut, sums, handle, synthRunning, queue,
                   shardVars, sourceVars, kernel>>

\* A row of statistics.
PrintRow ==
    /\ MainFree /\ Runner # "multi"
    /\ main' = "row" /\ sums' = Zero
    /\ UNCHANGED <<program, at, controlVars, handle, synthRunning, queue, shardVars,
                   sourceVars, kernel>>

\* The loop ends when duration_s have passed, which may be now; two also ends when stop is
\* set and multi when its display was closed, but a SIGINT alone does not end multi.
Leave ==
    /\ MainFree
    /\ main' = CASE Source = "caller" -> "final" [] Source = "synth" -> "stopSynth"
                 [] Source = "reader" -> "join"
    /\ stop' = (stop \/ Source = "reader" \/ Runner = "two")
    /\ sums' = Zero
    /\ UNCHANGED <<program, at, stopFlag, signalled, timedOut, handle, synthRunning,
                   queue, shardVars, sourceVars, kernel>>

-----------------------------------------------------------------------------
(* The main thread: snapshot_stats, one load after the other.               *)

Loads == [i \in 0 .. 4 * N - 1 |->
             <<i \div 4, <<"owner", "halo", "pass0", "pass1">>[(i % 4) + 1]>>]

Snapshot ==
    /\ main \in {"row", "final"} /\ at < 4 * N
    /\ LET k == Loads[at][1]
           c == Loads[at][2] IN
         sums' = [sums EXCEPT ![c] = @ + count[k][c]]
    /\ at' = at + 1
    /\ UNCHANGED <<program, main, controlVars, handle, synthRunning, queue, shardVars,
                   sourceVars, kernel>>

SnapshotDone ==
    /\ main \in {"row", "final"} /\ at = 4 * N
    /\ sums' = Zero /\ at' = 0
    /\ main' = CASE main = "row" -> "loop"
                 [] main = "final" /\ OnGpu -> "flag"
                 [] main = "final" /\ ~OnGpu -> "eof"
    /\ UNCHANGED <<program, controlVars, handle, synthRunning, queue, shardVars, sourceVars,
                   kernel>>

-----------------------------------------------------------------------------
(* The main thread: shutting down.                                          *)

AfterSource == IF Runner = "two" THEN "final" ELSE "flag"

\* Mutant: the thread is joined before the flag is cleared.
StopSynthAfterJoin ==
    /\ main = "stopSynth"
    /\ main' = "join"
    /\ UNCHANGED <<program, at, controlVars, sums, handle, synthRunning, queue, shardVars,
                   sourceVars, kernel>>

StopSynth ==
    /\ main = "stopSynth"
    /\ synthRunning' = FALSE /\ main' = "join"
    /\ UNCHANGED <<program, at, controlVars, sums, handle, queue, shardVars, sourceVars,
                   kernel>>

\* Mutant: the source is not waited for.
JoinNoWait ==
    /\ main = "join"
    /\ main' = AfterSource
    /\ UNCHANGED <<program, at, controlVars, sums, handle, synthRunning, queue, shardVars,
                   sourceVars, kernel>>

Join ==
    /\ main = "join" /\ source = "exited"
    /\ main' = AfterSource
    /\ UNCHANGED <<program, at, controlVars, sums, handle, synthRunning, queue, shardVars,
                   sourceVars, kernel>>

\* join(timeout) returns though the reader is still running.
JoinTimesOut ==
    /\ main = "join" /\ Source = "reader" /\ source # "exited"
    /\ timedOut' = TRUE
    /\ main' = AfterSource
    /\ UNCHANGED <<program, at, stop, stopFlag, signalled, sums, handle, synthRunning,
                   queue, shardVars, sourceVars, kernel>>

SetStopFlag ==
    /\ main = "flag"
    /\ stopFlag' = TRUE /\ main' = "synchronize"
    /\ UNCHANGED <<program, at, stop, signalled, timedOut, sums, handle, synthRunning,
                   queue, shardVars, sourceVars, kernel>>

Synchronize ==
    /\ main = "synchronize" /\ kernel = "exited"
    /\ main' = "eof"
    /\ UNCHANGED <<program, at, controlVars, sums, handle, synthRunning, queue, shardVars,
                   sourceVars, kernel>>

\* shutdown: the end marker for every shard, behind its events.
PushEof ==
    /\ main = "eof" /\ at < N /\ Len(queue[at]) < QueueCap
    /\ queue' = [queue EXCEPT ![at] = Append(@, Eof)]
    /\ at' = at + 1
    /\ UNCHANGED <<program, main, controlVars, sums, handle, synthRunning, shardVars,
                   sourceVars, kernel>>

JoinWorkers ==
    /\ main = "eof" /\ at = N /\ returned = Shard
    /\ handle' = "freed" /\ main' = "freed" /\ at' = 0
    /\ UNCHANGED <<program, controlVars, sums, synthRunning, queue, shardVars, sourceVars,
                   kernel>>

ShutdownReturns ==
    /\ main = "freed"
    /\ handle' = "null" /\ main' = "done"
    /\ UNCHANGED <<program, at, controlVars, sums, synthRunning, queue, shardVars,
                   sourceVars, kernel>>

MainStep ==
    \/ Launch \/ InitLibrary \/ ResetShard \/ ResetDone \/ StartSource
    \/ PrintRow \/ Leave \/ Snapshot \/ SnapshotDone \/ StopSynth \/ Join \/ JoinTimesOut
    \/ SetStopFlag \/ Synchronize \/ PushEof \/ JoinWorkers \/ ShutdownReturns

-----------------------------------------------------------------------------
(* Inside submit_batch while the library shuts down, a ring has two         *)
(* producers and then the handle is freed memory: what follows is           *)
(* undefined, and the model stops there.                                    *)

Clash == source = "submit" /\ (main = "eof" \/ handle = "freed")

Ended == (main = "done" \/ Clash) /\ UNCHANGED vars

Running == ~Clash /\ main # "done"

Next ==
    \/ Running /\ MainStep
    \/ Running /\ Signal
    \/ Running /\ (Poll \/ NoBatch \/ \E events \in Batches : Submit(events))
    \/ Running /\ SourceRuns
    \/ Running /\ \E k \in Shard : Worker(k)
    \/ Running /\ KernelExit
    \/ Ended

\* Threads run, time passes (for synth too), the kernel looks at the flag, and the camera
\* of a bench returns; whether a reader's does is not assumed.
Fairness ==
    /\ WF_vars(Running /\ MainStep) /\ SF_vars(Running /\ Leave)
    /\ WF_vars(Running /\ SourceRuns) /\ WF_vars(Running /\ KernelExit)
    /\ WF_vars(Running /\ Source = "caller" /\ (Poll \/ NoBatch))
    /\ WF_vars(Running /\ Source = "synth" /\ \E events \in Batches : Submit(events))
    /\ \A k \in Shard : WF_vars(Running /\ Worker(k))

Spec == Init /\ [][Next]_vars /\ Fairness

-----------------------------------------------------------------------------
(* Properties.                                                              *)

\* Nobody submits while the library shuts down, nothing follows the end marker into a
\* ring, and the kernel outlives the source: unless join(timeout) gave up on the reader
\* or, for the kernel, a signal made the multi-block runner stop it first.
SourcesFirst ==
    ~timedOut =>
        /\ ~Clash
        /\ \A k \in Shard : \A i \in 1 .. Len(queue[k]) : queue[k][i] = Eof => i = Len(queue[k])
        /\ main \in {"eof", "freed", "done"} => source = "exited" \/ Source = "caller"
        /\ kernel = "exited" /\ source # "exited" => signalled

Ordered(counts) ==
    counts.pass1 <= counts.pass0 /\ counts.pass0 <= counts.owner

Total(c) == SumFunctionOnSet([k \in Shard |-> count[k][c]], Shard)

Halos == SumFunctionOnSet([x \in Column |-> admitted[x] * (Len(Reached(x)) - 1)], Column)

\* reset_stats stores and snapshot_stats loads counter by counter, and neither stops the
\* workers: still no snapshot shows an event that was not counted, and once the workers have
\* returned every admitted event was counted by its owner, once, and by every other shard
\* it reached, every other one as out of bounds, every survivor as pushed to the GPU, and
\* the source counted what was accepted.
StatsAddUp ==
    /\ \A k \in Shard : Ordered(count[k])
    /\ \A c \in Counters : sums[c] <= Total(c)
    /\ main = "done" /\ ~timedOut =>
         /\ Total("owner") = Events
         /\ Total("halo") = Halos
         /\ nOob = refused
         /\ OnGpu => pushed = Total("pass1")
         /\ eventsIn = Events + IF Source = "caller" THEN refused ELSE 0

\* Every program ends, unless it runs into the undefined case: no thread waits for
\* another that waits for it, whatever the signal, the timeout and the duration do.
RunEnds == <>(main = "done" \/ Clash)
=============================================================================

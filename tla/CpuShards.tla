----------------------------- MODULE CpuShards -----------------------------
(***************************************************************************)
(* The CPU side (src/lib_stage01_to_gpu.cpp): one dispatching thread sends *)
(* each event to the shard that owns its strip of columns and, inside the  *)
(* halo, to the neighbour; each shard worker runs stage 0 on all it gets   *)
(* and tdrop, stage 1 and the next tdrop on the events it owns.  The main  *)
(* thread starts and stops the dispatcher and shuts the shards down.       *)
(*                                                                         *)
(* Strips divide the columns only, so an event is its column.  A shard's   *)
(* hidden states are what its sequence of processed events makes them, and *)
(* that sequence stands for them.  The queue between dispatcher and worker *)
(* is the bounded queue that SpscRing implements.  What becomes of an      *)
(* event that survives stage 1 is the business of BlockRouting.            *)
(***************************************************************************)
EXTENDS Integers, Sequences, FiniteSets

CONSTANTS Width,        \* W_full: columns
          N,            \* number of shards
          Halo,         \* halo
          Window,       \* tdrop_window
          CounterSize,  \* 2^8: how many values a tdrop counter has
          QueueCap,     \* capacity of a shard's ring
          MaxEvents     \* bound: events dispatched in a run

StripW == (Width + N - 1) \div N

ASSUME ShardAssumption ==
    /\ Width \in Nat \ {0} /\ N \in Nat \ {0}
    /\ Halo \in Nat /\ Halo <= StripW    \* else an event concerns shards two away
    /\ Window \in Nat \ {0} /\ CounterSize \in Nat \ {0}
    /\ QueueCap \in Nat \ {0} /\ MaxEvents \in Nat

VARIABLES
    dispatched,  \* history: the columns of the events generated, in order
    pushing,     \* the dispatcher's event and dk, in its push loop
    synth,       \* the dispatching thread
    running,     \* synth_running
    nPushed,     \* synth_n_pushed
    queue,       \* q_in of each shard
    worker,      \* each shard worker: in its loop, or returned
    tdrop0,      \* tdrop_counter_[0] of each shard, on the stage-1 grid
    tdrop1,      \* tdrop_counter_[1] of each shard, on the stage-2 grid
    s0done,      \* what each shard's stage 0 has processed, in order
    s1done,      \* likewise stage 1
    count,       \* total_owner, total_halo, pass_stage0, pass_stage1
    survived,    \* history: the events that passed both tdrops
    main,        \* where the main thread is
    eofNext      \* the next shard it sends eof to

dispatcherVars == <<dispatched, pushing, synth, nPushed>>
shardVars == <<worker, tdrop0, tdrop1, s0done, s1done, count, survived>>
mainVars == <<running, main, eofNext>>
vars == <<dispatcherVars, queue, shardVars, mainVars>>

Shard == 0 .. N - 1
Column == 0 .. Width - 1
Event == 1 .. Len(dispatched)
Idle == [event |-> 0, dk |-> -1]
Eof == [event |-> 0, owner |-> FALSE]

Message == [event : Event, owner : BOOLEAN] \cup {Eof}

TypeOK ==
    /\ dispatched \in Seq(Column)
    /\ pushing \in [event : Event \cup {0}, dk : -1 .. 1]
    /\ synth \in {"off", "loop", "exited"}
    /\ running \in BOOLEAN /\ nPushed \in Nat
    /\ queue \in [Shard -> Seq(Message)]
    /\ worker \in [Shard -> {"loop", "returned"}]
    /\ tdrop0 \in [Shard -> [Column -> 0 .. CounterSize - 1]]
    /\ tdrop1 \in [Shard -> [Column -> 0 .. CounterSize - 1]]
    /\ s0done \in [Shard -> Seq(Event)] /\ s1done \in [Shard -> Seq(Event)]
    /\ count \in [Shard -> [owner : Nat, halo : Nat, pass0 : Nat, pass1 : Nat]]
    /\ survived \subseteq Event
    /\ main \in {"ready", "running", "stopping", "closing", "joining", "done"}
    /\ eofNext \in 0 .. N

Init ==
    /\ dispatched = << >> /\ pushing = Idle /\ synth = "off" /\ nPushed = 0
    /\ running = FALSE /\ main = "ready" /\ eofNext = 0
    /\ queue = [k \in Shard |-> << >>]
    /\ worker = [k \in Shard |-> "loop"]
    /\ tdrop0 = [k \in Shard |-> [c \in Column |-> 0]]
    /\ tdrop1 = [k \in Shard |-> [c \in Column |-> 0]]
    /\ s0done = [k \in Shard |-> << >>] /\ s1done = [k \in Shard |-> << >>]
    /\ count = [k \in Shard |-> [owner |-> 0, halo |-> 0, pass0 |-> 0, pass1 |-> 0]]
    /\ survived = {}

-----------------------------------------------------------------------------
(* The dispatcher: synth_thread_main; s01g_submit_batch routes the same way. *)

Least(a, b) == IF a < b THEN a ELSE b
OwnerOf(x) == Least(x \div StripW, N - 1)

\* Mutant: the halo is taken on the left of a strip only.
ReachesLeft(k, x) == k \in Shard /\ k * StripW - Halo <= x /\ x < (k + 1) * StripW
Reaches(k, x) ==
    k \in Shard /\ k * StripW - Halo <= x /\ x < (k + 1) * StripW + Halo

Generate(x) ==
    /\ synth = "loop" /\ pushing = Idle /\ running
    /\ Len(dispatched) < MaxEvents
    /\ dispatched' = Append(dispatched, x)
    /\ pushing' = [event |-> Len(dispatched'), dk |-> -1]
    /\ UNCHANGED <<synth, nPushed, queue, shardVars, mainVars>>

IsOwner(k, x) == k = OwnerOf(x)

\* One round of the loop over dk; push waits while the queue is full.
PushNext ==
    /\ pushing.event # 0
    /\ LET x == dispatched[pushing.event]
           k == (x \div StripW) + pushing.dk
       IN  IF Reaches(k, x)
           THEN /\ Len(queue[k]) < QueueCap
                /\ queue' = [queue EXCEPT ![k] =
                       Append(@, [event |-> pushing.event, owner |-> IsOwner(k, x)])]
           ELSE UNCHANGED queue
    /\ IF pushing.dk < 1
       THEN /\ pushing' = [pushing EXCEPT !.dk = @ + 1]
            /\ UNCHANGED nPushed
       ELSE pushing' = Idle /\ nPushed' = nPushed + 1
    /\ UNCHANGED <<dispatched, synth, shardVars, mainVars>>

SynthExit ==
    /\ synth = "loop" /\ pushing = Idle /\ ~running
    /\ synth' = "exited"
    /\ UNCHANGED <<dispatched, pushing, nPushed, queue, shardVars, mainVars>>

-----------------------------------------------------------------------------
(* A shard worker.                                                         *)

Pooled(x) == x \div 2

\* tdrop_check_at: does the event whose cell was counted `pre` times pass?
Passes(pre) == Window <= 1 \/ pre % Window = 0

\* Mutants: the counter does not wrap; it stops at its largest value.
CountedWide(counter, c) == [counter EXCEPT ![c] = @ + 1]
CountedSaturating(counter, c) ==
    [counter EXCEPT ![c] = IF @ = CounterSize - 1 THEN @ ELSE @ + 1]
Counted(counter, c) == [counter EXCEPT ![c] = (@ + 1) % CounterSize]

\* One message: stage 0 for every event; tdrop_0, stage 1, tdrop_1 for its owner.
Handle(k) ==
    /\ worker[k] = "loop" /\ queue[k] # << >> /\ Head(queue[k]) # Eof
    /\ LET m == Head(queue[k])
           c1 == Pooled(dispatched[m.event])
           c2 == Pooled(c1)
           pass0 == m.owner /\ Passes(tdrop0[k][c1])
           pass1 == pass0 /\ Passes(tdrop1[k][c2])
           one == [b \in BOOLEAN |-> IF b THEN 1 ELSE 0]
       IN  /\ s0done' = [s0done EXCEPT ![k] = Append(@, m.event)]
           /\ tdrop0' = IF m.owner THEN [tdrop0 EXCEPT ![k] = Counted(@, c1)] ELSE tdrop0
           /\ s1done' = IF pass0 THEN [s1done EXCEPT ![k] = Append(@, m.event)] ELSE s1done
           /\ tdrop1' = IF pass0 THEN [tdrop1 EXCEPT ![k] = Counted(@, c2)] ELSE tdrop1
           /\ survived' = IF pass1 THEN survived \cup {m.event} ELSE survived
           /\ count' = [count EXCEPT ![k] =
                  [owner |-> @.owner + one[m.owner], halo |-> @.halo + one[~m.owner],
                   pass0 |-> @.pass0 + one[pass0], pass1 |-> @.pass1 + one[pass1]]]
    /\ queue' = [queue EXCEPT ![k] = Tail(@)]
    /\ UNCHANGED <<dispatcherVars, worker, mainVars>>

TakeEof(k) ==
    /\ worker[k] = "loop" /\ queue[k] # << >> /\ Head(queue[k]) = Eof
    /\ worker' = [worker EXCEPT ![k] = "returned"]
    /\ queue' = [queue EXCEPT ![k] = Tail(@)]
    /\ UNCHANGED <<dispatcherVars, tdrop0, tdrop1, s0done, s1done, count, survived,
                   mainVars>>

-----------------------------------------------------------------------------
(* The main thread: s01g_start_synthetic, s01g_stop_synthetic, s01g_shutdown. *)

Start ==
    /\ main = "ready"
    /\ main' = "running" /\ running' = TRUE /\ synth' = "loop"
    /\ UNCHANGED <<dispatched, pushing, nPushed, queue, shardVars, eofNext>>

Stop ==
    /\ main = "running"
    /\ main' = "stopping" /\ running' = FALSE
    /\ UNCHANGED <<dispatcherVars, queue, shardVars, eofNext>>

\* Mutant: the rings are closed without waiting for the dispatcher.
JoinSynthNot ==
    /\ main = "stopping"
    /\ main' = "closing"
    /\ UNCHANGED <<dispatcherVars, queue, shardVars, running, eofNext>>

JoinSynth ==
    /\ main = "stopping" /\ synth = "exited"
    /\ main' = "closing"
    /\ UNCHANGED <<dispatcherVars, queue, shardVars, running, eofNext>>

\* Mutant: the last shard gets no eof.
AllSentEarly == eofNext >= N - 1
AllSent == eofNext = N

SendEof ==
    /\ main = "closing" /\ ~AllSent
    /\ Len(queue[eofNext]) < QueueCap
    /\ queue' = [queue EXCEPT ![eofNext] = Append(@, Eof)]
    /\ eofNext' = eofNext + 1
    /\ UNCHANGED <<dispatcherVars, shardVars, running, main>>

BeginJoin ==
    /\ main = "closing" /\ AllSent
    /\ main' = "joining"
    /\ UNCHANGED <<dispatcherVars, queue, shardVars, running, eofNext>>

JoinWorkers ==
    /\ main = "joining" /\ \A k \in Shard : worker[k] = "returned"
    /\ main' = "done"
    /\ UNCHANGED <<dispatcherVars, queue, shardVars, running, eofNext>>

\* The program has ended.
Ended == main = "done" /\ UNCHANGED vars

Shutdown == JoinSynth \/ SendEof \/ BeginJoin \/ JoinWorkers

Next ==
    \/ \E x \in Column : Generate(x)
    \/ PushNext \/ SynthExit
    \/ \E k \in Shard : Handle(k) \/ TakeEof(k)
    \/ Start \/ Stop \/ Shutdown \/ Ended

Spec == Init /\ [][Next]_vars

(* The threads run; when the main thread stops the run is its own affair.  *)
FairSpec ==
    /\ Spec
    /\ WF_vars(PushNext) /\ WF_vars(SynthExit) /\ WF_vars(Shutdown)
    /\ \A k \in Shard : WF_vars(Handle(k) \/ TakeEof(k))

-----------------------------------------------------------------------------
(* What one thread alone would do with the events, in the order they were  *)
(* generated.  Its tdrop counters do not wrap.                             *)
Cell1(e) == Pooled(dispatched[e])
Cell2(e) == Pooled(Cell1(e))
Earlier(e) == 1 .. e - 1

RefPass0(e) == Passes(Cardinality({n \in Earlier(e) : Cell1(n) = Cell1(e)}))
RefPass1(e) ==
    /\ RefPass0(e)
    /\ Passes(Cardinality({n \in Earlier(e) : RefPass0(n) /\ Cell2(n) = Cell2(e)}))

Elements(s) == {s[i] : i \in 1 .. Len(s)}
Near(e, n, d) == dispatched[e] - dispatched[n] \in -d .. d
Owned(k) == {e \in Elements(s0done[k]) : OwnerOf(dispatched[e]) = k}

(* Stage 0 has one layer that touches the event's own cell and one that    *)
(* reads its 3x3 patch.  When a shard processes an event it owns, what it  *)
(* has processed within two columns is what one thread alone would have,   *)
(* in the same order: halo = 2 makes the owner's stage 0 exact.            *)
S0Exact ==
    \A k \in Shard : \A i \in 1 .. Len(s0done[k]) :
        LET done == s0done[k]
            near == {j \in 1 .. i : Near(done[i], done[j], 2)}
        IN  OwnerOf(dispatched[done[i]]) = k =>
                /\ {done[j] : j \in near} = {n \in 1 .. done[i] : Near(done[i], n, 2)}
                /\ \A j, l \in near : j < l => done[j] < done[l]

(* An event goes to stage 1, and on to the GPU, exactly when it would with *)
(* one thread and counters that do not wrap, if no strip boundary divides  *)
(* its stage-2 cell: there, sharding the counters changes nothing.  (It is *)
(* also what the docs say of a counter: an event passes only when          *)
(* `count % tdrop_window == 0`.)                                           *)
CellUndivided(e) ==
    \A x \in Column : Pooled(Pooled(x)) = Cell2(e) => OwnerOf(x) = OwnerOf(dispatched[e])

TdropAsReference ==
    \A k \in Shard : \A e \in Owned(k) :
        CellUndivided(e) =>
            /\ e \in Elements(s1done[k]) <=> RefPass0(e)
            /\ e \in survived <=> RefPass1(e)

(* When the main thread has shut down, every event generated was counted   *)
(* once as owned and once in every other shard it reaches, the pass        *)
(* counters add up, and no message is left behind.                         *)
Drained ==
    main = "done" =>
        /\ \A k \in Shard : queue[k] = << >>
        /\ nPushed = Len(dispatched)
        /\ \A k \in Shard :
             /\ count[k].owner = Cardinality({e \in Event : OwnerOf(dispatched[e]) = k})
             /\ count[k].owner + count[k].halo =
                    Cardinality({e \in Event : Reaches(k, dispatched[e])})
             /\ count[k].pass1 = Cardinality(survived \cap Owned(k))

(* Once the main thread has asked the dispatcher to stop, the shutdown     *)
(* ends: the dispatcher, waiting for room, and the main thread, waiting    *)
(* to send eof, are served by workers that go on until their own eof.      *)
ShutdownEnds == main = "stopping" ~> main = "done"
=============================================================================

---------------------------- MODULE MulticoreBench ----------------------------
(***************************************************************************)
(* multicore_bench: every worker has a model of its own and a slice of the *)
(* events; they warm up, wait for one another and take the rest at once.   *)
(* A worker may throw while it builds its model. What a model computes is  *)
(* left out: a worker's state is the events it has taken.                  *)
(***************************************************************************)
EXTENDS Integers, Sequences, SequencesExt

CONSTANTS Mode,      \* "replicate" or "strip"
          Columns,   \* the columns of the events
          N,         \* --threads
          Warmup,    \* --warmup
          Failing    \* the workers that may fail

VARIABLES log, thr
vars == <<log, thr>>

Workers == 0 .. N - 1
Main == N
Events == 1 .. Len(Columns)
Width == Max({Columns[e] : e \in Events}) + 1
StripW == (Width + N - 1) \div N
WorkerOf(e) == Min({N - 1, Columns[e] \div StripW})
Slice(k) == SelectSeq([e \in Events |-> e], LAMBDA e : Mode = "replicate" \/ WorkerOf(e) = k)
WarmupOf(k) == Min({Warmup, Len(Slice(k)) \div 4})

\* ready, go and errors are shared; measured[k] is measured_evs[k], total what main reports.
Init ==
  /\ log = [ready |-> 0, go |-> FALSE, errors |-> {}, measured |-> [k \in Workers |-> 0], total |-> 0]
  /\ thr = [t \in 0 .. N |-> [pc |-> IF t = Main THEN "ready" ELSE "load", taken |-> <<>>]]

At(t, pc) == thr[t].pc = pc
Goto(t, pc) == thr' = [thr EXCEPT ![t].pc = pc]

Load(k) == At(k, "load") /\ Goto(k, "warm") /\ UNCHANGED log
\* The exception is caught at the end of the worker, past the wait for the others.
Fail(k) == /\ At(k, "load") /\ k \in Failing /\ Goto(k, "exit")
           /\ log' = [log EXCEPT !.errors = @ \cup {k}]

Left(k, upto) == Len(thr[k].taken) < upto
Step(k, pc, upto) ==
  /\ At(k, pc) /\ Left(k, upto)
  /\ thr' = [thr EXCEPT ![k].taken = Append(@, Slice(k)[Len(@) + 1])]
  /\ UNCHANGED log

Ready(k) == /\ At(k, "warm") /\ ~Left(k, WarmupOf(k)) /\ Goto(k, "go")
            /\ log' = [log EXCEPT !.ready = @ + 1]
Released(k) == At(k, "go") /\ log.go /\ Goto(k, "measure") /\ UNCHANGED log
Finish(k) == /\ At(k, "measure") /\ ~Left(k, Len(Slice(k))) /\ Goto(k, "exit")
             /\ log' = [log EXCEPT !.measured[k] = Len(Slice(k)) - WarmupOf(k)]
Worker(k) == \/ Load(k) \/ Fail(k) \/ Step(k, "warm", WarmupOf(k)) \/ Ready(k)
             \/ Released(k) \/ Step(k, "measure", Len(Slice(k))) \/ Finish(k)

Release == /\ At(Main, "ready") /\ log.ready >= N /\ Goto(Main, "join")
           /\ log' = [log EXCEPT !.go = TRUE]
Joined == At(Main, "join") /\ \A k \in Workers : At(k, "exit")
Report == /\ Joined
          /\ Goto(Main, IF log.errors = {} THEN "exit" ELSE "failed")
          /\ log' = [log EXCEPT !.total = IF log.errors = {} THEN FoldFunction(+, 0, log.measured) ELSE 0]

Thread(t) == (t \in Workers /\ Worker(t)) \/ (t = Main /\ (Release \/ Report))
RunEnded == At(Main, "exit") \/ At(Main, "failed")
-----------------------------------------------------------------------------
\* Nobody is measured while another still warms up.
StartsTogether ==
  (\E k \in Workers : Len(thr[k].taken) > WarmupOf(k)) =>
     \A k \in Workers : Len(thr[k].taken) >= WarmupOf(k) /\ ~At(k, "load")
\* Each event was taken by each worker (replicate) or by one (strip), and counted once.
EndsClean ==
  RunEnded =>
    /\ log.errors = {}
    /\ \A e \in Events : Len(SelectSeq([k \in 1 .. N |-> k - 1], LAMBDA k : Contains(thr[k].taken, e)))
                         = (IF Mode = "replicate" THEN N ELSE 1)
    /\ \A k \in Workers : \A i \in 2 .. Len(thr[k].taken) : thr[k].taken[i - 1] < thr[k].taken[i]
    /\ log.total = FoldFunction(+, 0, [k \in Workers |-> Len(thr[k].taken) - WarmupOf(k)])
\* A worker has failed, never gets ready, and main waits for it: no error is reported.
Stranded == log.errors # {} /\ At(Main, "ready")
===============================================================================

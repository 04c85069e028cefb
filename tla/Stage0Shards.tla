----------------------------- MODULE Stage0Shards -----------------------------
(***************************************************************************)
(* s_stage0_multicore: stage 0 alone. The producer sends an event to the   *)
(* shards that cover its column; each keeps its own hidden states, the     *)
(* owner decides and counts. After the warm-up the producer waits until it *)
(* finds every queue empty and for 50 ms more, and resets the counts.      *)
(*                                                                         *)
(* An event popped when the queues are found empty may not be counted yet. *)
(* That 50 ms are enough for it is an assumption of this model (Settle).   *)
(***************************************************************************)
EXTENDS OracleRun

CONSTANT Halo

In(k) == <<"in", k>>
PushEvent(e) ==
  LET ks == IF InBounds(e) THEN SetToSortSeq(Covering(Column(e), W, Halo), <) ELSE <<>>
  IN  [i \in DOMAIN ks |-> Push(In(ks[i]), "event", e)]
Rest == FlattenSeq([i \in 1 .. Total - Warmup |-> PushEvent(Warmup + i - 1)])
        \o [k \in 1 .. N |-> Push(In(k - 1), "eof", 0)]
WarmUp == FlattenSeq([i \in 1 .. Warmup |-> PushEvent(i - 1)])
\* The mutant resets without waiting for the queues.
MainNoWait == WarmUp \o <<Do("reset", 0)>> \o Rest
Main == WarmUp \o [k \in 1 .. N |-> Do("empty", k - 1)] \o <<Do("settle", 0), Do("reset", 0)>> \o Rest

\* Of shard k: the events its tdrop counters have counted and those it let pass, and its
\* statistics since the reset: owner events, those that passed, halo events.
NoEvents == [k \in Shards |-> <<>>]
NoStatistics == [name \in {"total_owner", "pass_owner", "total_halo"} |-> NoEvents]
Init == StartOf(Main, {In(k) : k \in Shards}, 0,
                [seen |-> NoEvents, decided |-> NoEvents, passed |-> NoEvents, stats |-> NoStatistics],
                [k \in Shards |-> [pc |-> "pop"]])

Settled == \A k \in Shards : thr[k].pc # "event"
Settle ==
  /\ todo # <<>> /\ todo' = Tail(todo)
  /\ \/ Head(todo).op = "empty" /\ q[In(Head(todo).seq)] = <<>> /\ UNCHANGED log
     \/ Head(todo).op = "settle" /\ Settled /\ UNCHANGED log
     \/ Head(todo).op = "reset" /\ log' = [log EXCEPT !.stats = NoStatistics]
  /\ UNCHANGED <<drained, q, pushed, mark, done, snaps, thr>>

Pop(k) ==
  /\ thr[k].pc = "pop" /\ q[In(k)] # <<>> /\ q' = Popped(In(k))
  /\ LET m == Head(q[In(k)])
     IN  thr' = [thr EXCEPT ![k] = IF m.type = "eof" THEN [pc |-> "exit"]
                                   ELSE [pc |-> "event", e |-> m.seq]]
  /\ UNCHANGED <<todo, drained, pushed, mark, done, snaps, log>>

ProcessEvent(k) ==
  /\ thr[k].pc = "event"
  /\ LET e == thr[k].e
         owns == OwnerIn(Column(e), W) = k
         passes == owns /\ Survives(e, log.decided[k], 0)
         With(seen, added) == IF added THEN Append(seen, e) ELSE seen
     IN  log' = [log EXCEPT !.seen[k] = With(@, TRUE),
                            !.decided[k] = With(@, owns),
                            !.passed[k] = With(@, passes),
                            !.stats.total_owner[k] = With(@, owns),
                            !.stats.pass_owner[k] = With(@, passes),
                            !.stats.total_halo[k] = With(@, ~owns)]
  /\ thr' = [thr EXCEPT ![k] = [pc |-> "pop"]]
  /\ UNCHANGED <<todo, drained, q, pushed, mark, done, snaps>>

Producer == Settle \/ Produce(Total, <<>>)
Thread(k) == k \in Shards /\ (Pop(k) \/ ProcessEvent(k))
RunEnded == todo = <<>> /\ \A k \in Shards : thr[k].pc = "exit"
-----------------------------------------------------------------------------
CellsInOrder ==
  \A k \in Shards : \A c \in {d \in GridColumns : OwnerIn(d, W) = k} :
    LET had == SelectSeq(log.seen[k], LAMBDA e : c \in PatchOf(e))
    IN  IsPrefix(had, Reaching(c)) /\ (RunEnded => had = Reaching(c))
\* On a pooled cell whose columns have one owner, what it counts and lets pass is the reference's.
DecidedOnce == \A k \in Shards : /\ WholeAsReference(log.decided[k], 0, 1)
                                 /\ WholeAsReference(log.passed[k], 1, 1)
\* The statistics are those of the events after the warm-up, each at its owner and at the shards
\* whose halo has it; the passes are the reference's but on the divided cells.
Counts(seen, e, condition) == Count(seen, e) = (IF condition THEN 1 ELSE 0)
EndsClean ==
  RunEnded =>
    /\ AllQueuesEmpty
    /\ \A e \in Seqs : \A k \in Shards :
         LET Measured == InBounds(e) /\ e >= Warmup
             owns == OwnerIn(Column(e), W) = k
         IN  /\ Counts(log.stats.total_owner[k], e, Measured /\ owns)
             /\ Counts(log.stats.total_halo[k], e, Measured /\ ~owns /\ k \in Covering(Column(e), W, Halo))
             /\ Whole(At(e, 1), 1) => Counts(log.stats.pass_owner[k], e, Measured /\ owns /\ Ended[e] >= 1)
===============================================================================

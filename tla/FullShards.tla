------------------------------ MODULE FullShards ------------------------------
(***************************************************************************)
(* s6_full_locked: the shard that owns the column of an event takes it     *)
(* through all stages, on hidden states, tdrop counters and predictions    *)
(* that all shards share.                                                  *)
(***************************************************************************)
EXTENDS PatchLocks

Main == Program([e \in Seqs |-> PushToOwner(e)], [m \in 0 .. Total |-> PushMarker(m)], Close)

Init == StartOf(Main, {Own(k) : k \in Shards}, CommitStart,
                [stage |-> NoStages, cells |-> NoCells, overtaken |-> FALSE],
                [k \in Shards |-> Polling])

TakeMarker(k) == /\ Takes(k, "marker") /\ Commit(k, Head(q[Own(k)]).seq)
                 /\ UNCHANGED <<OfMain, log>>

\* tdrop_and_pool_atomic is one fetch_add; after the last stage the head is
\* decoded under the lock of its cell. log.stage has the order of both.
EndStage(k) ==
  /\ thr[k].pc = "forwarded"
  /\ LET e == thr[k].e
         s == StageOf(thr[k].layer)
     IN  /\ log' = [log EXCEPT !.stage[s] = Append(@, e)]
         /\ IF s < LastStage /\ Survives(e, log.stage[s], s)
            THEN Goto(k, EnterLayer(k, e, thr[k].layer + 1)) /\ UNCHANGED mark
            ELSE Commit(k, e)
  /\ UNCHANGED <<OfMain, q>>

Producer == Produce(AllCommitted, log.stage[LastStage])
Thread(k) == k \in Shards /\ (TakeEvent(k) \/ TakeMarker(k) \/ ForwardLocked(k) \/ EndStage(k) \/ Loop(k))
Spec == Init /\ [][Producer \/ \E k \in Shards : Thread(k)]_vars
RunEnded == todo = <<>> /\ \A k \in Shards : thr[k].pc = "exit"
-----------------------------------------------------------------------------
\* A drain waits for every event of its shards, but for those that were overtaken.
DrainsComplete ==
  ~log.overtaken => \A e \in 0 .. drained - 1 : InBounds(e) => Count(log.stage[0], e) = 1
EndsClean == RunEnded => AllQueuesEmpty /\ EachOnce
===============================================================================

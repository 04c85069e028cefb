------------------------------- MODULE Replicas -------------------------------
(***************************************************************************)
(* s7_replicated: every shard has a pipeline of its own, and the producer  *)
(* sends an event to each shard that owns a column of its patch. The owner *)
(* of the event's column takes it to the head; the others take it through  *)
(* the stages to keep their states up to date.                             *)
(*                                                                         *)
(* log.stage[k] and log.cells[k] are the pipeline of shard k (of its       *)
(* layers the two of stage 0), log.decoded[k] its predictions. No other    *)
(* shard sees a pipeline, so that an event is one step.                    *)
(***************************************************************************)
EXTENDS CommitShards

Layers == {0, 1}
PushOne(e) == LET to == SetToSortSeq(IF InBounds(e) THEN Affected(Column(e)) ELSE {}, <)
              IN  [i \in DOMAIN to |-> Push(Own(to[i]), "event", e)] \o <<Do("publish", e + 1)>>
Main == Program([e \in Seqs |-> PushOne(e)], [m \in 0 .. Total |-> PushMarker(m)], Close)

NoCells == [l \in Layers |-> [c \in GridColumns |-> <<>>]]
Init == StartOf(Main, {Own(k) : k \in Shards}, CommitStart,
                [stage |-> [k \in Shards |-> NoStages], cells |-> [k \in Shards |-> NoCells],
                 decoded |-> [k \in Shards |-> <<>>], overtaken |-> FALSE],
                [k \in Shards |-> Polling])

IsOwner(k, e) == k = ShardOf(Column(e))

TakeMarker(k) == /\ Takes(k, "marker") /\ Commit(k, Head(q[Own(k)]).seq)
                 /\ UNCHANGED <<OfMain, log>>

\* Another shard than the owner first applies layer 0 with its mask, for a partial sum nobody
\* reads, and then the whole of stage 0 as the owner does.
Forwarded(cells, k, e) ==
  LET x == Column(e)
      Taken(seen, patch) == [c \in GridColumns |-> IF c \in patch THEN Append(seen[c], e) ELSE seen[c]]
      partial == IF IsOwner(k, e) THEN {} ELSE UpdatedBy(0, k, x)
  IN  [l \in Layers |-> IF l = 0 THEN Taken(Taken(cells[0], partial), {x})
                         ELSE Taken(cells[1], PatchColumns(x))]

TakeEvent(k) ==
  /\ Takes(k, "event")
  /\ LET e == Head(q[Own(k)]).seq
         stage == RunStages(log.stage[k], e)
         emits == IsOwner(k, e) /\ stage[LastStage] # log.stage[k][LastStage]
     IN  /\ log' = [log EXCEPT !.stage[k] = stage, !.cells[k] = Forwarded(@, k, e),
                               !.decoded[k] = IF emits THEN Append(@, e) ELSE @]
         /\ Commit(k, e)
  /\ UNCHANGED OfMain

\* aggregate_predictions_into publishes the predictions of shard 0.
Producer == Produce(AllCommitted, log.decoded[0])
Thread(k) == k \in Shards /\ (TakeEvent(k) \/ TakeMarker(k) \/ Loop(k))
RunEnded == todo = <<>> /\ \A k \in Shards : thr[k].pc = "exit"
-----------------------------------------------------------------------------
OwnedBy(k, seen) == SelectSeq(seen, LAMBDA e : IsOwner(k, e))
Strip(k) == {c \in GridColumns : ShardOf(c) = k}

\* The partial sum updates layer 0 twice in the column left of a strip, and nowhere in it.
CellsInOrder ==
  \A k \in Shards : \A c \in Strip(k) :
    /\ IsPrefix(log.cells[k][0][c], SelectSeq(Reaching(c), LAMBDA e : Column(e) = c))
    /\ IsPrefix(log.cells[k][1][c], Reaching(c))
\* The decisions of stage 0 on the events a shard owns are the reference's.
OwnedAsReference ==
  \A k \in Shards : \A e \in {OwnedBy(k, log.stage[k][0])[i] : i \in DOMAIN OwnedBy(k, log.stage[k][0])} :
    LastStage > 0 => (Count(log.stage[k][1], e) = (IF Ended[e] >= 1 THEN 1 ELSE 0))
DrainsComplete ==
  ~log.overtaken => \A e \in 0 .. drained - 1 : InBounds(e) =>
                       \A k \in Affected(Column(e)) : Count(log.stage[k][0], e) = 1
EndsClean == RunEnded => AllQueuesEmpty /\ \A k \in Shards : \A c \in Strip(k) : log.cells[k][1][c] = Reaching(c)
===============================================================================

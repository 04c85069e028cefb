------------------------------ MODULE ShardSums ------------------------------
(***************************************************************************)
(* s3_sharded: stage 0 is sharded by patch columns. Each affected shard    *)
(* updates its own cells and sends a partial sum; the sum thread adds the  *)
(* partials, finalises the layer in the order of the events, sends layer 1 *)
(* back to the shards and its result to the thread of stages 1 to 3.       *)
(*                                                                         *)
(* A partial is the shard it comes from. Partials that arrive before their *)
(* event (deferred_partials) and those that were matched are one set,      *)
(* arrived: a partial is deferred while its event is not pending.          *)
(***************************************************************************)
EXTENDS OracleRun

Layers == {0, 1}
Sum == N
Stages == N + 1
In(l, k) == <<"in", l, k>>                     \* q_l0_in, q_l1_in
Partials(l, k) == <<"partial", l, k>>
Meta == <<"meta">>
ToStages == <<"to_stages">>
Queues == {Meta, ToStages} \cup {In(l, k) : l \in Layers, k \in Shards}
                           \cup {Partials(l, k) : l \in Layers, k \in Shards}

PushOne(e) ==
  IF ~InBounds(e) THEN <<>>
  ELSE LET ks == SetToSortSeq(Affected(Column(e)), <)
       IN  <<Push(Meta, "event", e)>> \o [i \in DOMAIN ks |-> Push(In(0, ks[i]), "event", e)]
PushMarker(m) == <<Push(Meta, "marker", m)>>
Close == <<Push(Meta, "eof", 0)>> \o [i \in 1 .. N |-> Push(In(0, i - 1), "eof", 0)]
         \o <<Do("done", 0)>>
Main == Program([e \in Seqs |-> PushOne(e)], [m \in 0 .. Total |-> PushMarker(m)], Close)

Poll(l, worked) == [pc |-> "poll", layer |-> l, worked |-> worked]
SumStart == [pc |-> "meta", at |-> 0, worked |-> FALSE, dispatch |-> <<>>, out |-> <<>>,
             pending |-> [l \in Layers |-> <<>>], arrived |-> [l \in Layers |-> {}]]
Init == StartOf(Main, Queues, 0,
                [stage |-> NoStages, cells |-> [l \in Layers |-> [c \in GridColumns |-> <<>>]],
                 sums |-> [l \in Layers |-> <<>>]],
                [t \in 0 .. Stages |-> IF t = Sum THEN SumStart
                                       ELSE IF t = Stages THEN [pc |-> "pop"] ELSE Poll(0, FALSE)])

Goto(t, state) == thr' = [thr EXCEPT ![t] = state]
OfMain == <<todo, drained, pushed, done, snaps>>
-----------------------------------------------------------------------------
(* A shard: layer 0 first, then layer 1, then the done flag. *)
ShardPop(k, l) ==
  /\ thr[k].pc = "poll" /\ thr[k].layer = l /\ q[In(l, k)] # <<>>
  /\ LET m == Head(q[In(l, k)])
     IN  \/ /\ m.type = "event"
            /\ log' = Applied(l, k, m.seq)
            /\ Goto(k, [pc |-> "send", layer |-> l, seq |-> m.seq])
         \/ /\ m.type = "eof" /\ Goto(k, IF l = 0 THEN [pc |-> "exit"] ELSE Poll(0, FALSE))
            /\ UNCHANGED log
  /\ q' = Popped(In(l, k))
  /\ UNCHANGED <<OfMain, mark>>

ShardSend(k) ==
  /\ thr[k].pc = "send"
  /\ LET l == thr[k].layer
     IN  /\ HasRoom(Partials(l, k))
         /\ q' = Sent(Partials(l, k), [seq |-> thr[k].seq])
         /\ Goto(k, Poll(1 - l, l = 0))
  /\ UNCHANGED <<OfMain, mark, log>>

ShardFindsNothing(k) ==
  /\ \/ thr[k].pc = "poll" /\ thr[k].layer = 0 /\ q[In(0, k)] = <<>> /\ Goto(k, Poll(1, FALSE))
     \/ /\ thr[k].pc = "poll" /\ thr[k].layer = 1 /\ q[In(1, k)] = <<>>
        /\ Goto(k, IF thr[k].worked THEN Poll(0, FALSE) ELSE [pc |-> "done?"])
     \/ thr[k].pc = "done?" /\ Goto(k, IF done THEN [pc |-> "exit"] ELSE Poll(0, FALSE))
  /\ UNCHANGED <<OfMain, q, mark, log>>
-----------------------------------------------------------------------------
(* The sum thread goes round: meta, the partials of every shard, the first *)
(* cascade, the layer-1 work, the second cascade, the output.              *)
sum == thr[Sum]
PartsOf(l, e) == {a \in sum.arrived[l] : a.seq = e}
Expected(e) == Cardinality(Affected(Column(e)))
Complete(l, p) == p.type = "marker" \/ Cardinality(PartsOf(l, p.seq)) >= Expected(p.seq)

\* A cascade takes from the front of pending what is complete, in order.
Ready(l) ==
  LET n == CHOOSE i \in 0 .. Len(sum.pending[l]) :
             /\ \A j \in 1 .. i : Complete(l, sum.pending[l][j])
             /\ i < Len(sum.pending[l]) => ~Complete(l, sum.pending[l][i + 1])
  IN  SubSeq(sum.pending[l], 1, n)
EventsOf(front) == SelectSeq(front, LAMBDA p : p.type = "event")

Finalised(l, front) ==
  [sum EXCEPT !.pending[l] = SubSeq(@, Len(front) + 1, Len(@)),
              !.arrived[l] = {a \in @ : \A i \in DOMAIN EventsOf(front) : EventsOf(front)[i].seq # a.seq},
              !.worked = @ \/ front # <<>>]
Summed(l, front) ==
  [log EXCEPT !.sums[l] = @ \o [i \in DOMAIN EventsOf(front) |->
      LET e == EventsOf(front)[i].seq IN [seq |-> e, from |-> {a.from : a \in PartsOf(l, e)}]]]

CascadeL0 ==
  LET front == Ready(0)
      Work(p) == [seq |-> p.seq, left |-> Affected(Column(p.seq))]
  IN  /\ sum.pc = "cascade0"
      /\ log' = Summed(0, front)
      /\ Goto(Sum, [Finalised(0, front) EXCEPT
           !.pc = "dispatch", !.pending[1] = @ \o front,
           !.dispatch = @ \o [i \in DOMAIN EventsOf(front) |-> Work(EventsOf(front)[i])]])
      /\ UNCHANGED <<OfMain, q, mark>>

CascadeL1 ==
  /\ sum.pc = "cascade1"
  /\ log' = Summed(1, Ready(1))
  /\ Goto(Sum, [Finalised(1, Ready(1)) EXCEPT !.pc = "output", !.out = @ \o Ready(1)])
  /\ UNCHANGED <<OfMain, q, mark>>

SumMeta ==
  /\ sum.pc = "meta"
  /\ \/ /\ q[Meta] # <<>> /\ q' = Popped(Meta)
        /\ Goto(Sum, IF Head(q[Meta]).type = "eof" THEN [sum EXCEPT !.pc = "eof"]
                     ELSE [sum EXCEPT !.pending[0] = Append(@, Head(q[Meta])), !.worked = TRUE])
     \/ q[Meta] = <<>> /\ Goto(Sum, [sum EXCEPT !.pc = "partials"]) /\ UNCHANGED q
  /\ UNCHANGED <<OfMain, mark, log>>

\* at = 2k + l: the queue of shard k's partials of layer l.
SumPartials ==
  /\ sum.pc = "partials"
  /\ LET l == sum.at % 2
         k == sum.at \div 2
     IN  \/ /\ q[Partials(l, k)] # <<>> /\ q' = Popped(Partials(l, k))
            /\ Goto(Sum, [sum EXCEPT !.worked = TRUE,
                  !.arrived[l] = @ \cup {[seq |-> Head(q[Partials(l, k)]).seq, from |-> k]}])
         \/ /\ q[Partials(l, k)] = <<>> /\ UNCHANGED q
            /\ Goto(Sum, IF sum.at < 2 * N - 1 THEN [sum EXCEPT !.at = @ + 1]
                         ELSE [sum EXCEPT !.at = 0, !.pc = "cascade0"])
  /\ UNCHANGED <<OfMain, mark, log>>

\* try_push_nb to one shard after the other; the first full queue ends the pass.
SumDispatch ==
  /\ sum.pc = "dispatch"
  /\ LET work == Head(sum.dispatch)
         k == Min(work.left)
     IN  \/ /\ sum.dispatch # <<>> /\ HasRoom(In(1, k))
            /\ q' = Sent(In(1, k), [type |-> "event", seq |-> work.seq])
            /\ Goto(Sum, [sum EXCEPT !.worked = TRUE,
                  !.dispatch = IF work.left = {k} THEN Tail(@) ELSE [@ EXCEPT ![1].left = @ \ {k}]])
         \/ /\ sum.dispatch # <<>> => ~HasRoom(In(1, k))
            /\ Goto(Sum, [sum EXCEPT !.pc = "cascade1"]) /\ UNCHANGED q
  /\ UNCHANGED <<OfMain, mark, log>>

SumOutput ==
  /\ sum.pc = "output"
  /\ \/ /\ sum.out # <<>> /\ HasRoom(ToStages) /\ q' = Sent(ToStages, Head(sum.out))
        /\ Goto(Sum, [sum EXCEPT !.out = Tail(@), !.worked = TRUE])
     \/ /\ sum.out # <<>> => ~HasRoom(ToStages)
        /\ Goto(Sum, [sum EXCEPT !.pc = IF sum.worked THEN "meta" ELSE "done?", !.worked = FALSE])
        /\ UNCHANGED q
  /\ UNCHANGED <<OfMain, mark, log>>

\* What the sum thread still holds: nothing, when it may end by the done flag.
Holding == sum.pending # [l \in Layers |-> <<>>] \/ sum.arrived # [l \in Layers |-> {}]
           \/ sum.dispatch # <<>> \/ sum.out # <<>>
SumDone == /\ sum.pc = "done?"
           /\ Goto(Sum, [sum EXCEPT !.pc = IF done /\ ~Holding THEN "exit" ELSE "meta"])
           /\ UNCHANGED <<OfMain, q, mark, log>>

\* The Eof goes to layer 1 of every shard, then to the stages.
SumEof ==
  /\ sum.pc = "eof"
  /\ LET to == IF sum.at < N THEN In(1, sum.at) ELSE ToStages
     IN  HasRoom(to) /\ q' = Sent(to, [type |-> "eof", seq |-> 0])
  /\ Goto(Sum, IF sum.at < N THEN [sum EXCEPT !.at = @ + 1] ELSE [sum EXCEPT !.pc = "exit"])
  /\ UNCHANGED <<OfMain, mark, log>>
-----------------------------------------------------------------------------
(* The thread of stages 1 to 3 and the head. *)
StagesPop ==
  /\ thr[Stages].pc = "pop" /\ q[ToStages] # <<>> /\ q' = Popped(ToStages)
  /\ LET m == Head(q[ToStages])
     IN  /\ Goto(Stages, [pc |-> IF m.type = "eof" THEN "exit" ELSE "pop"])
         /\ log' = IF m.type = "event" THEN [log EXCEPT !.stage = RunStages(@, m.seq)] ELSE log
         /\ mark' = IF m.type = "marker" THEN m.seq ELSE mark
  /\ UNCHANGED OfMain

StagesFindNothing ==
  /\ \/ thr[Stages].pc = "pop" /\ q[ToStages] = <<>> /\ Goto(Stages, [pc |-> "done?"])
     \/ thr[Stages].pc = "done?" /\ Goto(Stages, [pc |-> IF done THEN "exit" ELSE "pop"])
  /\ UNCHANGED <<OfMain, q, mark, log>>
-----------------------------------------------------------------------------
Producer == Produce(mark, log.stage[LastStage])
Shard(k) == ShardPop(k, 0) \/ ShardPop(k, 1) \/ ShardSend(k) \/ ShardFindsNothing(k)
SumThread == \/ SumMeta \/ SumPartials \/ CascadeL0 \/ SumDispatch
             \/ CascadeL1 \/ SumOutput \/ SumDone \/ SumEof
StagesThread == StagesPop \/ StagesFindNothing
Thread(t) == (t \in Shards /\ Shard(t)) \/ (t = Sum /\ SumThread) \/ (t = Stages /\ StagesThread)
RunEnded == todo = <<>> /\ \A t \in 0 .. Stages : thr[t].pc = "exit"
-----------------------------------------------------------------------------
StagesAsReference == \A s \in 0 .. LastStage : IsPrefix(log.stage[s], Reference(s, Total))
DrainsComplete ==
  /\ CompleteTo(drained, log.stage)
  /\ \A i \in DOMAIN snaps : snaps[i][2] = Reference(LastStage, snaps[i][1])

Increasing(seen) == \A i \in 2 .. Len(seen) : seen[i - 1] < seen[i]
CellsInOrder == \A l \in Layers, c \in GridColumns : Increasing(log.cells[l][c])
SummedIn(l) == {log.sums[l][i].seq : i \in DOMAIN log.sums[l]}
AppliedOnce == AppliedOnceIn([l \in Layers |-> SummedIn(l)])
\* What a single thread does, in the last column too.
ReferencePatch(l, e) == IF l = 0 THEN {Column(e)} ELSE PatchOf(e)
UpdatesAsReference ==
  \A l \in Layers :
    LET Patch(e) == ReferencePatch(l, e) IN OnceInPatch(log.cells[l], SummedIn(l), Patch)
LastMessages == {[type |-> "eof", seq |-> 0], [type |-> "marker", seq |-> Total]}
SumsComplete == \A l \in Layers : /\ Increasing([i \in DOMAIN log.sums[l] |-> log.sums[l][i].seq])
                                  /\ \A i \in DOMAIN log.sums[l] :
                                       log.sums[l][i].from = Affected(Column(log.sums[l][i].seq))
\* An Eof may be left in a ring whose reader saw the done flag, or left at its other Eof; so may
\* a last marker, when the last event was a checkpoint and the producer has seen its number.
EndsClean ==
  RunEnded => /\ CompleteTo(Total, log.stage)
              /\ \A r \in Queues : \A i \in DOMAIN q[r] : q[r][i] \in LastMessages
=============================================================================

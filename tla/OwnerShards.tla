----------------------------- MODULE OwnerShards -----------------------------
(***************************************************************************)
(* s4_owner_shard: the shard that owns an event's column finalises both    *)
(* layers itself. A neighbour that owns a column of the patch is asked for *)
(* its part, for layer 0 by the producer, for layer 1 by the owner, and    *)
(* sends it back. One thread merges the finished events by number.         *)
(*                                                                         *)
(* A shard's loop looks at its queues in turn; here it may take them in    *)
(* any order. log.raced remembers that two threads were at a push of one   *)
(* of the contribution rings, which are built for one producer. log.again  *)
(* has the events that the stages were given a sum of that was finalised   *)
(* more than once.                                                         *)
(*                                                                         *)
(* thr[k].pending is the list of PendingEvents. The partials that have     *)
(* arrived are one set, as in ShardSums; own parts are among them.         *)
(***************************************************************************)
EXTENDS OracleRun

MaxSeq == Total + 1                            \* UINT64_MAX
MaxTimes == 2                                  \* bound: finalised once, or more than once
Layers == {0, 1}
Own(k) == <<"own", k>>
Contrib(k) == <<"contrib", k>>
PartialIn(k) == <<"partial_in", k>>
ToStage(k) == <<"to_stage", k>>
Stages == N
Queues == {Own(k) : k \in Shards} \cup {Contrib(k) : k \in Shards}
          \cup {PartialIn(k) : k \in Shards} \cup {ToStage(k) : k \in Shards}

\* need_left and need_right: the other shards whose columns the patch has.
Needs(e) == Affected(Column(e)) \ {ShardOf(Column(e))}
Request(j, l, e) == [layer |-> l, seq |-> e, for |-> ShardOf(Column(e))]
PushOne(e) ==
  IF ~InBounds(e) THEN <<>>
  ELSE LET js == SetToSortSeq(Needs(e), <)
       IN  <<Push(Own(ShardOf(Column(e))), "event", e)>>
           \o [i \in DOMAIN js |-> [op |-> "push", to |-> Contrib(js[i]), msg |-> Request(js[i], 0, e)]]
PushMarker(m) == [i \in 1 .. N |-> Push(Own(i - 1), "marker", m)]
Close == [i \in 1 .. N |-> Push(Own(i - 1), "eof", 0)] \o <<Do("done", 0)>>
Main == Program([e \in Seqs |-> PushOne(e)], [m \in 0 .. Total |-> PushMarker(m)], Close)

ShardStart == [pc |-> "run", eof |-> FALSE, pending |-> <<>>, arrived |-> {},
               partials |-> [j \in Shards |-> <<>>], contribs |-> [j \in Shards |-> <<>>]]
Filling(k, cache) == [pc |-> "fill", k |-> k, cache |-> cache]
Nothing == [type |-> "none", seq |-> MaxSeq]
Init == StartOf(Main, Queues, [t \in 0 .. N |-> 0],  \* next_emit_seq; mark[N] is marker_done_stages
                [stage |-> NoStages, cells |-> [l \in Layers |-> [c \in GridColumns |-> <<>>]],
                 raced |-> FALSE, again |-> {}],
                [t \in 0 .. N |-> IF t = Stages THEN Filling(0, [k \in Shards |-> Nothing])
                                  ELSE ShardStart])

Goto(t, state) == thr' = [thr EXCEPT ![t] = state]
OfMain == <<todo, drained, pushed, done, snaps>>
Part(l, e, k) == [layer |-> l, seq |-> e, from |-> k]
MainPushesTo(ring) == todo # <<>> /\ Head(todo).op = "push" /\ Head(todo).to = ring
-----------------------------------------------------------------------------
TakeOwn(k) ==
  /\ thr[k].pc = "run" /\ q[Own(k)] # <<>> /\ q' = Popped(Own(k))
  /\ LET m == Head(q[Own(k)])
         pending == Append(thr[k].pending, [type |-> m.type, seq |-> m.seq, l0done |-> FALSE, times |-> 0])
     IN  \/ m.type = "eof" /\ Goto(k, [thr[k] EXCEPT !.eof = TRUE]) /\ UNCHANGED log
         \/ m.type = "marker" /\ Goto(k, [thr[k] EXCEPT !.pending = pending]) /\ UNCHANGED log
         \/ /\ m.type = "event" /\ log' = Applied(0, k, m.seq)
            /\ Goto(k, [thr[k] EXCEPT !.pending = pending, !.arrived = @ \cup {Part(0, m.seq, k)}])
  /\ UNCHANGED <<OfMain, mark>>

\* try_push_nb, and into the backlog when the ring is full.
TakeContrib(k) ==
  /\ thr[k].pc = "run" /\ q[Contrib(k)] # <<>>
  /\ LET m == Head(q[Contrib(k)])
         part == Part(m.layer, m.seq, k)
     IN  /\ log' = Applied(m.layer, k, m.seq)
         /\ IF HasRoom(PartialIn(m.for))
            THEN q' = [Popped(Contrib(k)) EXCEPT ![PartialIn(m.for)] = Append(@, part)] /\ UNCHANGED thr
            ELSE q' = Popped(Contrib(k)) /\ Goto(k, [thr[k] EXCEPT !.partials[m.for] = Append(@, part)])
  /\ UNCHANGED <<OfMain, mark>>

TakePartial(k) ==
  /\ thr[k].pc = "run" /\ q[PartialIn(k)] # <<>> /\ q' = Popped(PartialIn(k))
  /\ Goto(k, [thr[k] EXCEPT !.arrived = @ \cup {Head(q[PartialIn(k)])}])
  /\ UNCHANGED <<OfMain, mark, log>>

RetryPartial(k, j) ==
  /\ thr[k].pc = "run" /\ thr[k].partials[j] # <<>> /\ HasRoom(PartialIn(j))
  /\ q' = [q EXCEPT ![PartialIn(j)] = Append(@, Head(thr[k].partials[j]))]
  /\ Goto(k, [thr[k] EXCEPT !.partials[j] = Tail(@)])
  /\ UNCHANGED <<OfMain, mark, log>>
RetryContrib(k, j) ==
  /\ thr[k].pc = "run" /\ thr[k].contribs[j] # <<>> /\ HasRoom(Contrib(j))
  /\ q' = [q EXCEPT ![Contrib(j)] = Append(@, Head(thr[k].contribs[j]))]
  /\ Goto(k, [thr[k] EXCEPT !.contribs[j] = Tail(@)])
  /\ log' = [log EXCEPT !.raced = @ \/ MainPushesTo(Contrib(j))]
  /\ UNCHANGED <<OfMain, mark>>
-----------------------------------------------------------------------------
(* The cascade, from the front of pending. *)
First(k) == Head(thr[k].pending)
HasPending(k, type) == /\ thr[k].pc = "run" /\ thr[k].pending # <<>> /\ First(k).type = type
Complete(k, l) == \A j \in {k} \cup Needs(First(k).seq) : Part(l, First(k).seq, j) \in thr[k].arrived

PassMarker(k) ==
  /\ HasPending(k, "marker") /\ HasRoom(ToStage(k))
  /\ q' = [q EXCEPT ![ToStage(k)] = Append(@, [type |-> "marker", seq |-> First(k).seq])]
  /\ Goto(k, [thr[k] EXCEPT !.pending = Tail(@)])
  /\ UNCHANGED <<OfMain, mark, log>>

\* Layer 0 is finalised, the own part of layer 1 computed, the neighbours asked for theirs.
FinalizeL0(k) ==
  /\ HasPending(k, "event") /\ ~First(k).l0done /\ Complete(k, 0)
  /\ LET e == First(k).seq
         now == {j \in Needs(e) : HasRoom(Contrib(j))}
     IN  /\ q' = [r \in Queues |-> IF \E j \in now : r = Contrib(j)
                                   THEN Append(q[r], Request(r[2], 1, e)) ELSE q[r]]
         /\ log' = [Applied(1, k, e) EXCEPT
                      !.raced = @ \/ \E j \in now : MainPushesTo(Contrib(j))]
         /\ Goto(k, [thr[k] EXCEPT
              !.pending[1].l0done = TRUE, !.arrived = @ \cup {Part(1, e, k)},
              !.contribs = [j \in Shards |-> IF j \in Needs(e) \ now
                                             THEN Append(@[j], Request(j, 1, e)) ELSE @[j]]])
  /\ UNCHANGED <<OfMain, mark>>

\* The sum is finalised in place, and then pushed if there is room: each further try finalises
\* again what the last one has finalised.
FinalizeL1(k) ==
  /\ HasPending(k, "event") /\ First(k).l0done /\ Complete(k, 1)
  /\ LET times == Min({First(k).times + 1, MaxTimes})
     IN  \/ /\ HasRoom(ToStage(k))
            /\ q' = Sent(ToStage(k), [type |-> "event", seq |-> First(k).seq, times |-> times])
            /\ Goto(k, [thr[k] EXCEPT !.pending = Tail(@),
                                      !.arrived = {a \in @ : a.seq # First(k).seq}])
         \/ /\ ~HasRoom(ToStage(k)) /\ UNCHANGED q
            /\ Goto(k, [thr[k] EXCEPT !.pending[1].times = times])
  /\ UNCHANGED <<OfMain, mark, log>>

\* next_emit_seq: what the front of pending, or the end, allows to say.
PublishNext(k) ==
  /\ thr[k].pc = "run" /\ (thr[k].pending # <<>> \/ thr[k].eof)
  /\ LET next == IF thr[k].pending # <<>> THEN First(k).seq ELSE MaxSeq
     IN  mark[k] # next /\ mark' = [mark EXCEPT ![k] = next]
  /\ UNCHANGED <<OfMain, q, log, thr>>

Exit(k) ==
  /\ thr[k].pc = "run" /\ thr[k].eof
  /\ thr[k] = [ShardStart EXCEPT !.eof = TRUE]
  /\ Goto(k, [thr[k] EXCEPT !.pc = "exit"]) /\ mark' = [mark EXCEPT ![k] = MaxSeq]
  /\ UNCHANGED <<OfMain, q, log>>
-----------------------------------------------------------------------------
(* The merger: fill the cache, look for the smallest number that a shard   *)
(* has sent or may still send, and emit it if it has been sent.            *)
merger == thr[Stages]
Fill == /\ merger.pc = "fill"
        /\ LET k == merger.k
               takes == merger.cache[k] = Nothing /\ q[ToStage(k)] # <<>>
               cache == IF takes THEN [merger.cache EXCEPT ![k] = Head(q[ToStage(k)])] ELSE merger.cache
           IN  /\ q' = IF takes THEN Popped(ToStage(k)) ELSE q
               /\ Goto(Stages, IF k + 1 < N THEN Filling(k + 1, cache)
                               ELSE [pc |-> "look", k |-> 0, cache |-> cache, min |-> MaxSeq, of |-> -1])
        /\ UNCHANGED <<OfMain, mark, log>>

Candidate(k) == IF merger.cache[k] # Nothing THEN merger.cache[k].seq ELSE mark[k]
Look == /\ merger.pc = "look"
        /\ LET k == merger.k
               better == Candidate(k) < merger.min
               min == IF better THEN Candidate(k) ELSE merger.min
               of == IF better THEN (IF merger.cache[k] # Nothing THEN k ELSE -1) ELSE merger.of
           IN  Goto(Stages, IF k + 1 < N THEN [merger EXCEPT !.k = k + 1, !.min = min, !.of = of]
                            ELSE IF min = MaxSeq THEN [pc |-> "exit"]
                            ELSE IF of = -1 THEN Filling(0, merger.cache)
                            ELSE [pc |-> "emit", of |-> of, cache |-> merger.cache])
        /\ UNCHANGED <<OfMain, q, mark, log>>

Emit == /\ merger.pc = "emit"
        /\ LET m == merger.cache[merger.of]
           IN  /\ Goto(Stages, Filling(0, [merger.cache EXCEPT ![merger.of] = Nothing]))
               /\ mark' = IF m.type = "marker" THEN [mark EXCEPT ![Stages] = m.seq] ELSE mark
               /\ log' = IF m.type = "event"
                         THEN [log EXCEPT !.stage = RunStages(@, m.seq),
                                          !.again = IF m.times > 1 THEN @ \cup {m.seq} ELSE @]
                         ELSE log
        /\ UNCHANGED <<OfMain, q>>
-----------------------------------------------------------------------------
Producer == Produce(mark[Stages], log.stage[LastStage])
Shard(k) == \/ TakeOwn(k) \/ TakeContrib(k) \/ TakePartial(k)
            \/ \E j \in Shards : RetryPartial(k, j) \/ RetryContrib(k, j)
            \/ PassMarker(k) \/ FinalizeL0(k) \/ FinalizeL1(k) \/ PublishNext(k) \/ Exit(k)
Thread(t) == (t \in Shards /\ Shard(t)) \/ (t = Stages /\ (Fill \/ Look \/ Emit))
RunEnded == todo = <<>> /\ \A t \in 0 .. N : thr[t].pc = "exit"
-----------------------------------------------------------------------------
Merged == {log.stage[0][i] : i \in DOMAIN log.stage[0]}
\* What an event's shard is sent before it: each message becomes one in the ring to the stages.
SentBefore(e) ==
  LET own == SelectSeq(Main, LAMBDA do : do.op = "push" /\ do.to = Own(ShardOf(Column(e))))
  IN  CHOOSE n \in 0 .. Len(own) - 1 : own[n + 1].msg = [type |-> "event", seq |-> e]
\* Only an event that can find the ring to the stages full is finalised more than once.
FinalisedOnce == \A e \in log.again : SentBefore(e) >= Cap
AppliedOnce == FinalisedOnce /\ (~log.raced => AppliedOnceIn([l \in Layers |-> Merged]))
\* A last marker may be left in a ring to the stages, nothing else is.
EndsClean == RunEnded /\ ~log.raced =>
               /\ \A e \in Seqs : Count(log.stage[0], e) = (IF InBounds(e) THEN 1 ELSE 0)
               /\ \A r \in Queues : \A i \in DOMAIN q[r] :
                    (\E k \in Shards : r = ToStage(k)) /\ q[r][i].type = "marker"
=============================================================================

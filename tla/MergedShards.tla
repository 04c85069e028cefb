----------------------------- MODULE MergedShards -----------------------------
(***************************************************************************)
(* s5_locked: the shards take the events through stage 0 only, on shared   *)
(* hidden states, and one thread merges their outputs by the number of the *)
(* event and runs the later stages.                                        *)
(***************************************************************************)
EXTENDS PatchLocks

ToStage(k) == <<"to_stage", k>>
Stages == N

Main == Program([e \in Seqs |-> PushToOwner(e)], [m \in 0 .. Total |-> PushMarker(m)], Close \o <<Do("done", 0)>>)

Filling(k, cache) == [pc |-> "fill", k |-> k, cache |-> cache]
Nothing == [seq |-> MaxSeq]
Init == StartOf(Main, {Own(k) : k \in Shards} \cup {ToStage(k) : k \in Shards},
                [t \in 0 .. N |-> 0],          \* mark[N] is marker_done_stages
                [stage |-> NoStages, cells |-> NoCells, overtaken |-> FALSE],
                [t \in 0 .. N |-> IF t = Stages THEN Filling(0, [k \in Shards |-> Nothing])
                                  ELSE Polling])

TakeMarker(k) ==
  /\ Takes(k, "marker")
  /\ Goto(k, [pc |-> "send", eof |-> thr[k].eof, msg |-> Head(q[Own(k)])])
  /\ UNCHANGED <<OfMain, mark, log>>
SendEvent(k) ==
  /\ thr[k].pc = "forwarded"
  /\ Goto(k, [pc |-> "send", eof |-> thr[k].eof, msg |-> [type |-> "event", seq |-> thr[k].e]])
  /\ UNCHANGED <<OfMain, q, mark, log>>

Send(k) ==
  /\ thr[k].pc = "send" /\ HasRoom(ToStage(k)) /\ q' = Sent(ToStage(k), thr[k].msg)
  /\ Goto(k, [pc |-> "commit", eof |-> thr[k].eof, seq |-> thr[k].msg.seq])
  /\ UNCHANGED <<OfMain, mark, log>>
SendDone(k) == thr[k].pc = "commit" /\ Commit(k, thr[k].seq) /\ UNCHANGED <<OfMain, q, log>>
-----------------------------------------------------------------------------
(* The merger: fill the cache from every shard, take the smallest number,  *)
(* and let it pass if every other shard has committed to it.               *)
merger == thr[Stages]
Smallest(cache) == CHOOSE k \in Shards : \A j \in Shards :
                      cache[k].seq < cache[j].seq \/ (cache[k].seq = cache[j].seq /\ k <= j)

Fill == /\ merger.pc = "fill"
        /\ LET k == merger.k
               takes == merger.cache[k] = Nothing /\ q[ToStage(k)] # <<>>
               cache == IF takes THEN [merger.cache EXCEPT ![k] = Head(q[ToStage(k)])] ELSE merger.cache
           IN  /\ q' = IF takes THEN Popped(ToStage(k)) ELSE q
               /\ Goto(Stages, IF k + 1 < N THEN Filling(k + 1, cache)
                               ELSE [pc |-> "check", k |-> 0, cache |-> cache])
        /\ UNCHANGED <<OfMain, mark, log>>

\* With an empty cache it looks for the end of every shard, else for their progress.
\* The mutant wants the other shards beyond the number, not at it.
PassedBeyond(k) == LET min == Smallest(merger.cache)
                   IN  IF merger.cache[min] = Nothing THEN mark[k] = MaxSeq
                       ELSE k = min \/ mark[k] > merger.cache[min].seq
Passed(k) == LET min == Smallest(merger.cache)
             IN  IF merger.cache[min] = Nothing THEN mark[k] = MaxSeq
                 ELSE k = min \/ mark[k] >= merger.cache[min].seq
Check == /\ merger.pc = "check"
         /\ Goto(Stages, IF ~Passed(merger.k) THEN Filling(0, merger.cache)
                         ELSE IF merger.k + 1 < N THEN [merger EXCEPT !.k = @ + 1]
                         ELSE [merger EXCEPT !.pc = "emit"])
         /\ UNCHANGED <<OfMain, q, mark, log>>

Emit == /\ merger.pc = "emit"
        /\ LET k == Smallest(merger.cache)
               m == merger.cache[k]
           IN  IF m = Nothing THEN Goto(Stages, [pc |-> "exit"]) /\ UNCHANGED <<mark, log>>
               ELSE /\ Goto(Stages, Filling(0, [merger.cache EXCEPT ![k] = Nothing]))
                    /\ mark' = IF m.type = "marker" THEN [mark EXCEPT ![Stages] = m.seq] ELSE mark
                    /\ log' = IF m.type = "event" THEN [log EXCEPT !.stage = RunStages(@, m.seq)] ELSE log
        /\ UNCHANGED <<OfMain, q>>

Producer == Produce(mark[Stages], log.stage[LastStage])
Shard(k) == TakeEvent(k) \/ TakeMarker(k) \/ ForwardLocked(k) \/ SendEvent(k) \/ Send(k) \/ SendDone(k) \/ Loop(k)
Thread(t) == (t \in Shards /\ Shard(t)) \/ (t = Stages /\ (Fill \/ Check \/ Emit))
RunEnded == todo = <<>> /\ \A t \in 0 .. N : thr[t].pc = "exit"
-----------------------------------------------------------------------------
\* A last marker may be left in a ring to the stages, nothing else is.
EndsClean ==
  RunEnded => /\ EachOnce
              /\ \A k \in Shards : /\ q[Own(k)] = <<>>
                                  /\ \A i \in DOMAIN q[ToStage(k)] : q[ToStage(k)][i].type = "marker"
===============================================================================

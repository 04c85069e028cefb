----------------------------- MODULE CommitShards -----------------------------
(***************************************************************************)
(* The shard loop that s5, s6 and s7 share: a shard drains its own queue   *)
(* and publishes the number of the last event it has finished. When its    *)
(* queue was empty it moves that number up to what the producer has        *)
(* published, for all events of the other shards.                          *)
(*                                                                         *)
(* mark[k] is committed_seq[k]. The queue is found empty in one step and   *)
(* pushed_seq_max loaded in a later one: what was pushed in between is     *)
(* overtaken, and log.overtaken remembers that it happened.                *)
(***************************************************************************)
EXTENDS OracleRun

MaxSeq == Total + 1                            \* UINT64_MAX
Own(k) == <<"own", k>>
Goto(t, state) == thr' = [thr EXCEPT ![t] = state]
OfMain == <<todo, drained, pushed, done, snaps>>

PushToOwner(e) == (IF InBounds(e) THEN <<Push(Own(ShardOf(Column(e))), "event", e)>> ELSE <<>>)
                  \o <<Do("publish", e + 1)>>
PushMarker(m) == [i \in 1 .. N |-> Push(Own(i - 1), "marker", m)] \o <<Do("publish", m + 1)>>
Close == [i \in 1 .. N |-> Push(Own(i - 1), "eof", 0)]

AllCommitted == Min({mark[k] : k \in Shards})

Polling == [pc |-> "pop", eof |-> FALSE, worked |-> FALSE, last |-> 0]
CommitStart == [k \in Shards |-> 0]

Takes(k, type) ==
  /\ thr[k].pc = "pop" /\ q[Own(k)] # <<>> /\ Head(q[Own(k)]).type = type
  /\ q' = Popped(Own(k))

TakeEof(k) ==
  /\ Takes(k, "eof")
  /\ Goto(k, [thr[k] EXCEPT !.eof = TRUE, !.worked = TRUE])
  /\ UNCHANGED <<OfMain, mark, log>>

\* The shard has finished seq.
Commit(k, seq) == /\ mark' = [mark EXCEPT ![k] = seq]
                  /\ Goto(k, [Polling EXCEPT !.eof = thr[k].eof, !.worked = TRUE, !.last = seq])

QueueEmpty(k) ==
  /\ thr[k].pc = "pop" /\ q[Own(k)] = <<>>
  /\ Goto(k, IF thr[k].worked THEN [thr[k] EXCEPT !.worked = FALSE] ELSE [thr[k] EXCEPT !.pc = "idle"])
  /\ UNCHANGED <<OfMain, q, mark, log>>

Behind(k) == pushed > 0 /\ thr[k].last + 1 < pushed
Overtakes(k) == \E i \in DOMAIN q[Own(k)] :
                   q[Own(k)][i].type = "event" /\ q[Own(k)][i].seq < pushed
CatchUp(k) ==
  /\ thr[k].pc = "idle" /\ Behind(k)
  /\ mark' = [mark EXCEPT ![k] = pushed - 1]
  /\ Goto(k, [thr[k] EXCEPT !.pc = "pop", !.last = pushed - 1])
  /\ log' = [log EXCEPT !.overtaken = @ \/ Overtakes(k)]
  /\ UNCHANGED <<OfMain, q>>

LeaveOrSpin(k) ==
  /\ thr[k].pc = "idle" /\ ~Behind(k)
  /\ Goto(k, [thr[k] EXCEPT !.pc = IF thr[k].eof THEN "exit" ELSE "pop"])
  /\ mark' = IF thr[k].eof THEN [mark EXCEPT ![k] = MaxSeq] ELSE mark
  /\ UNCHANGED <<OfMain, q, log>>

Loop(k) == TakeEof(k) \/ QueueEmpty(k) \/ CatchUp(k) \/ LeaveOrSpin(k)
===============================================================================

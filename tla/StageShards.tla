----------------------------- MODULE StageShards -----------------------------
(***************************************************************************)
(* s8_hierarchical: every stage is sharded by its own columns. The shards  *)
(* that cover an event's column (strip and halo) take it through the       *)
(* stage, on hidden states of their own; the one whose strip has it        *)
(* decides on it and sends it to the shards that cover it at the next      *)
(* stage. One ring for each pair of a source and a target.                 *)
(*                                                                         *)
(* A thread is <<s, k>>, with a pipeline of its own: log.seen[s][k] has    *)
(* the events it took through stage s, log.decided[s][k] those of them it  *)
(* decided on as the owner, which its tdrop counters have counted.         *)
(***************************************************************************)
EXTENDS OracleRun

CONSTANT Halo

MaxSeq == Total + 1                            \* UINT64_MAX
StagesOf == 0 .. LastStage
Threads == StagesOf \X Shards
Ring(s, target, source) == <<"ring", s, target, source>>
\* Stage 0 has one source, the producer.
Sources(s) == IF s = 0 THEN {0} ELSE Shards
Queues == {Ring(s, k, j) : s \in StagesOf, k \in Shards, j \in Shards}

PushOne(e) ==
  LET ks == IF InBounds(e) THEN SetToSortSeq(Covering(Column(e), W, Halo), <) ELSE <<>>
  IN  [i \in DOMAIN ks |-> Push(Ring(0, ks[i], 0), "event", e)] \o <<Do("publish", e + 1)>>
PushMarker(m) == [i \in 1 .. N |-> Push(Ring(0, i - 1, 0), "marker", m)] \o <<Do("publish", m + 1)>>
\* The producer is a second source of slot 0 of the later stages.
Close == [i \in 1 .. N * (LastStage + 1) |->
            Push(Ring((i - 1) \div N, (i - 1) % N, 0), "eof", 0)]
Main == Program([e \in Seqs |-> PushOne(e)], [m \in 0 .. Total |-> PushMarker(m)], Close)

Polling == [pc |-> "pop", eof |-> FALSE]
Init == StartOf(Main, Queues, [t \in Threads |-> 0],
                [name \in {"seen", "decided"} |-> [s \in StagesOf |-> [k \in Shards |-> <<>>]]],
                [t \in Threads |-> Polling])

Goto(t, state) == thr' = [thr EXCEPT ![t] = state]
OfMain == <<todo, drained, pushed, done, snaps>>
-----------------------------------------------------------------------------
OwnsAt(s, k, e) == OwnerIn(At(e, s), Width(s)) = k
Targets(s, e) == Covering(At(e, s + 1), Width(s + 1), Halo)

\* What is left to send; after a marker the thread polls again, after an event it commits.
Sends(s, k, m, ks) ==
  Goto(<<s, k>>, IF ks = {} /\ m.type = "marker" THEN [Polling EXCEPT !.eof = thr[<<s, k>>].eof]
                 ELSE [pc |-> "send", eof |-> thr[<<s, k>>].eof, msg |-> m, left |-> ks])

\* After stage_forward only the owner goes on with an event, by counters no other shard has.
Event(s, k, m) ==
  LET e == m.seq
      owns == OwnsAt(s, k, e)
      survives == owns /\ s < LastStage /\ Survives(e, log.decided[s][k], s)
  IN  /\ log' = [log EXCEPT !.seen[s][k] = Append(@, e),
                            !.decided[s][k] = IF owns THEN Append(@, e) ELSE @]
      /\ Sends(s, k, m, IF survives THEN Targets(s, e) ELSE {})
      /\ UNCHANGED mark

\* A marker is committed first and then passed on to every shard of the next stage.
Marker(s, k, m) ==
  /\ mark' = [mark EXCEPT ![<<s, k>>] = m.seq]
  /\ Sends(s, k, m, IF s < LastStage THEN Shards ELSE {})
  /\ UNCHANGED log

\* Round robin over the sources in the code; from any source here.
Pop(s, k) ==
  \E j \in Sources(s) :
    /\ thr[<<s, k>>].pc = "pop" /\ q[Ring(s, k, j)] # <<>> /\ q' = Popped(Ring(s, k, j))
    /\ LET m == Head(q[Ring(s, k, j)])
       IN  \/ m.type = "event" /\ Event(s, k, m)
           \/ m.type = "marker" /\ Marker(s, k, m)
           \/ m.type = "eof" /\ Goto(<<s, k>>, [Polling EXCEPT !.eof = TRUE]) /\ UNCHANGED <<mark, log>>
    /\ UNCHANGED OfMain

Send(s, k) ==
  /\ thr[<<s, k>>].pc = "send" /\ thr[<<s, k>>].left # {}
  /\ LET t == thr[<<s, k>>]
         ring == Ring(s + 1, Min(t.left), k)
     IN  /\ HasRoom(ring) /\ q' = Sent(ring, t.msg)
         /\ Sends(s, k, t.msg, t.left \ {Min(t.left)})
  /\ UNCHANGED <<OfMain, mark, log>>

\* An event that is sent is committed, even below what was committed before.
Commit(s, k) ==
  /\ thr[<<s, k>>].pc = "send" /\ thr[<<s, k>>].left = {}
  /\ mark' = [mark EXCEPT ![<<s, k>>] = thr[<<s, k>>].msg.seq]
  /\ Goto(<<s, k>>, [Polling EXCEPT !.eof = thr[<<s, k>>].eof])
  /\ UNCHANGED <<OfMain, q, log>>

QueuesEmpty(s, k) ==
  /\ thr[<<s, k>>].pc = "pop" /\ \A j \in Sources(s) : q[Ring(s, k, j)] = <<>>
  /\ Goto(<<s, k>>, [thr[<<s, k>>] EXCEPT !.pc = "idle"])
  /\ UNCHANGED <<OfMain, q, mark, log>>

\* Stage 0 follows the producer, a later stage the slowest shard before it. The
\* last_seq of the code is what was committed last.
Behind(s, k) == pushed > 0 /\ mark[<<s, k>>] + 1 < pushed
Upstream(s) == IF s = 0 THEN pushed - 1 ELSE Min({mark[<<s - 1, j>>] : j \in Shards})
CanCatchUp(s, k) == Behind(s, k) /\ Upstream(s) > mark[<<s, k>>]
Idle(s, k) ==
  /\ thr[<<s, k>>].pc = "idle"
  /\ LET t == thr[<<s, k>>]
     IN  \/ /\ CanCatchUp(s, k)
            /\ mark' = [mark EXCEPT ![<<s, k>>] = Upstream(s)]
            /\ Goto(<<s, k>>, [t EXCEPT !.pc = "pop"])
         \/ /\ ~CanCatchUp(s, k) /\ t.eof
            /\ mark' = [mark EXCEPT ![<<s, k>>] = MaxSeq]
            /\ Goto(<<s, k>>, [t EXCEPT !.pc = "exit"])
         \/ ~CanCatchUp(s, k) /\ ~t.eof /\ Goto(<<s, k>>, [t EXCEPT !.pc = "pop"]) /\ UNCHANGED mark
  /\ UNCHANGED <<OfMain, q, log>>
-----------------------------------------------------------------------------
AllCommitted == Min({mark[t] : t \in Threads})
\* The producer records the predictions of pipes[0][0], to which no shard of the last stage writes.
Producer == Produce(AllCommitted, <<>>)
StageShard(s, k) == Pop(s, k) \/ Send(s, k) \/ Commit(s, k) \/ QueuesEmpty(s, k) \/ Idle(s, k)
Thread(t) == t \in 0 .. N * (LastStage + 1) - 1 /\ StageShard(t \div N, t % N)
-----------------------------------------------------------------------------
\* No shard decides twice on an event; on a whole cell its decisions are the reference's, in its
\* order. A cell divided between two shards is counted by each from zero.
DecidedOnce ==
  \A s \in StagesOf, k \in Shards :
    /\ IsInjective(log.decided[s][k])
    /\ WholeAsReference(log.decided[s][k], s, Min({s + 1, LastStage}))
\* A strip's columns of stage 0 get the events that reach them in order. At every stage each
\* shard takes what comes from a whole cell as the reference does, and nothing twice.
CellsInOrder ==
  /\ \A k \in Shards : \A c \in {d \in GridColumns : OwnerIn(d, W) = k} :
       IsPrefix(SelectSeq(log.seen[0][k], LAMBDA e : c \in PatchOf(e)), Reaching(c))
  /\ \A s \in StagesOf, k \in Shards :
       /\ WholeAsReference(log.seen[s][k], s, s)
       /\ IsInjective(log.seen[s][k])
=============================================================================

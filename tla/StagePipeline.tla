---------------------------- MODULE StagePipeline ----------------------------
(***************************************************************************)
(* s2_pipeline: one thread per stage, joined by single-producer rings. A   *)
(* marker follows the events through the rings and tells the producer that *)
(* everything before it has been consumed; an Eof follows the last marker. *)
(*                                                                         *)
(* marker_done0 to marker_done2 are stored and never read; only            *)
(* marker_done3 is kept.                                                   *)
(***************************************************************************)
EXTENDS OracleRun

StagesOf == 0 .. LastStage
In(s) == <<"q", s>>                            \* q_in, q01, q12, q23

PushOne(e) == <<Push(In(0), "event", e)>>
PushMarker(m) == <<Push(In(0), "marker", m)>>
Close == <<Push(In(0), "eof", 0), Do("done", 0)>>
Main == Program([e \in Seqs |-> PushOne(e)], [m \in 0 .. Total |-> PushMarker(m)], Close)

Polling == [pc |-> "pop"]
Init == StartOf(Main, {In(s) : s \in StagesOf}, 0,
                [stage |-> NoStages], [s \in StagesOf |-> Polling])

Goto(s, state) == thr' = [thr EXCEPT ![s] = state]
\* The message goes on to the next stage, or ends here.
Forward(s, m) == IF s < LastStage THEN Goto(s, [pc |-> "send", msg |-> m])
                 ELSE Goto(s, IF m.type = "eof" THEN [pc |-> "exit"] ELSE Polling)

Event(s, m) ==
  /\ m.type = "event"
  /\ IF ~InBounds(m.seq) THEN UNCHANGED <<log, thr>>
     ELSE /\ log' = [log EXCEPT !.stage[s] = Append(@, m.seq)]
          /\ IF s < LastStage /\ ~Survives(m.seq, log.stage[s], s) THEN UNCHANGED thr
             ELSE Forward(s, m)
  /\ UNCHANGED mark

\* The mutant lets every stage publish the marker, not only the last.
MarkerOrEofAnyStage(s, m) ==
  /\ m.type # "event"
  /\ mark' = IF m.type = "marker" THEN m.seq ELSE mark
  /\ Forward(s, m)
  /\ UNCHANGED log
MarkerOrEof(s, m) ==
  /\ m.type # "event"
  /\ mark' = IF s = LastStage /\ m.type = "marker" THEN m.seq ELSE mark
  /\ Forward(s, m)
  /\ UNCHANGED log

Pop(s) ==
  /\ thr[s].pc = "pop" /\ q[In(s)] # <<>>
  /\ Event(s, Head(q[In(s)])) \/ MarkerOrEof(s, Head(q[In(s)]))
  /\ q' = Popped(In(s))
  /\ UNCHANGED <<todo, drained, pushed, done, snaps>>

Send(s) ==
  /\ thr[s].pc = "send" /\ HasRoom(In(s + 1))
  /\ q' = Sent(In(s + 1), thr[s].msg)
  /\ Goto(s, IF thr[s].msg.type = "eof" THEN [pc |-> "exit"] ELSE Polling)
  /\ UNCHANGED <<todo, drained, pushed, mark, done, snaps, log>>

\* Only stage 0 looks at the done flag, after a failed try_pop.
PopFails == /\ thr[0].pc = "pop" /\ q[In(0)] = <<>> /\ Goto(0, [pc |-> "done?"])
            /\ UNCHANGED <<todo, drained, q, pushed, mark, done, snaps, log>>
LoadDone == /\ thr[0].pc = "done?" /\ Goto(0, IF done THEN [pc |-> "exit"] ELSE Polling)
            /\ UNCHANGED <<todo, drained, q, pushed, mark, done, snaps, log>>

Producer == Produce(mark, log.stage[LastStage])
Thread(s) == s \in StagesOf /\ (Pop(s) \/ Send(s) \/ (s = 0 /\ (PopFails \/ LoadDone)))
RunEnded == todo = <<>> /\ \A s \in StagesOf : thr[s].pc = "exit"
-----------------------------------------------------------------------------
StagesAsReference == \A s \in StagesOf : IsPrefix(log.stage[s], Reference(s, Total))
DrainsComplete ==
  /\ CompleteTo(drained, log.stage)
  /\ \A i \in DOMAIN snaps : snaps[i][2] = Reference(LastStage, snaps[i][1])

\* Stage 0 has left by the done flag with the Eof still in its queue.
EofMissed == thr[0].pc = "exit" /\ q[In(0)] # <<>>
=============================================================================

------------------------------ MODULE PatchLocks ------------------------------
(***************************************************************************)
(* stage_forward_locked: the two layers of a stage, each over the cells of *)
(* the patch, one cell at a time. The hidden states are shared by all      *)
(* shards, and a spin lock of its own guards each: a thread holds the lock *)
(* of a cell exactly while it is at "update" there, between the load and   *)
(* the store of lru_step. A cell is a column; its state is the sequence of *)
(* the events it has taken.                                                *)
(***************************************************************************)
EXTENDS CommitShards

StageOf(l) == l \div 2
Cells(s) == 0 .. (W \div 2^s) - 1
\* Layer 0 has one position, the others have three columns of them.
Reach(l) == IF l = 0 THEN 0 ELSE 1
PatchAt(e, l) == LET x == At(e, StageOf(l)) IN (x - Reach(l) .. x + Reach(l)) \cap Cells(StageOf(l))

NoCells == [l \in 0 .. 2 * LastStage + 1 |-> [c \in Cells(StageOf(l)) |-> <<>>]]
EnterLayer(k, e, l) == [pc |-> "lock", eof |-> thr[k].eof, last |-> thr[k].last,
                        e |-> e, layer |-> l, left |-> PatchAt(e, l)]

TakeEvent(k) ==
  /\ Takes(k, "event")
  /\ Goto(k, EnterLayer(k, Head(q[Own(k)]).seq, 0))
  /\ UNCHANGED <<OfMain, mark, log>>

\* The mutant does not look whether another thread is in the cell.
FreeAlways(k, l, c) == TRUE
Free(k, l, c) == ~ \E j \in Shards \ {k} : /\ thr[j].pc = "update"
                                           /\ thr[j].layer = l /\ Min(thr[j].left) = c

LockPatch(k) ==
  /\ thr[k].pc = "lock"
  /\ LET c == Min(thr[k].left)
     IN  /\ Free(k, thr[k].layer, c)
         /\ Goto(k, [pc |-> "update", eof |-> thr[k].eof, last |-> thr[k].last, e |-> thr[k].e,
                     layer |-> thr[k].layer, left |-> thr[k].left,
                     loaded |-> log.cells[thr[k].layer][c]])
  /\ UNCHANGED <<OfMain, q, mark, log>>

\* The store, and the release of the lock.
UpdatePatch(k) ==
  /\ thr[k].pc = "update"
  /\ LET t == thr[k]
         left == t.left \ {Min(t.left)}
     IN  /\ log' = [log EXCEPT !.cells[t.layer][Min(t.left)] = Append(t.loaded, t.e)]
         /\ Goto(k, IF left # {} THEN [pc |-> "lock", eof |-> t.eof, last |-> t.last,
                                       e |-> t.e, layer |-> t.layer, left |-> left]
                    ELSE IF t.layer % 2 = 0 THEN EnterLayer(k, t.e, t.layer + 1)
                    ELSE [pc |-> "forwarded", eof |-> t.eof, last |-> t.last,
                          e |-> t.e, layer |-> t.layer])
  /\ UNCHANGED <<OfMain, q, mark>>

ForwardLocked(k) == LockPatch(k) \/ UpdatePatch(k)
-----------------------------------------------------------------------------
\* Of the events a stage has finished, each is in every cell of its patch once.
AppliedOnce ==
  \A l \in DOMAIN log.cells :
    LET s == StageOf(l)
        Patch(e) == PatchAt(e, l)
    IN  OnceInPatch(log.cells[l], {log.stage[s][i] : i \in DOMAIN log.stage[s]}, Patch)
EachOnce == \A e \in Seqs : Count(log.stage[0], e) = (IF InBounds(e) THEN 1 ELSE 0)
===============================================================================

------------------------------- MODULE GpuRing -------------------------------
(***************************************************************************)
(* One GPU block's input ring, between the shard workers and the           *)
(* persistent kernel.  A worker (src/lib_stage01_to_gpu.cpp, shard_worker) *)
(* takes a slot number with a fetch_add on ring_head, fills the slot, and  *)
(* stamps it with seq_done = slot + 1.  The kernel                         *)
(* (orin/kernels/ssla_s2_s3_head_celled.cuh, persistent_multi) probes the  *)
(* stamps from its tail on, copies the consecutive slots that are ready,   *)
(* processes them as one batch and publishes the new tail.  Nothing tells  *)
(* a worker where the tail is: a claim is never refused, and the ring      *)
(* overruns when the GPU falls more than a ring behind.                    *)
(*                                                                         *)
(* A record is two words, its coordinates and its features, so that a      *)
(* half-written one shows; what is written there is the event's number in  *)
(* claim order.  The 64-bit counters are taken as unbounded.               *)
(***************************************************************************)
EXTENDS Integers, Sequences, FiniteSets

CONSTANTS Worker,     \* the shard workers that feed this block
          Capacity,   \* ring_mask + 1
          Batch,      \* BATCH
          MaxClaims   \* bound: slots claimed in a run

ASSUME GpuRingAssumption ==
    /\ IsFiniteSet(Worker)
    /\ Capacity \in Nat \ {0}
    /\ Batch \in Nat \ {0}
    /\ MaxClaims \in Nat

VARIABLES
    ringCoord,  \* ring_buf[].x, .y, .t
    ringFeat,   \* ring_buf[].feat1
    seqDone,    \* ring_buf[].seq_done
    head,       \* *ring_head
    wpc,        \* where each worker is in its push
    slot,       \* the slot number each worker claimed
    todo,       \* the words it has still to write
    nPushed,    \* n_pushed
    overrun,    \* history: head ran more than a ring ahead of the tail
    tail,       \* t_local, *tail and *events_done
    kpc,        \* where the kernel block is in its loop
    nReady,     \* n_ready, then batch_size
    coords,     \* event_slots: the coordinates copied so far
    feats,      \* event_slots: the features copied so far
    consumed,   \* history: the records processed, in order
    stopFlag    \* *stop_flag

ring == <<ringCoord, ringFeat, seqDone>>
workerVars == <<head, wpc, slot, todo, nPushed, overrun>>
kernelVars == <<tail, kpc, nReady, coords, feats, consumed>>
vars == <<ring, workerVars, kernelVars, stopFlag>>

Word == {"coord", "feat"}
Cell(n) == n % Capacity                     \* slot & ring_mask
Cells == 0 .. Capacity - 1

TypeOK ==
    /\ ringCoord \in [Cells -> Nat]
    /\ ringFeat \in [Cells -> Nat]
    /\ seqDone \in [Cells -> Nat]
    /\ head \in Nat /\ tail \in Nat /\ nPushed \in Nat
    /\ wpc \in [Worker -> {"idle", "fill", "count"}]
    /\ slot \in [Worker -> Nat]
    /\ todo \in [Worker -> SUBSET Word]
    /\ overrun \in BOOLEAN /\ stopFlag \in BOOLEAN
    /\ kpc \in {"top", "probe", "load", "returned"}
    /\ nReady \in 0 .. Batch
    /\ kpc = "probe" => nReady < Batch
    /\ coords \in Seq(Nat) /\ feats \in Seq(Nat)
    /\ consumed \in Seq([coord : Nat, feat : Nat])

Init ==
    /\ ringCoord = [c \in Cells |-> 0]
    /\ ringFeat = [c \in Cells |-> 0]
    /\ seqDone = [c \in Cells |-> 0]
    /\ head = 0 /\ nPushed = 0 /\ overrun = FALSE
    /\ wpc = [w \in Worker |-> "idle"]
    /\ slot = [w \in Worker |-> 0]
    /\ todo = [w \in Worker |-> {}]
    /\ tail = 0 /\ kpc = "top" /\ nReady = 0
    /\ coords = << >> /\ feats = << >> /\ consumed = << >>
    /\ stopFlag = FALSE

-----------------------------------------------------------------------------
(* A worker's push.                                                        *)

\* slot = fetch_add(ring_head, 1): no look at the tail.
Claim(w) ==
    /\ wpc[w] = "idle"
    /\ head < MaxClaims
    /\ slot' = [slot EXCEPT ![w] = head]
    /\ head' = head + 1
    /\ todo' = [todo EXCEPT ![w] = Word]
    /\ wpc' = [wpc EXCEPT ![w] = "fill"]
    /\ overrun' = (overrun \/ head' - tail > Capacity)
    /\ UNCHANGED <<ring, nPushed, kernelVars, stopFlag>>

\* The plain stores to the record; the compiler and the core may reorder them.
WriteCoords(w) ==
    /\ wpc[w] = "fill" /\ "coord" \in todo[w]
    /\ ringCoord' = [ringCoord EXCEPT ![Cell(slot[w])] = slot[w] + 1]
    /\ todo' = [todo EXCEPT ![w] = @ \ {"coord"}]
    /\ UNCHANGED <<ringFeat, seqDone, head, wpc, slot, nPushed, overrun,
                   kernelVars, stopFlag>>

WriteFeats(w) ==
    /\ wpc[w] = "fill" /\ "feat" \in todo[w]
    /\ ringFeat' = [ringFeat EXCEPT ![Cell(slot[w])] = slot[w] + 1]
    /\ todo' = [todo EXCEPT ![w] = @ \ {"feat"}]
    /\ UNCHANGED <<ringCoord, seqDone, head, wpc, slot, nPushed, overrun,
                   kernelVars, stopFlag>>

\* The release store of seq_done.
Stamp(w, seq) ==
    /\ wpc[w] = "fill"
    /\ seqDone' = [seqDone EXCEPT ![Cell(slot[w])] = seq]
    /\ wpc' = [wpc EXCEPT ![w] = "count"]
    /\ UNCHANGED <<ringCoord, ringFeat, head, slot, todo, nPushed, overrun,
                   kernelVars, stopFlag>>

\* Mutants: the stamp is stored before the record is complete; the stamp is the
\* slot number.
PublishSeqEarly(w) == Stamp(w, slot[w] + 1)
PublishSeqSlot(w) == todo[w] = {} /\ Stamp(w, slot[w])

PublishSeq(w) == todo[w] = {} /\ Stamp(w, slot[w] + 1)

CountPush(w) ==
    /\ wpc[w] = "count"
    /\ nPushed' = nPushed + 1
    /\ wpc' = [wpc EXCEPT ![w] = "idle"]
    /\ UNCHANGED <<ring, head, slot, todo, overrun, kernelVars, stopFlag>>

Fill(w) == WriteCoords(w) \/ WriteFeats(w) \/ PublishSeq(w) \/ CountPush(w)

Push(w) == Claim(w) \/ Fill(w)

-----------------------------------------------------------------------------
(* The kernel block.                                                       *)

CheckStop ==
    /\ kpc = "top"
    /\ kpc' = IF stopFlag THEN "returned" ELSE "probe"
    /\ nReady' = 0
    /\ UNCHANGED <<ring, tail, coords, feats, consumed, workerVars, stopFlag>>

\* One more slot of the probe loop is ready: look at the next, up to a batch.
CountReady(size) ==
    /\ kpc = "probe"
    /\ nReady' = nReady + 1
    /\ kpc' = IF nReady' = size THEN "load" ELSE "probe"
    /\ UNCHANGED <<ring, tail, coords, feats, consumed, workerVars, stopFlag>>

SeqSeen == seqDone[Cell(tail + nReady)]

\* Mutants: any stamp counts as ready; a stamp of a later lap does; one slot
\* more than a batch.
ProbeReadyAnyStamp == SeqSeen # 0 /\ CountReady(Batch)
ProbeReadyLaterStamp == SeqSeen >= tail + nReady + 1 /\ CountReady(Batch)
ProbeReadyOffByOne == SeqSeen = tail + nReady + 1 /\ CountReady(Batch + 1)

ProbeReady == SeqSeen = tail + nReady + 1 /\ CountReady(Batch)

\* The slot is not ready: go on with what there is, or sleep and start again.
ProbeNotReady ==
    /\ kpc = "probe"
    /\ SeqSeen # tail + nReady + 1
    /\ kpc' = IF nReady = 0 THEN "top" ELSE "load"
    /\ UNCHANGED <<ring, tail, nReady, coords, feats, consumed, workerVars, stopFlag>>

\* Thread 0 copies the coordinates, the other threads the features; they walk
\* the batch without waiting for each other.
LoadCoords ==
    /\ kpc = "load" /\ Len(coords) < nReady
    /\ coords' = Append(coords, ringCoord[Cell(tail + Len(coords))])
    /\ UNCHANGED <<ring, tail, kpc, nReady, feats, consumed, workerVars, stopFlag>>

LoadFeats ==
    /\ kpc = "load" /\ Len(feats) < nReady
    /\ feats' = Append(feats, ringFeat[Cell(tail + Len(feats))])
    /\ UNCHANGED <<ring, tail, kpc, nReady, coords, consumed, workerVars, stopFlag>>

\* The batch is processed, the tail and events_done advance.
FinishBatch ==
    /\ kpc = "load" /\ Len(coords) = nReady /\ Len(feats) = nReady
    /\ consumed' = consumed \o
           [e \in 1 .. nReady |-> [coord |-> coords[e], feat |-> feats[e]]]
    /\ tail' = tail + nReady
    /\ coords' = << >> /\ feats' = << >>
    /\ kpc' = "top"
    /\ UNCHANGED <<ring, nReady, workerVars, stopFlag>>

Kernel == \/ CheckStop \/ ProbeReady \/ ProbeNotReady
          \/ LoadCoords \/ LoadFeats \/ FinishBatch

\* The host sets the stop flag (SIGINT, the window closed, or time is up).
SetStop ==
    /\ ~stopFlag
    /\ stopFlag' = TRUE
    /\ UNCHANGED <<ring, workerVars, kernelVars>>

Next == (\E w \in Worker : Push(w)) \/ Kernel \/ SetStop

Spec == Init /\ [][Next]_vars

(* A worker that has claimed a slot goes on to fill it, and the kernel runs.*)
FairSpec ==
    /\ Spec
    /\ \A w \in Worker : WF_vars(Fill(w))
    /\ WF_vars(CheckStop \/ ProbeReady \/ ProbeNotReady)
    /\ WF_vars(LoadCoords) /\ WF_vars(LoadFeats) /\ WF_vars(FinishBatch)

-----------------------------------------------------------------------------
\* How many slots beyond the tail the kernel has found ready.
Ready == IF kpc \in {"probe", "load"} THEN nReady ELSE 0

Filling(n) == \E w \in Worker : wpc[w] = "fill" /\ slot[w] = n

Whole(n) == [coord |-> n, feat |-> n]

InPlace(n) == /\ seqDone[Cell(n)] = n + 1
              /\ ringCoord[Cell(n)] = n + 1
              /\ ringFeat[Cell(n)] = n + 1

(* While the GPU keeps within a ring of the workers, it processes every    *)
(* event exactly once, whole, in the order the slots were claimed: no      *)
(* record is torn, skipped, repeated or overtaken by one that was claimed  *)
(* later and published earlier.                                            *)
IntactDelivery ==
    ~overrun => consumed = [n \in 1 .. tail |-> Whole(n)]

(* While the GPU keeps within a ring, no worker writes to a slot of the    *)
(* batch the kernel is copying.                                            *)
BatchUndisturbed ==
    ~overrun /\ kpc = "load" =>
        \A w \in Worker, n \in tail .. tail + nReady - 1 :
            wpc[w] = "fill" => Cell(slot[w]) # Cell(n)

(* The tail never passes the head, overrun or not: ring_lag, which the     *)
(* runner computes as heads minus events_done, is never negative.          *)
LagNonNegative == tail <= head

(* "No events are dropped [...] they pile in the GPU input ring and        *)
(* degrade gracefully": an event that was published and not yet processed  *)
(* is still in its slot.                                                   *)
PileInRing ==
    \A n \in tail .. head - 1 :
        ~Filling(n) => InPlace(n)

(* "The GPU kernel, reading garbage, eventually stalls": once a later lap   *)
(* has stamped the slot at the tail, and nobody is left to stamp it with an *)
(* earlier number, the kernel never processes another event.                *)
Stuck ==
    /\ kpc # "load" /\ Ready = 0
    /\ seqDone[Cell(tail)] > tail + 1
    /\ \A w \in Worker : wpc[w] = "fill" /\ Cell(slot[w]) = Cell(tail) => slot[w] > tail

StallsForGood == [][Stuck => Stuck']_vars

(* Every event a worker claims a slot for is processed, unless the ring    *)
(* overruns or the host stops the kernel.                                  *)
EveryClaimProcessed ==
    \A n \in 1 .. MaxClaims :
        head >= n ~> (tail >= n \/ overrun \/ stopFlag)

(* The ring implements the ticket queue: a ticket is taken by the fetch_add *)
(* and closed by the release store, and the kernel serves a batch when it   *)
(* publishes its tail.  This needs no assumption on the load.               *)
Tickets == INSTANCE TicketQueue WITH
    taken <- head, served <- tail,
    open <- {slot[w] : w \in {v \in Worker : wpc[v] = "fill"}}

TicketSpec == Tickets!TicketSpec

-----------------------------------------------------------------------------
(* The inductive invariant.                                                *)

\* Whatever the load: a slot number has one owner, a stamp tells of a finished
\* push, and what the kernel has found ready was pushed.
ClaimsDistinct ==
    /\ \A w \in Worker : wpc[w] = "fill" => slot[w] < head
    /\ \A v, w \in Worker :
         wpc[v] = "fill" /\ wpc[w] = "fill" /\ slot[v] = slot[w] => v = w

StampsTrue ==
    \A c \in Cells : seqDone[c] # 0 =>
        /\ Cell(seqDone[c] - 1) = c
        /\ seqDone[c] <= head
        /\ ~Filling(seqDone[c] - 1)

ReadyPushed ==
    /\ tail + Ready <= head
    /\ \A n \in 0 .. tail + Ready - 1 : ~Filling(n)

OrderInv == ClaimsDistinct /\ StampsTrue /\ ReadyPushed

\* Without an overrun: the slots between tail and head are in use once, and
\* hold what was written.
WithinRing == head - tail <= Capacity

WrittenSoFar ==
    \A w \in Worker : wpc[w] = "fill" =>
        /\ "coord" \notin todo[w] => ringCoord[Cell(slot[w])] = slot[w] + 1
        /\ "feat" \notin todo[w] => ringFeat[Cell(slot[w])] = slot[w] + 1

CopiedSoFar ==
    /\ Len(coords) <= Ready /\ Len(feats) <= Ready
    /\ \A e \in 1 .. Len(coords) : coords[e] = tail + e
    /\ \A e \in 1 .. Len(feats) : feats[e] = tail + e

DataInv ==
    ~overrun => WithinRing /\ WrittenSoFar /\ PileInRing /\ CopiedSoFar

IndInv == TypeOK /\ OrderInv /\ DataInv /\ IntactDelivery
=============================================================================

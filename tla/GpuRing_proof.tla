---------------------------- MODULE GpuRing_proof ----------------------------
(***************************************************************************)
(* Proofs about GpuRing for every set of workers, capacity and batch size. *)
(* First what holds whatever the load (OrderInv): slot numbers have one    *)
(* owner, stamps tell the truth, and the kernel only counts pushed slots   *)
(* as ready; from it the ticket queue and the sign of the lag.  Then what  *)
(* holds as long as the ring has not overrun (DataInv): two slot numbers   *)
(* in use are less than a ring apart, so they have different cells, and    *)
(* what was written is what is read.                                       *)
(***************************************************************************)
EXTENDS GpuRing, SequenceTheorems, TLAPS

LEMMA ConstantTypes ==
    /\ Capacity \in Nat /\ Capacity > 0
    /\ Batch \in Nat /\ Batch > 0
BY GpuRingAssumption

LEMMA CellRange == ASSUME NEW n \in Nat PROVE Cell(n) \in Cells
BY ConstantTypes DEF Cell, Cells

(* Two slot numbers less than a ring apart have different cells.           *)
LEMMA CellsDiffer ==
    ASSUME NEW a \in Nat, NEW b \in Nat, a < b, b - a < Capacity
    PROVE  Cell(a) # Cell(b)
<1> SUFFICES ASSUME Cell(a) = Cell(b) PROVE FALSE  OBVIOUS
<1> DEFINE C == Capacity
           d == (b \div C) - (a \div C)
<1>1. C \in Nat /\ C > 0  BY ConstantTypes
<1>2. \A x, c \in Nat : c > 0 => x \div c \in Int /\ x = c * (x \div c) + (x % c)
  OBVIOUS
<1>3. /\ a \div C \in Int /\ b \div C \in Int
      /\ a = C * (a \div C) + Cell(a) /\ b = C * (b \div C) + Cell(b)
  BY <1>1, <1>2 DEF Cell
<1>4. Cell(a) \in Int  BY <1>1, CellRange DEF Cells
<1>5. b - a = C * d
  <2>1. b - a = C * (b \div C) - C * (a \div C)  BY <1>1, <1>3, <1>4
  <2>2. C * (b \div C) - C * (a \div C) = C * d  BY <1>1, <1>3
  <2> QED  BY <2>1, <2>2
<1>6. ASSUME NEW c \in Nat, NEW k \in Int, c * k > 0, c * k < c PROVE FALSE
  <2>1. CASE k <= 0
    <3>1. c * k <= 0  BY <2>1
    <3> QED  BY <3>1, <1>6
  <2>2. CASE k >= 1
    <3>1. c * k >= c  BY <2>2
    <3> QED  BY <3>1, <1>6
  <2> QED  BY <2>1, <2>2
<1>7. d \in Int /\ C * d > 0 /\ C * d < C  BY <1>3, <1>5
<1> QED  BY <1>1, <1>6, <1>7

-----------------------------------------------------------------------------
LEMMA SlotTypes ==
    ASSUME TypeOK, NEW w \in Worker
    PROVE  slot[w] \in Nat /\ slot[w] + 1 \in Nat /\ Cell(slot[w]) \in Cells
<1>1. slot[w] \in Nat  BY DEF TypeOK
<1>2. Cell(slot[w]) \in Cells  BY <1>1, CellRange
<1>3. slot[w] + 1 \in Nat  BY <1>1
<1> QED  BY <1>1, <1>2, <1>3

(* Type correctness.                                                       *)
LEMMA TypeInvariance == TypeOK /\ [Next]_vars => TypeOK'
<1> SUFFICES ASSUME TypeOK, [Next]_vars PROVE TypeOK'  OBVIOUS
<1> USE DEF TypeOK
<1>c. \A n \in Nat : Cell(n) \in Cells  BY CellRange
<1>1. ASSUME NEW w \in Worker, Claim(w) PROVE TypeOK'
  BY <1>1 DEF Claim, kernelVars, ring, Word
<1>2. ASSUME NEW w \in Worker, WriteCoords(w) PROVE TypeOK'
  <2>1. slot[w] + 1 \in Nat /\ Cell(slot[w]) \in Cells  BY <1>2, SlotTypes
  <2>2. ringCoord' \in [Cells -> Nat]  BY <2>1, <1>2 DEF WriteCoords
  <2>3. todo' \in [Worker -> SUBSET Word]  BY <1>2 DEF WriteCoords
  <2> QED  BY <2>2, <2>3, <1>2 DEF WriteCoords, kernelVars
<1>3. ASSUME NEW w \in Worker, WriteFeats(w) PROVE TypeOK'
  <2>1. slot[w] + 1 \in Nat /\ Cell(slot[w]) \in Cells  BY <1>3, SlotTypes
  <2>2. ringFeat' \in [Cells -> Nat]  BY <2>1, <1>3 DEF WriteFeats
  <2>3. todo' \in [Worker -> SUBSET Word]  BY <1>3 DEF WriteFeats
  <2> QED  BY <2>2, <2>3, <1>3 DEF WriteFeats, kernelVars
<1>4. ASSUME NEW w \in Worker, PublishSeq(w) PROVE TypeOK'
  <2>1. slot[w] + 1 \in Nat /\ Cell(slot[w]) \in Cells  BY <1>4, SlotTypes
  <2>2. seqDone' \in [Cells -> Nat]  BY <2>1, <1>4 DEF PublishSeq, Stamp
  <2> QED  BY <2>2, <1>4 DEF PublishSeq, Stamp, kernelVars
<1>5. ASSUME NEW w \in Worker, CountPush(w) PROVE TypeOK'
  BY <1>5 DEF CountPush, kernelVars, ring
<1>6. CASE CheckStop
  BY <1>6, ConstantTypes DEF CheckStop, workerVars, ring
<1>7. CASE ProbeReady
  <2>1. nReady < Batch  BY <1>7, ConstantTypes DEF ProbeReady, CountReady, SeqSeen
  <2> QED  BY <2>1, <1>7, ConstantTypes DEF ProbeReady, CountReady, SeqSeen, workerVars, ring
<1>8. CASE ProbeNotReady
  BY <1>8 DEF ProbeNotReady, SeqSeen, workerVars, ring
<1>9. CASE LoadCoords
  <2>1. ringCoord[Cell(tail + Len(coords))] \in Nat  BY <1>c
  <2> QED  BY <2>1, <1>9 DEF LoadCoords, workerVars, ring
<1>10. CASE LoadFeats
  <2>1. ringFeat[Cell(tail + Len(feats))] \in Nat  BY <1>c
  <2> QED  BY <2>1, <1>10 DEF LoadFeats, workerVars, ring
<1>11. CASE FinishBatch
  <2> DEFINE done == [e \in 1 .. nReady |-> [coord |-> coords[e], feat |-> feats[e]]]
  <2>1. nReady \in Nat  BY ConstantTypes
  <2>2. done \in Seq([coord : Nat, feat : Nat])
    <3>1. \A e \in 1 .. nReady : coords[e] \in Nat /\ feats[e] \in Nat
      BY <1>11 DEF FinishBatch
    <3> QED  BY <2>1, <3>1
  <2>3. consumed' \in Seq([coord : Nat, feat : Nat])
    BY <2>2, <1>11, ConcatProperties DEF FinishBatch
  <2> QED  BY <2>1, <2>3, <1>11 DEF FinishBatch, workerVars, ring
<1>12. CASE SetStop
  BY <1>12 DEF SetStop, workerVars, kernelVars, ring
<1>13. CASE UNCHANGED vars
  BY <1>13 DEF vars, workerVars, kernelVars, ring
<1> QED  BY <1>1, <1>2, <1>3, <1>4, <1>5, <1>6, <1>7, <1>8, <1>9, <1>10, <1>11,
            <1>12, <1>13
         DEF Next, Push, Fill, Kernel

LEMMA TypeInit == Init => TypeOK
<1> SUFFICES ASSUME Init PROVE TypeOK  OBVIOUS
<1>1. coords \in Seq(Nat) /\ feats \in Seq(Nat)  BY EmptySeq DEF Init
<1>2. consumed \in Seq([coord : Nat, feat : Nat])  BY EmptySeq DEF Init
<1>3. todo \in [Worker -> SUBSET Word]  BY DEF Init
<1>4. /\ ringCoord \in [Cells -> Nat] /\ ringFeat \in [Cells -> Nat]
      /\ seqDone \in [Cells -> Nat] /\ slot \in [Worker -> Nat]
      /\ wpc \in [Worker -> {"idle", "fill", "count"}]
  BY DEF Init
<1>5. nReady \in 0 .. Batch  BY ConstantTypes DEF Init
<1> QED  BY <1>1, <1>2, <1>3, <1>4, <1>5 DEF Init, TypeOK

(* Every variable keeps its type, whatever the load.                       *)
THEOREM TypeCorrect == Spec => []TypeOK
BY TypeInit, TypeInvariance, PTL DEF Spec

-----------------------------------------------------------------------------
(* What holds whatever the load.                                           *)

LEMMA KernelTypes ==
    ASSUME TypeOK
    PROVE  /\ head \in Nat /\ tail \in Nat /\ nReady \in Nat /\ Ready \in Nat
           /\ tail + nReady \in Nat /\ tail + Ready \in Nat
           /\ Len(coords) \in Nat /\ Len(feats) \in Nat /\ Len(consumed) \in Nat
<1>1. head \in Nat /\ tail \in Nat /\ nReady \in Nat
  BY ConstantTypes DEF TypeOK
<1>2. Ready \in Nat  BY <1>1 DEF Ready
<1>3. Len(coords) \in Nat /\ Len(feats) \in Nat /\ Len(consumed) \in Nat
  BY LenProperties DEF TypeOK
<1> QED  BY <1>1, <1>2, <1>3

(* A claim gives a number nobody has; a publication ends exactly one fill. *)
LEMMA ClaimFilling ==
    ASSUME TypeOK, NEW w \in Worker, Claim(w)
    PROVE  \A n : n # head => (Filling(n)' <=> Filling(n))
<1>1. /\ wpc[w] = "idle" /\ slot' = [slot EXCEPT ![w] = head]
      /\ wpc' = [wpc EXCEPT ![w] = "fill"]
  BY DEF Claim
<1> QED  BY <1>1 DEF TypeOK, Filling

LEMMA PublishFilling ==
    ASSUME TypeOK, ClaimsDistinct, NEW w \in Worker, PublishSeq(w)
    PROVE  /\ \A n : Filling(n)' => Filling(n)
           /\ \A n : n = slot[w] => ~Filling(n)'
           /\ \A n : n # slot[w] => (Filling(n)' <=> Filling(n))
<1>1. /\ wpc[w] = "fill" /\ slot' = slot
      /\ wpc' = [wpc EXCEPT ![w] = "count"]
  BY DEF PublishSeq, Stamp
<1> QED  BY <1>1 DEF TypeOK, Filling, ClaimsDistinct

LEMMA OrderInvariance == TypeOK /\ OrderInv /\ [Next]_vars => OrderInv'
<1> SUFFICES ASSUME TypeOK, OrderInv, [Next]_vars PROVE OrderInv'  OBVIOUS
<1>i. ClaimsDistinct /\ StampsTrue /\ ReadyPushed  BY DEF OrderInv
<1>t. /\ head \in Nat /\ tail \in Nat /\ nReady \in Nat /\ Ready \in Nat
      /\ tail + nReady \in Nat /\ tail + Ready \in Nat
  BY KernelTypes
<1>s. \A c \in Cells : seqDone[c] \in Nat  BY DEF TypeOK
<1>w. \A w \in Worker : slot[w] \in Nat /\ wpc[w] \in {"idle", "fill", "count"}
  BY DEF TypeOK
<1>same. ASSUME UNCHANGED <<wpc, slot, seqDone, head>>
         PROVE  /\ ClaimsDistinct' /\ StampsTrue'
                /\ \A n : Filling(n)' <=> Filling(n)
  BY <1>same, <1>i DEF ClaimsDistinct, StampsTrue, Filling
<1>1. ASSUME NEW w \in Worker, Claim(w) PROVE OrderInv'
  <2>1. /\ wpc[w] = "idle" /\ slot' = [slot EXCEPT ![w] = head]
        /\ wpc' = [wpc EXCEPT ![w] = "fill"] /\ head' = head + 1
        /\ UNCHANGED <<seqDone, tail, kpc, nReady>>
    BY <1>1 DEF Claim, kernelVars, ring
  <2>2. \A n : n # head => (Filling(n)' <=> Filling(n))
    BY <1>1, ClaimFilling
  <2>3. ClaimsDistinct'
    <3>1. \A v \in Worker : slot'[v] = (IF v = w THEN head ELSE slot[v])
                            /\ (v # w => wpc'[v] = wpc[v])
      BY <2>1 DEF TypeOK
    <3>2. \A v \in Worker : wpc[v] = "fill" => slot[v] < head
      BY <1>i DEF ClaimsDistinct
    <3>3. \A v \in Worker : wpc'[v] = "fill" => slot'[v] < head + 1
      BY <3>1, <3>2, <1>t, <1>w
    <3>4. \A v \in Worker : v # w /\ wpc'[v] = "fill" => slot'[v] # head
      BY <3>1, <3>2, <1>t, <1>w
    <3>5. \A u, v \in Worker :
            wpc'[u] = "fill" /\ wpc'[v] = "fill" /\ slot'[u] = slot'[v] => u = v
      BY <3>1, <3>4, <1>i DEF ClaimsDistinct
    <3> QED  BY <2>1, <3>3, <3>5 DEF ClaimsDistinct
  <2>4. StampsTrue'
    <3> SUFFICES ASSUME NEW c \in Cells, NEW n, n = seqDone[c] - 1, seqDone[c] # 0
                 PROVE  Cell(n) = c /\ seqDone[c] <= head + 1 /\ ~Filling(n)'
      BY <2>1 DEF StampsTrue, Filling
    <3>1. Cell(n) = c /\ seqDone[c] <= head /\ ~Filling(n)
      BY <1>i DEF StampsTrue
    <3>2. n # head /\ seqDone[c] <= head + 1
      BY <3>1, <1>s, <1>t
    <3> QED  BY <3>1, <3>2, <2>2
  <2>5. ReadyPushed'
    <3>1. Ready' = Ready  BY <2>1 DEF Ready
    <3>2. tail + Ready <= head /\ \A n \in 0 .. tail + Ready - 1 : ~Filling(n)
      BY <1>i DEF ReadyPushed
    <3>3. \A n \in 0 .. tail + Ready - 1 : n # head  BY <3>2, <1>t
    <3>4. tail + Ready <= head + 1  BY <3>2, <1>t
    <3> QED  BY <2>1, <2>2, <3>1, <3>2, <3>3, <3>4 DEF ReadyPushed
  <2> QED  BY <2>3, <2>4, <2>5 DEF OrderInv
<1>2. ASSUME NEW w \in Worker, WriteCoords(w) \/ WriteFeats(w) PROVE OrderInv'
  <2>1. UNCHANGED <<wpc, slot, seqDone, head, tail, kpc, nReady>>
    BY <1>2 DEF WriteCoords, WriteFeats, kernelVars
  <2> QED  BY <2>1, <1>same, <1>i DEF OrderInv, ReadyPushed, Ready
<1>3. ASSUME NEW w \in Worker, PublishSeq(w) PROVE OrderInv'
  <2>1. /\ wpc[w] = "fill" /\ slot' = slot
        /\ wpc' = [wpc EXCEPT ![w] = "count"]
        /\ seqDone' = [seqDone EXCEPT ![Cell(slot[w])] = slot[w] + 1]
        /\ UNCHANGED <<head, tail, kpc, nReady>>
    BY <1>3 DEF PublishSeq, Stamp, kernelVars
  <2>2. /\ \A n : Filling(n)' => Filling(n)
        /\ \A n : n = slot[w] => ~Filling(n)'
    BY <1>3, <1>i, PublishFilling
  <2>3. slot[w] \in Nat /\ Cell(slot[w]) \in Cells /\ slot[w] < head
    BY <1>3, <2>1, <1>i, SlotTypes DEF ClaimsDistinct
  <2>4. ClaimsDistinct'
    BY <2>1, <1>i DEF ClaimsDistinct, TypeOK
  <2>5. StampsTrue'
    <3> SUFFICES ASSUME NEW c \in Cells, NEW n, n = seqDone'[c] - 1, seqDone'[c] # 0
                 PROVE  Cell(n) = c /\ seqDone'[c] <= head /\ ~Filling(n)'
      BY <2>1 DEF StampsTrue, Filling
    <3>1. CASE c = Cell(slot[w])
      <4>1. seqDone'[c] = slot[w] + 1  BY <3>1, <2>1 DEF TypeOK
      <4>2. n = slot[w] /\ seqDone'[c] <= head
        BY <4>1, <2>3, <1>t
      <4> QED  BY <4>2, <3>1, <2>2
    <3>2. CASE c # Cell(slot[w])
      <4>1. seqDone'[c] = seqDone[c]  BY <3>2, <2>1 DEF TypeOK
      <4>2. Cell(n) = c /\ seqDone[c] <= head /\ ~Filling(n)
        BY <4>1, <1>i DEF StampsTrue
      <4> QED  BY <4>1, <4>2, <2>2
    <3> QED  BY <3>1, <3>2
  <2>6. ReadyPushed'
    BY <2>1, <2>2, <1>i DEF ReadyPushed, Ready
  <2> QED  BY <2>4, <2>5, <2>6 DEF OrderInv
<1>4. ASSUME NEW w \in Worker, CountPush(w) PROVE OrderInv'
  <2>1. /\ wpc[w] = "count" /\ wpc' = [wpc EXCEPT ![w] = "idle"]
        /\ UNCHANGED <<slot, seqDone, head, tail, kpc, nReady>>
    BY <1>4 DEF CountPush, kernelVars, ring
  <2>2. \A v \in Worker : wpc'[v] = "fill" <=> wpc[v] = "fill"
    BY <2>1 DEF TypeOK
  <2> QED  BY <2>1, <2>2, <1>i
           DEF OrderInv, ClaimsDistinct, StampsTrue, ReadyPushed, Ready, Filling
<1>5. CASE CheckStop
  <2>1. UNCHANGED <<wpc, slot, seqDone, head, tail>> /\ Ready' = 0 /\ Ready = 0
    BY <1>5 DEF CheckStop, workerVars, ring, Ready
  <2> QED  BY <2>1, <1>same, <1>i DEF OrderInv, ReadyPushed
<1>6. CASE ProbeReady
  <2>1. /\ UNCHANGED <<wpc, slot, seqDone, head, tail>>
        /\ Ready = nReady /\ Ready' = nReady + 1
        /\ seqDone[Cell(tail + nReady)] = tail + nReady + 1
    BY <1>6 DEF ProbeReady, CountReady, SeqSeen, workerVars, ring, Ready
  <2>2. Cell(tail + nReady) \in Cells  BY <1>t, CellRange
  <2>3. tail + nReady + 1 # 0 /\ (tail + nReady + 1) - 1 = tail + nReady
    BY <1>t
  <2>4. tail + nReady + 1 <= head /\ ~Filling(tail + nReady)
    BY <2>1, <2>2, <2>3, <1>i DEF StampsTrue
  <2>5. \A n \in 0 .. tail + (nReady + 1) - 1 :
          n \in 0 .. tail + nReady - 1 \/ n = tail + nReady
    BY <1>t
  <2>6. tail + (nReady + 1) <= head  BY <2>4, <1>t
  <2>7. \A n \in 0 .. tail + nReady - 1 : ~Filling(n)
    BY <2>1, <1>i DEF ReadyPushed
  <2>8. \A n \in 0 .. tail + (nReady + 1) - 1 : ~Filling(n)'
    BY <2>1, <2>4, <2>5, <2>7, <1>same
  <2>9. ReadyPushed'
    <3>1. tail' + Ready' = tail + (nReady + 1)  BY <2>1
    <3> QED  BY <3>1, <2>1, <2>6, <2>8 DEF ReadyPushed
  <2>10. ClaimsDistinct' /\ StampsTrue'  BY <2>1, <1>same
  <2> QED  BY <2>9, <2>10 DEF OrderInv
<1>7. CASE ProbeNotReady
  <2>1. /\ UNCHANGED <<wpc, slot, seqDone, head, tail>>
        /\ Ready = nReady /\ Ready' \in {0, nReady} /\ (Ready' = 0 => nReady = 0)
    BY <1>7 DEF ProbeNotReady, SeqSeen, workerVars, ring, Ready
  <2>2. Ready' = Ready  BY <2>1
  <2> QED  BY <2>1, <2>2, <1>same, <1>i DEF OrderInv, ReadyPushed
<1>8. CASE LoadCoords \/ LoadFeats \/ SetStop \/ UNCHANGED vars
  <2>1. UNCHANGED <<wpc, slot, seqDone, head, tail, kpc, nReady>>
    BY <1>8 DEF LoadCoords, LoadFeats, SetStop, vars, workerVars, kernelVars, ring
  <2> QED  BY <2>1, <1>same, <1>i DEF OrderInv, ReadyPushed, Ready
<1>9. CASE FinishBatch
  <2>1. /\ UNCHANGED <<wpc, slot, seqDone, head>>
        /\ Ready = nReady /\ Ready' = 0 /\ tail' = tail + nReady
    BY <1>9 DEF FinishBatch, workerVars, ring, Ready
  <2>2. tail' + Ready' = tail + Ready  BY <2>1, <1>t
  <2>3. ReadyPushed'
    <3>1. tail + Ready <= head /\ \A n \in 0 .. tail + Ready - 1 : ~Filling(n)
      BY <1>i DEF ReadyPushed
    <3>2. \A n \in 0 .. tail + Ready - 1 : ~Filling(n)'
      BY <3>1, <2>1, <1>same
    <3>3. tail' + Ready' <= head' /\ \A n \in 0 .. tail' + Ready' - 1 : ~Filling(n)'
      BY <3>1, <3>2, <2>1, <2>2, <1>t
    <3> QED  BY <3>3 DEF ReadyPushed
  <2>4. ClaimsDistinct' /\ StampsTrue'  BY <2>1, <1>same
  <2> QED  BY <2>3, <2>4 DEF OrderInv
<1> QED  BY <1>1, <1>2, <1>3, <1>4, <1>5, <1>6, <1>7, <1>8, <1>9
         DEF Next, Push, Fill, Kernel

LEMMA OrderInit == Init => OrderInv
BY ConstantTypes
DEF Init, OrderInv, ClaimsDistinct, StampsTrue, ReadyPushed, Filling, Ready

(* Under any load, also when the ring overruns: an unfinished slot number  *)
(* has one worker, and what the kernel counted ready was pushed.           *)
THEOREM OrderCorrect == Spec => [](TypeOK /\ OrderInv)
BY TypeInit, TypeInvariance, OrderInit, OrderInvariance, PTL DEF Spec

(* The lag the runner reports is never negative.                           *)
THEOREM LagTheorem == Spec => []LagNonNegative
<1>1. TypeOK /\ OrderInv => LagNonNegative
  BY KernelTypes DEF OrderInv, ReadyPushed, LagNonNegative
<1> QED  BY <1>1, OrderCorrect, PTL

(* Once a later lap has stamped the slot at the tail, the kernel never     *)
(* processes another event, whatever the workers go on to do.              *)
THEOREM StallTheorem == Spec => StallsForGood
<1>1. TypeOK /\ OrderInv /\ [Next]_vars => (Stuck => Stuck')
  <2> SUFFICES ASSUME TypeOK, OrderInv, [Next]_vars, Stuck PROVE Stuck'
    OBVIOUS
  <2>t. /\ head \in Nat /\ tail \in Nat /\ nReady \in Nat
        /\ Cell(tail) \in Cells /\ seqDone[Cell(tail)] \in Nat
    BY KernelTypes, CellRange DEF TypeOK
  <2>s. /\ kpc # "load" /\ Ready = 0 /\ seqDone[Cell(tail)] > tail + 1
        /\ \A w \in Worker :
             wpc[w] = "fill" /\ Cell(slot[w]) = Cell(tail) => slot[w] > tail
    BY DEF Stuck
  <2>h. head > tail
    <3>1. seqDone[Cell(tail)] <= head
      BY <2>s, <2>t DEF OrderInv, StampsTrue
    <3> QED  BY <3>1, <2>s, <2>t
  <2>1. ASSUME NEW w \in Worker, Claim(w) PROVE Stuck'
    <3>1. /\ UNCHANGED <<seqDone, tail, kpc, nReady>>
          /\ \A v \in Worker : wpc'[v] = "fill" =>
               slot'[v] = head \/ (wpc[v] = "fill" /\ slot'[v] = slot[v])
      BY <2>1 DEF Claim, ring, kernelVars, TypeOK
    <3>2. \A v \in Worker :
            wpc'[v] = "fill" /\ Cell(slot'[v]) = Cell(tail) => slot'[v] > tail
      BY <3>1, <2>s, <2>h
    <3> QED  BY <3>1, <3>2, <2>s DEF Stuck, Ready
  <2>2. ASSUME NEW w \in Worker, PublishSeq(w) PROVE Stuck'
    <3>1. /\ wpc[w] = "fill"
          /\ seqDone' = [seqDone EXCEPT ![Cell(slot[w])] = slot[w] + 1]
          /\ UNCHANGED <<slot, tail, kpc, nReady>>
          /\ \A v \in Worker : wpc'[v] = "fill" => wpc[v] = "fill"
      BY <2>2 DEF PublishSeq, Stamp, kernelVars, TypeOK
    <3>2. seqDone'[Cell(tail)] > tail + 1
      <4>1. slot[w] \in Nat /\ seqDone \in [Cells -> Nat]  BY SlotTypes DEF TypeOK
      <4>2. CASE Cell(slot[w]) = Cell(tail)
        <5>1. slot[w] > tail /\ seqDone'[Cell(tail)] = slot[w] + 1
          BY <4>1, <4>2, <3>1, <2>s, <2>t
        <5> QED  BY <5>1, <4>1, <2>t
      <4>3. CASE Cell(slot[w]) # Cell(tail)
        BY <4>1, <4>3, <3>1, <2>s, <2>t
      <4> QED  BY <4>2, <4>3
    <3> QED  BY <3>1, <3>2, <2>s DEF Stuck, Ready
  <2>3. ASSUME NEW w \in Worker, WriteCoords(w) \/ WriteFeats(w) \/ CountPush(w)
        PROVE  Stuck'
    <3>1. /\ UNCHANGED <<seqDone, slot, tail, kpc, nReady>>
          /\ \A v \in Worker : wpc'[v] = "fill" => wpc[v] = "fill"
      BY <2>3 DEF WriteCoords, WriteFeats, CountPush, ring, kernelVars, TypeOK
    <3> QED  BY <3>1, <2>s DEF Stuck, Ready
  <2>4. CASE CheckStop \/ ProbeNotReady \/ SetStop \/ UNCHANGED vars
    <3>1. UNCHANGED <<seqDone, slot, wpc, tail>> /\ kpc' # "load" /\ Ready' = 0
      BY <2>4, <2>s DEF CheckStop, ProbeNotReady, SetStop, vars, ring, workerVars,
                        kernelVars, Ready
    <3> QED  BY <3>1, <2>s DEF Stuck
  <2>5. ~ProbeReady
    <3>1. kpc = "probe" => nReady = 0 /\ tail + nReady = tail
      BY <2>s, <2>t DEF Ready
    <3>2. seqDone[Cell(tail)] # tail + 1  BY <2>s, <2>t
    <3> QED  BY <3>1, <3>2, <2>t DEF ProbeReady, CountReady, SeqSeen
  <2>6. ~LoadCoords /\ ~LoadFeats /\ ~FinishBatch
    BY <2>s DEF LoadCoords, LoadFeats, FinishBatch
  <2> QED  BY <2>1, <2>2, <2>3, <2>4, <2>5, <2>6 DEF Next, Push, Fill, Kernel
<1> QED  BY <1>1, OrderCorrect, PTL DEF Spec, StallsForGood

-----------------------------------------------------------------------------
(* What holds while the ring has not overrun.                              *)

(* A slot number that is being filled lies between what the kernel has     *)
(* found ready and the head.                                               *)
LEMMA FillPlace ==
    ASSUME TypeOK, OrderInv, NEW w \in Worker, wpc[w] = "fill"
    PROVE  /\ slot[w] \in Nat /\ tail <= slot[w]
           /\ tail + Ready <= slot[w] /\ slot[w] < head
<1>1. slot[w] \in Nat /\ head \in Nat /\ tail \in Nat /\ Ready \in Nat
  BY SlotTypes, KernelTypes
<1>2. slot[w] < head  BY DEF OrderInv, ClaimsDistinct
<1>3. Filling(slot[w])  BY DEF Filling
<1>4. slot[w] \notin 0 .. tail + Ready - 1
  BY <1>3 DEF OrderInv, ReadyPushed
<1> QED  BY <1>1, <1>2, <1>4

(* So any other number between tail and head has another cell.             *)
LEMMA OtherCell ==
    ASSUME TypeOK, OrderInv, WithinRing, NEW w \in Worker, wpc[w] = "fill",
           NEW n \in Int, tail <= n, n < head, n # slot[w]
    PROVE  Cell(n) # Cell(slot[w])
<1>1. /\ slot[w] \in Nat /\ tail <= slot[w] /\ slot[w] < head
      /\ tail \in Nat /\ head \in Nat
  BY FillPlace, KernelTypes
<1>2. n \in Nat /\ head - tail <= Capacity /\ Capacity \in Nat
  BY <1>1, ConstantTypes DEF WithinRing
<1>3. CASE n < slot[w]
  <2>1. slot[w] - n < Capacity  BY <1>1, <1>2
  <2> QED  BY <1>1, <1>2, <1>3, <2>1, CellsDiffer
<1>4. CASE slot[w] < n
  <2>1. n - slot[w] < Capacity  BY <1>1, <1>2
  <2> QED  BY <1>1, <1>2, <1>4, <2>1, CellsDiffer
<1> QED  BY <1>1, <1>2, <1>3, <1>4

Held == WithinRing /\ WrittenSoFar /\ PileInRing /\ CopiedSoFar

LEMMA ClaimHolds ==
    ASSUME TypeOK, OrderInv, Held, NEW w \in Worker, Claim(w), ~overrun'
    PROVE  Held'
<1>t. head \in Nat /\ tail \in Nat  BY KernelTypes
<1>1. /\ slot' = [slot EXCEPT ![w] = head] /\ head' = head + 1
      /\ todo' = [todo EXCEPT ![w] = Word] /\ wpc' = [wpc EXCEPT ![w] = "fill"]
      /\ UNCHANGED <<ringCoord, ringFeat, seqDone, tail, kpc, nReady, coords, feats>>
      /\ ~(head' - tail > Capacity)
  BY DEF Claim, ring, kernelVars
<1>2. WithinRing'  BY <1>1, <1>t, ConstantTypes DEF WithinRing
<1>3. WrittenSoFar'
  <2>1. todo'[w] = Word /\ \A v \in Worker : v # w =>
          todo'[v] = todo[v] /\ slot'[v] = slot[v] /\ wpc'[v] = wpc[v]
    BY <1>1 DEF TypeOK
  <2> QED  BY <2>1, <1>1 DEF WrittenSoFar, Held, Word
<1>4. PileInRing'
  <2>1. \A n : n # head => (Filling(n)' <=> Filling(n))
    BY ClaimFilling
  <2>2. \A n \in tail .. head' - 1 : n = head \/ n \in tail .. head - 1
    BY <1>1, <1>t
  <2>3. \A n : n = head => Filling(n)'
    BY <1>1 DEF Filling, TypeOK
  <2>4. \A n \in tail .. head' - 1 : ~Filling(n)' => InPlace(n)
    BY <2>1, <2>2, <2>3 DEF Held, PileInRing
  <2> QED  BY <2>4, <1>1 DEF PileInRing, InPlace
<1>5. CopiedSoFar'  BY <1>1 DEF CopiedSoFar, Ready, Held
<1> QED  BY <1>2, <1>3, <1>4, <1>5 DEF Held

LEMMA WriteHolds ==
    ASSUME TypeOK, OrderInv, Held, NEW w \in Worker,
           WriteCoords(w) \/ WriteFeats(w)
    PROVE  Held'
<1> DEFINE c == Cell(slot[w])
<1>1. /\ wpc[w] = "fill"
      /\ UNCHANGED <<seqDone, head, wpc, slot, tail, kpc, nReady, coords, feats>>
      /\ \A v \in Worker : v # w => todo'[v] = todo[v]
  BY DEF WriteCoords, WriteFeats, kernelVars, TypeOK
<1>2. c \in Cells  BY SlotTypes
<1>3. /\ \A d \in Cells : d # c => ringCoord'[d] = ringCoord[d] /\ ringFeat'[d] = ringFeat[d]
      /\ "coord" \notin todo'[w] => ringCoord'[c] = slot[w] + 1
      /\ "feat" \notin todo'[w] => ringFeat'[c] = slot[w] + 1
  <2>1. CASE WriteCoords(w)
    BY <2>1, <1>1, <1>2 DEF WriteCoords, TypeOK, Held, WrittenSoFar
  <2>2. CASE WriteFeats(w)
    BY <2>2, <1>1, <1>2 DEF WriteFeats, TypeOK, Held, WrittenSoFar
  <2> QED  BY <2>1, <2>2
<1>4. WithinRing' /\ CopiedSoFar'
  BY <1>1 DEF WithinRing, CopiedSoFar, Ready, Held
<1>5. WrittenSoFar'
  <2> SUFFICES ASSUME NEW v \in Worker, wpc[v] = "fill"
               PROVE  /\ "coord" \notin todo'[v] => ringCoord'[Cell(slot[v])] = slot[v] + 1
                      /\ "feat" \notin todo'[v] => ringFeat'[Cell(slot[v])] = slot[v] + 1
    BY <1>1 DEF WrittenSoFar
  <2>1. CASE v = w  BY <2>1, <1>3
  <2>2. CASE v # w
    <3>1. slot[v] # slot[w]  BY <2>2, <1>1 DEF OrderInv, ClaimsDistinct
    <3>2. slot[v] \in Int /\ tail <= slot[v] /\ slot[v] < head
      BY FillPlace
    <3>3. Cell(slot[v]) # c  BY <3>1, <3>2, <1>1, OtherCell DEF Held
    <3>4. Cell(slot[v]) \in Cells  BY SlotTypes
    <3> QED  BY <3>3, <3>4, <2>2, <1>1, <1>3 DEF Held, WrittenSoFar
  <2> QED  BY <2>1, <2>2
<1>6. PileInRing'
  <2> SUFFICES ASSUME NEW n \in tail .. head - 1, ~Filling(n)
               PROVE  InPlace(n)'
    BY <1>1 DEF PileInRing, Filling
  <2>1. n # slot[w]  BY <1>1 DEF Filling
  <2>2. n \in Nat /\ n \in Int /\ tail <= n /\ n < head  BY KernelTypes
  <2>3. Cell(n) # c  BY <2>1, <2>2, <1>1, OtherCell DEF Held
  <2>4. Cell(n) \in Cells  BY <2>2, CellRange
  <2>5. InPlace(n)  BY DEF Held, PileInRing
  <2> QED  BY <2>3, <2>4, <2>5, <1>1, <1>3 DEF InPlace
<1> QED  BY <1>4, <1>5, <1>6 DEF Held

LEMMA PublishHolds ==
    ASSUME TypeOK, OrderInv, Held, NEW w \in Worker, PublishSeq(w)
    PROVE  Held'
<1>1. /\ wpc[w] = "fill" /\ todo[w] = {} /\ wpc' = [wpc EXCEPT ![w] = "count"]
      /\ seqDone' = [seqDone EXCEPT ![Cell(slot[w])] = slot[w] + 1]
      /\ UNCHANGED <<ringCoord, ringFeat, head, slot, todo, tail, kpc, nReady,
                     coords, feats>>
  BY DEF PublishSeq, Stamp, kernelVars
<1>2. Cell(slot[w]) \in Cells  BY SlotTypes
<1>3. WithinRing' /\ CopiedSoFar'
  BY <1>1 DEF WithinRing, CopiedSoFar, Ready, Held
<1>4. WrittenSoFar'
  BY <1>1 DEF WrittenSoFar, Held, TypeOK
<1>5. PileInRing'
  <2> SUFFICES ASSUME NEW n \in tail .. head - 1, ~Filling(n)'
               PROVE  InPlace(n)'
    BY <1>1 DEF PileInRing
  <2>1. n \in Nat /\ n \in Int /\ tail <= n /\ n < head  BY KernelTypes
  <2>2. Cell(n) \in Cells  BY <2>1, CellRange
  <2>3. CASE n = slot[w]
    <3>1. ringCoord[Cell(n)] = n + 1 /\ ringFeat[Cell(n)] = n + 1
      BY <2>3, <1>1 DEF Held, WrittenSoFar
    <3>2. seqDone'[Cell(n)] = n + 1  BY <2>3, <1>1, <1>2 DEF TypeOK
    <3> QED  BY <3>1, <3>2, <1>1 DEF InPlace
  <2>4. CASE n # slot[w]
    <3>1. ~Filling(n)  BY <2>4, PublishFilling DEF OrderInv
    <3>2. InPlace(n)  BY <3>1 DEF Held, PileInRing
    <3>3. Cell(n) # Cell(slot[w])  BY <2>1, <2>4, <1>1, OtherCell DEF Held
    <3> QED  BY <3>2, <3>3, <2>2, <1>1 DEF InPlace, TypeOK
  <2> QED  BY <2>3, <2>4
<1> QED  BY <1>3, <1>4, <1>5 DEF Held

(* What the kernel copies from a slot it found ready is what was written.  *)
LEMMA LoadHolds ==
    ASSUME TypeOK, OrderInv, Held, LoadCoords \/ LoadFeats
    PROVE  Held'
<1>t. head \in Nat /\ tail \in Nat /\ Ready \in Nat
      /\ Len(coords) \in Nat /\ Len(feats) \in Nat
  BY KernelTypes
<1>1. /\ kpc = "load" /\ Ready = nReady /\ Ready' = Ready
      /\ UNCHANGED <<ring, head, wpc, slot, todo, tail>>
  BY DEF LoadCoords, LoadFeats, workerVars, Ready
<1>2. ASSUME NEW k \in Nat, k < Ready
      PROVE  ringCoord[Cell(tail + k)] = tail + (k + 1)
             /\ ringFeat[Cell(tail + k)] = tail + (k + 1)
  <2>1. tail + Ready <= head /\ ~Filling(tail + k)
    <3>1. tail + k \in 0 .. tail + Ready - 1  BY <1>2, <1>t
    <3> QED  BY <3>1 DEF OrderInv, ReadyPushed
  <2>2. tail + k \in tail .. head - 1  BY <2>1, <1>2, <1>t
  <2>3. InPlace(tail + k)  BY <2>1, <2>2 DEF Held, PileInRing
  <2> QED  BY <2>3, <1>t DEF InPlace
<1>3. WithinRing' /\ WrittenSoFar' /\ PileInRing'
  BY <1>1 DEF Held, WithinRing, WrittenSoFar, PileInRing, InPlace, Filling, ring
<1>c. /\ Len(coords) <= Ready /\ Len(feats) <= Ready
      /\ \A e \in 1 .. Len(coords) : coords[e] = tail + e
      /\ \A e \in 1 .. Len(feats) : feats[e] = tail + e
  BY DEF Held, CopiedSoFar
<1>a. ASSUME NEW s \in Seq(Nat), NEW v \in Nat, Len(s) < Ready, v = tail + (Len(s) + 1),
             \A e \in 1 .. Len(s) : s[e] = tail + e
      PROVE  /\ Len(Append(s, v)) <= Ready
             /\ \A e \in 1 .. Len(Append(s, v)) : Append(s, v)[e] = tail + e
  <2>1. /\ Len(s) \in Nat /\ Len(Append(s, v)) = Len(s) + 1
        /\ \A e \in 1 .. Len(s) : Append(s, v)[e] = s[e]
        /\ Append(s, v)[Len(s) + 1] = v
    BY LenProperties, AppendProperties
  <2>2. \A e \in 1 .. Len(s) + 1 : e \in 1 .. Len(s) \/ e = Len(s) + 1
    BY <2>1
  <2>3. Len(s) + 1 <= Ready  BY <2>1, <1>a, <1>t
  <2> QED  BY <2>1, <2>2, <2>3, <1>a
<1>4. CASE LoadCoords
  <2> DEFINE v == ringCoord[Cell(tail + Len(coords))]
  <2>1. Len(coords) < Ready /\ coords' = Append(coords, v) /\ feats' = feats
    BY <1>4, <1>1 DEF LoadCoords
  <2>2. v = tail + (Len(coords) + 1)  BY <2>1, <1>2, <1>t
  <2>3. v \in Nat /\ coords \in Seq(Nat)  BY <2>2, <1>t DEF TypeOK
  <2>4. /\ Len(coords') <= Ready
        /\ \A e \in 1 .. Len(coords') : coords'[e] = tail + e
    BY <2>1, <2>2, <2>3, <1>a, <1>c
  <2> QED  BY <2>1, <2>4, <1>1, <1>3, <1>c DEF Held, CopiedSoFar
<1>5. CASE LoadFeats
  <2> DEFINE v == ringFeat[Cell(tail + Len(feats))]
  <2>1. Len(feats) < Ready /\ feats' = Append(feats, v) /\ coords' = coords
    BY <1>5, <1>1 DEF LoadFeats
  <2>2. v = tail + (Len(feats) + 1)  BY <2>1, <1>2, <1>t
  <2>3. v \in Nat /\ feats \in Seq(Nat)  BY <2>2, <1>t DEF TypeOK
  <2>4. /\ Len(feats') <= Ready
        /\ \A e \in 1 .. Len(feats') : feats'[e] = tail + e
    BY <2>1, <2>2, <2>3, <1>a, <1>c
  <2> QED  BY <2>1, <2>4, <1>1, <1>3, <1>c DEF Held, CopiedSoFar
<1> QED  BY <1>4, <1>5

LEMMA FinishHolds ==
    ASSUME TypeOK, OrderInv, Held, FinishBatch
    PROVE  Held'
<1>t. head \in Nat /\ tail \in Nat /\ nReady \in Nat  BY KernelTypes
<1>1. /\ tail' = tail + nReady /\ Ready' = 0 /\ coords' = << >> /\ feats' = << >>
      /\ UNCHANGED <<ring, head, wpc, slot, todo>>
  BY DEF FinishBatch, workerVars, Ready
<1>2. WithinRing'  BY <1>1, <1>t, ConstantTypes DEF Held, WithinRing
<1>3. WrittenSoFar'  BY <1>1 DEF Held, WrittenSoFar, ring
<1>4. PileInRing'
  <2>1. \A n \in tail' .. head - 1 : n \in tail .. head - 1  BY <1>1, <1>t
  <2> QED  BY <2>1, <1>1 DEF Held, PileInRing, InPlace, Filling, ring
<1>5. CopiedSoFar'
  <2>1. Len(coords') = 0 /\ Len(feats') = 0  BY <1>1
  <2>2. 1 .. 0 = {}  OBVIOUS
  <2> QED  BY <2>1, <2>2, <1>1 DEF CopiedSoFar
<1> QED  BY <1>2, <1>3, <1>4, <1>5 DEF Held

LEMMA DataInvariance ==
    TypeOK /\ OrderInv /\ DataInv /\ [Next]_vars => DataInv'
<1> SUFFICES ASSUME TypeOK, OrderInv, DataInv, [Next]_vars, ~overrun' PROVE Held'
  BY DEF DataInv, Held
<1>1. ~overrun
  BY DEF Next, Push, Fill, Kernel, Claim, WriteCoords, WriteFeats, PublishSeq, Stamp,
         CountPush, CheckStop, ProbeReady, CountReady, ProbeNotReady, LoadCoords, LoadFeats,
         FinishBatch, SetStop, vars, workerVars
<1>2. Held  BY <1>1 DEF DataInv, Held
<1>t. nReady \in Nat /\ Len(coords) \in Nat /\ Len(feats) \in Nat
  BY KernelTypes
<1>3. ASSUME NEW w \in Worker, CountPush(w) PROVE Held'
  <2>1. /\ UNCHANGED <<ring, head, slot, todo, tail, kpc, nReady, coords, feats>>
        /\ \A v \in Worker : wpc'[v] = "fill" <=> wpc[v] = "fill"
    BY <1>3 DEF CountPush, kernelVars, TypeOK
  <2> QED  BY <2>1, <1>2
           DEF Held, WithinRing, WrittenSoFar, PileInRing, CopiedSoFar, InPlace,
               Filling, Ready, ring
<1>4. CASE CheckStop \/ ProbeReady \/ ProbeNotReady \/ SetStop \/ UNCHANGED vars
  <2>1. UNCHANGED <<ring, head, wpc, slot, todo, tail, coords, feats>>
    BY <1>4 DEF CheckStop, ProbeReady, CountReady, ProbeNotReady, SetStop, vars, workerVars,
                kernelVars
  <2>2. Ready' >= Ready
    BY <1>4, <1>t DEF CheckStop, ProbeReady, CountReady, ProbeNotReady, SetStop, vars,
                      kernelVars, Ready
  <2>3. Ready \in Nat /\ Ready' \in Nat
    BY <1>4, <1>t DEF CheckStop, ProbeReady, CountReady, ProbeNotReady, SetStop, vars,
                      kernelVars, Ready
  <2>4. CopiedSoFar'
    BY <2>1, <2>2, <2>3, <1>2, <1>t DEF Held, CopiedSoFar
  <2> QED  BY <2>1, <2>4, <1>2
           DEF Held, WithinRing, WrittenSoFar, PileInRing, InPlace, Filling, ring
<1> QED  BY <1>1, <1>2, <1>3, <1>4, ClaimHolds, WriteHolds, PublishHolds,
            LoadHolds, FinishHolds
         DEF Next, Push, Fill, Kernel

(* The batch that is finished extends what was processed.                  *)
LEMMA DeliveryInvariance ==
    TypeOK /\ OrderInv /\ DataInv /\ IntactDelivery /\ [Next]_vars => IntactDelivery'
<1> SUFFICES ASSUME TypeOK, OrderInv, DataInv, IntactDelivery, [Next]_vars,
                    ~overrun'
             PROVE  consumed' = [n \in 1 .. tail' |-> Whole(n)]
  BY DEF IntactDelivery
<1>1. ~overrun
  BY DEF Next, Push, Fill, Kernel, Claim, WriteCoords, WriteFeats, PublishSeq, Stamp,
         CountPush, CheckStop, ProbeReady, CountReady, ProbeNotReady, LoadCoords, LoadFeats,
         FinishBatch, SetStop, vars, workerVars
<1>2. consumed = [n \in 1 .. tail |-> Whole(n)]
  BY <1>1 DEF IntactDelivery
<1>3. CASE FinishBatch
  <2> DEFINE done == [e \in 1 .. nReady |-> [coord |-> coords[e], feat |-> feats[e]]]
  <2>t. tail \in Nat /\ nReady \in Nat  BY KernelTypes
  <2>1. /\ Len(coords) = nReady /\ Len(feats) = nReady
        /\ consumed' = consumed \o done /\ tail' = tail + nReady
    BY <1>3 DEF FinishBatch
  <2> DEFINE Record == [coord : Nat, feat : Nat]
             all == [n \in 1 .. tail + nReady |-> Whole(n)]
  <2>2. \A e \in 1 .. nReady : done[e] = Whole(tail + e)
    BY <1>1, <2>1 DEF DataInv, CopiedSoFar, Whole
  <2>3. done \in Seq(Record) /\ Len(done) = nReady
    <3>1. \A e \in 1 .. nReady : coords[e] \in Nat /\ feats[e] \in Nat
      BY <2>1 DEF TypeOK
    <3> QED  BY <2>t, <3>1
  <2>4. all \in Seq(Record) /\ Len(all) = tail + nReady
    <3>1. \A n \in 1 .. tail + nReady : Whole(n) \in Record  BY <2>t DEF Whole
    <3> QED  BY <2>t, <3>1
  <2>5. consumed \in Seq(Record) /\ Len(consumed) = tail
    <3>1. consumed \in Seq(Record)  BY DEF TypeOK
    <3> QED  BY <3>1, <1>2, <2>t
  <2>6. \A i \in 1 .. tail + nReady : all[i] = Whole(i)  OBVIOUS
  <2> HIDE DEF done, all, Record
  <2>7. /\ consumed \o done \in Seq(Record)
        /\ Len(consumed \o done) = tail + nReady
        /\ \A i \in 1 .. tail + nReady :
             (consumed \o done)[i] = IF i <= tail THEN consumed[i] ELSE done[i - tail]
    BY <2>3, <2>5, <2>t, ConcatProperties
  <2>8. \A i \in 1 .. tail + nReady : (consumed \o done)[i] = all[i]
    <3> SUFFICES ASSUME NEW i \in 1 .. tail + nReady
                 PROVE  (consumed \o done)[i] = Whole(i)
      BY <2>6
    <3>1. CASE i <= tail
      <4>1. i \in 1 .. tail  BY <3>1, <2>t
      <4> QED  BY <4>1, <3>1, <2>7, <1>2
    <3>2. CASE ~(i <= tail)
      <4>1. i - tail \in 1 .. nReady /\ tail + (i - tail) = i  BY <3>2, <2>t
      <4> QED  BY <4>1, <3>2, <2>2, <2>7
    <3> QED  BY <3>1, <3>2
  <2>9. consumed \o done = all
    BY <2>4, <2>7, <2>8, SeqEqual
  <2> QED  BY <2>1, <2>9 DEF all
<1>4. CASE ~FinishBatch
  <2>1. UNCHANGED <<consumed, tail>>
    BY <1>4 DEF Next, Push, Fill, Kernel, Claim, WriteCoords, WriteFeats,
         PublishSeq, Stamp, CountPush, CheckStop, ProbeReady, CountReady, ProbeNotReady, LoadCoords,
         LoadFeats, SetStop, vars, kernelVars
  <2> QED  BY <2>1, <1>2
<1> QED  BY <1>3, <1>4

LEMMA DataInit == Init => DataInv /\ IntactDelivery
<1> SUFFICES ASSUME Init PROVE DataInv /\ IntactDelivery  OBVIOUS
<1>1. WithinRing  BY ConstantTypes DEF Init, WithinRing
<1>2. WrittenSoFar  BY DEF Init, WrittenSoFar
<1>3. PileInRing  BY DEF Init, PileInRing
<1>4. CopiedSoFar
  <2>1. Len(coords) = 0 /\ Len(feats) = 0 /\ Ready = 0  BY DEF Init, Ready
  <2>2. 1 .. 0 = {}  OBVIOUS
  <2> QED  BY <2>1, <2>2 DEF CopiedSoFar
<1>5. IntactDelivery
  <2>1. tail = 0 /\ consumed = << >>  BY DEF Init
  <2>2. 1 .. 0 = {}  OBVIOUS
  <2>3. [n \in 1 .. 0 |-> Whole(n)] = << >>  BY <2>2
  <2> QED  BY <2>1, <2>3 DEF IntactDelivery
<1> QED  BY <1>1, <1>2, <1>3, <1>4, <1>5 DEF DataInv

(* The inductive invariant, from which the two theorems below follow.      *)
THEOREM Inductive == Spec => []IndInv
<1>1. Init => IndInv
  BY TypeInit, OrderInit, DataInit DEF IndInv
<1>2. IndInv /\ [Next]_vars => IndInv'
  BY TypeInvariance, OrderInvariance, DataInvariance, DeliveryInvariance
  DEF IndInv
<1> QED  BY <1>1, <1>2, PTL DEF Spec

(* Until the ring overruns, every event is processed exactly once, whole,  *)
(* in the order the slots were claimed.                                    *)
THEOREM Delivered == Spec => []IntactDelivery
<1>1. IndInv => IntactDelivery  BY DEF IndInv
<1> QED  BY <1>1, Inductive, PTL

(* Until the ring overruns, no worker writes into the batch being copied.  *)
THEOREM Undisturbed == Spec => []BatchUndisturbed
<1>1. IndInv => BatchUndisturbed
  <2> SUFFICES ASSUME IndInv, ~overrun, kpc = "load", NEW w \in Worker,
                      NEW n \in tail .. tail + nReady - 1, wpc[w] = "fill"
               PROVE  Cell(slot[w]) # Cell(n)
    BY DEF BatchUndisturbed
  <2>1. TypeOK /\ OrderInv /\ WithinRing  BY DEF IndInv, DataInv
  <2>2. Ready = nReady  BY DEF Ready
  <2>3. head \in Nat /\ tail \in Nat /\ nReady \in Nat  BY <2>1, KernelTypes
  <2>4. slot[w] \in Nat /\ tail + nReady <= slot[w] /\ slot[w] < head
    BY <2>1, <2>2, FillPlace
  <2>5. n \in Int /\ tail <= n /\ n < head /\ n # slot[w]  BY <2>3, <2>4
  <2> QED  BY <2>1, <2>5, OtherCell
<1> QED  BY <1>1, Inductive, PTL

-----------------------------------------------------------------------------
(* The abstract ticket queue.                                              *)

(* A push takes a ticket at the fetch_add and closes it at the release     *)
(* store, a batch serves tickets that are closed, and no other step of a   *)
(* worker or of the kernel is visible: whatever the load.                  *)
THEOREM Refinement == Spec => TicketSpec
<1> DEFINE Open == {slot[w] : w \in {v \in Worker : wpc[v] = "fill"}}
<1>1. Init => Tickets!TicketInit
  BY DEF Init, Tickets!TicketInit
<1>2. TypeOK /\ OrderInv /\ [Next]_vars => [Tickets!TicketNext]_(Tickets!ticketVars)
  <2> SUFFICES ASSUME TypeOK, OrderInv, [Next]_vars
               PROVE  Tickets!TicketNext \/ UNCHANGED <<head, tail, Open>>
    BY DEF Tickets!ticketVars
  <2>o. \A n : n \in Open <=> Filling(n)  BY DEF Filling
  <2>p. \A n : n \in Open' <=> Filling(n)'  BY DEF Filling
  <2>1. ASSUME NEW w \in Worker, Claim(w) PROVE Tickets!Take
    <3>1. \A n : n # head => (Filling(n)' <=> Filling(n))
      BY <2>1, ClaimFilling
    <3>2. /\ head' = head + 1 /\ tail' = tail
          /\ \A n : n = head => Filling(n)'
      BY <2>1 DEF Claim, kernelVars, Filling, TypeOK
    <3>3. Open' = Open \cup {head}
      <4> HIDE DEF Open
      <4> QED  BY <3>1, <3>2, <2>o, <2>p
    <3> QED  BY <3>2, <3>3 DEF Tickets!Take
  <2>2. ASSUME NEW w \in Worker, PublishSeq(w) PROVE Tickets!Close
    <3>1. /\ \A n : n = slot[w] => ~Filling(n)' /\ Filling(n)
          /\ \A n : n # slot[w] => (Filling(n)' <=> Filling(n))
      <4>1. wpc[w] = "fill"  BY <2>2 DEF PublishSeq, Stamp
      <4> QED  BY <4>1, <2>2, PublishFilling DEF OrderInv, Filling
    <3>2. head' = head /\ tail' = tail  BY <2>2 DEF PublishSeq, Stamp, kernelVars
    <3>3. slot[w] \in Open /\ Open' = Open \ {slot[w]}
      <4> HIDE DEF Open
      <4> QED  BY <3>1, <2>o, <2>p
    <3> QED  BY <3>2, <3>3 DEF Tickets!Close
  <2>3. CASE FinishBatch
    <3>t. head \in Nat /\ tail \in Nat /\ nReady \in 0 .. Batch /\ Batch \in Nat
      BY KernelTypes, ConstantTypes DEF TypeOK
    <3>1. /\ tail' = tail + nReady /\ Ready = nReady
          /\ UNCHANGED <<head, wpc, slot>>
      BY <2>3 DEF FinishBatch, workerVars, Ready
    <3>2. Open' = Open  BY <3>1
    <3>3. CASE nReady = 0
      BY <3>1, <3>2, <3>3, <3>t
    <3>4. CASE nReady # 0
      <4>1. nReady \in 1 .. Batch  BY <3>4, <3>t
      <4>2. tail + nReady <= head /\ \A n \in 0 .. tail + nReady - 1 : ~Filling(n)
        BY <3>1 DEF OrderInv, ReadyPushed
      <4>3. \A n \in tail .. tail + nReady - 1 : n \notin Open
        <5>1. \A n \in tail .. tail + nReady - 1 : n \in 0 .. tail + nReady - 1
          BY <3>t
        <5> QED  BY <5>1, <4>2, <2>o
      <4> QED  BY <4>1, <4>2, <4>3, <3>1, <3>2
               DEF Tickets!Serve, Tickets!TicketNext
    <3> QED  BY <3>3, <3>4
  <2>4. ASSUME NEW w \in Worker, WriteCoords(w) \/ WriteFeats(w)
        PROVE  UNCHANGED <<head, tail, wpc, slot>>
    BY <2>4 DEF WriteCoords, WriteFeats, kernelVars
  <2>5. ASSUME NEW w \in Worker, CountPush(w)
        PROVE  UNCHANGED <<head, tail, Open>>
    <3>1. /\ UNCHANGED <<head, tail, slot>>
          /\ \A v \in Worker : wpc'[v] = "fill" <=> wpc[v] = "fill"
      BY <2>5 DEF CountPush, kernelVars, TypeOK
    <3> QED  BY <3>1
  <2>6. CASE \/ CheckStop \/ ProbeReady \/ ProbeNotReady \/ LoadCoords \/ LoadFeats
             \/ SetStop \/ UNCHANGED vars
    <3>1. UNCHANGED <<head, tail, wpc, slot>>
      BY <2>6 DEF CheckStop, ProbeReady, CountReady, ProbeNotReady, LoadCoords, LoadFeats,
                  SetStop, vars, workerVars, kernelVars
    <3> QED  BY <3>1
  <2> QED  BY <2>1, <2>2, <2>3, <2>4, <2>5, <2>6
           DEF Tickets!TicketNext, Next, Push, Fill, Kernel
<1> QED  BY <1>1, <1>2, OrderCorrect, PTL DEF Spec, TicketSpec, Tickets!TicketSpec
=============================================================================

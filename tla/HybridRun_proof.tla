-------------------------- MODULE HybridRun_proof --------------------------
(***************************************************************************)
(* The invariants of HybridRun, for every number of columns and shards,    *)
(* every halo and ring, and every set of programs.                         *)
(***************************************************************************)
EXTENDS HybridRun, InductionFacts, TLAPS, SequenceTheorems, FiniteSetTheorems

-----------------------------------------------------------------------------
(* The inductive invariant.                                                *)

MainNames == {"launch", "init", "reset", "start", "loop", "row", "stopSynth", "join", "final",
              "flag", "synchronize", "eof", "freed", "done"}
SourceNames == {"off", "poll", "waiting", "submit", "exited"}
Setup == {"launch", "init", "reset", "start"}
Ending == {"eof", "freed", "done"}
Joined == {"final", "flag", "synchronize"} \cup Ending
InALoop == {"reset", "row", "final", "eof"}

\* Who is where: the source runs from start to its join, the caller only in the loop.
Control ==
    /\ program \in Programs
    /\ main \in MainNames /\ source \in SourceNames
    /\ at \in Nat /\ (main \notin InALoop => at = 0) /\ (main = "eof" => at <= N)
    /\ handle = "freed" <=> main = "freed"
    /\ source = "off" <=> main \in Setup
    /\ Source = "caller" =>
          /\ source # "exited" /\ kernel = "off"
          /\ source \in {"waiting", "submit"} => main = "loop"
          /\ main \notin {"stopSynth", "join", "flag", "synchronize"}
    /\ Source # "caller" /\ main \in Joined => timedOut \/ source = "exited"
    /\ kernel = "exited" => stopFlag
    /\ stopFlag => signalled \/ main = "synchronize" \/ main \in Ending

\* What the source has in hand.
Distinct(s) == \A i, j \in 1 .. Len(s) : s[i] = s[j] => i = j
Submitting ==
    /\ batch \in Seq(Column \cup {Width}) /\ to \in Seq(Shard)
    /\ accepted \in Nat /\ eventsIn \in Nat /\ nOob \in Nat /\ refused \in Nat
    /\ admitted \in [Column -> Nat]
    /\ to # << >> => batch # << >> /\ Head(batch) \in Column
    /\ Distinct(to)
    /\ source # "submit" => batch = << >> /\ to = << >> /\ accepted = 0

\* An end marker is the last entry of its ring, and a worker that has returned left none.
Has(s, x) == \E i \in 1 .. Len(s) : s[i] = x
EofLast(s) == \A i \in 1 .. Len(s) : s[i] = Eof => i = Len(s)
Entries == [column : Column, owner : BOOLEAN]
Rings ==
    /\ queue \in [Shard -> Seq(Entries \cup {Eof})]
    /\ returned \in SUBSET Shard
    /\ main \in Setup => queue = [k \in Shard |-> << >>]
    /\ \A k \in Shard : EofLast(queue[k])
    /\ \A k \in Shard : Has(queue[k], Eof) => main \in Ending /\ (main = "eof" => k < at)
    /\ \A k \in returned : /\ queue[k] = << >>
                           /\ main \in {"launch", "init"} \cup Ending
                           /\ main = "eof" => k < at
    /\ main \in {"freed", "done"} => returned = Shard

-----------------------------------------------------------------------------
(* Control.                                                                *)

LEMMA Kinds ==
    ASSUME program \in Programs
    PROVE  /\ Runner \in {"bench0", "bench01", "two", "multi"}
           /\ Source \in {"caller", "reader", "synth"}
           /\ Source = "caller" <=> Runner \in {"bench0", "bench01"}
           /\ OnGpu <=> Source # "caller"
<1>1. /\ program \in [runner : {"bench0", "bench01", "two", "multi"},
                      source : {"caller", "reader", "synth"}]
      /\ program.source = "caller" <=> program.runner \in {"bench0", "bench01"}
  BY RunAssumption
<1>2. /\ program.runner \in {"bench0", "bench01", "two", "multi"}
      /\ program.source \in {"caller", "reader", "synth"}
  BY <1>1
<1> QED  BY <1>1, <1>2 DEF Runner, Source, OnGpu

LEMMA Sizes ==
    /\ Width \in Nat \ {0} /\ N \in Nat \ {0} /\ Halo \in Nat /\ QueueCap \in Nat \ {0}
    /\ BatchSize \in Nat /\ MaxEvents \in Nat
BY RunAssumption

LEMMA ControlInit == Init => Control
BY Kinds DEF Init, Control, MainNames, SourceNames, InALoop, Setup, Joined, Ending

(* The flat list of the steps.                                             *)
SourceStep ==
    Poll \/ NoBatch \/ (\E events \in Batches : Submit(events))
    \/ SourceExit \/ TakeEvent \/ PushNext \/ SubmitReturns
WorkerStep ==
    (\E k \in Shard : \E pass0, pass1 \in BOOLEAN : Handle(k, pass0, pass1))
    \/ (\E k \in Shard : TakeEof(k))
RunningStep == Running /\ (MainStep \/ Signal \/ SourceStep \/ WorkerStep \/ KernelExit)

LEMMA Steps1 == [Next]_vars => RunningStep \/ UNCHANGED vars
BY DEF Next, RunningStep, SourceStep, WorkerStep, SourceRuns, Worker, Ended

LEMMA ControlStep ==
    ASSUME Control, [Next]_vars
    PROVE  Control'
<1> USE DEF MainNames, SourceNames, InALoop, Setup, Joined, Ending
<1>0. /\ Runner \in {"bench0", "bench01", "two", "multi"}
      /\ Source \in {"caller", "reader", "synth"}
      /\ Source = "caller" <=> Runner \in {"bench0", "bench01"}
      /\ OnGpu <=> Source # "caller"
  BY Kinds DEF Control
<1>1. program' = program
  BY Steps1 DEF RunningStep, MainStep, SourceStep, WorkerStep, vars, Launch, InitLibrary,
     ResetShard, ResetDone, StartSource, PrintRow, Leave, Snapshot, SnapshotDone, StopSynth,
     Join, JoinTimesOut, SetStopFlag, Synchronize, PushEof, JoinWorkers, ShutdownReturns,
     Signal, Poll, NoBatch, Submit, SourceExit, TakeEvent, PushNext, SubmitReturns, Handle,
     TakeEof, KernelExit
<1>2. Source' = Source /\ Runner' = Runner
  BY <1>1 DEF Source, Runner
<1>3. ASSUME Launch PROVE Control'
  BY <1>0, <1>1, <1>2, <1>3 DEF Control, Launch, controlVars, sourceVars
<1>4. ASSUME InitLibrary PROVE Control'
  BY <1>0, <1>1, <1>2, <1>4 DEF Control, InitLibrary, controlVars, sourceVars
<1>5. ASSUME ResetShard PROVE Control'
  BY <1>0, <1>1, <1>2, <1>5 DEF Control, ResetShard, controlVars, sourceVars
<1>6. ASSUME ResetDone PROVE Control'
  BY <1>0, <1>1, <1>2, <1>6 DEF Control, ResetDone, controlVars, sourceVars
<1>7. ASSUME StartSource PROVE Control'
  BY <1>0, <1>1, <1>2, <1>7 DEF Control, StartSource, controlVars, sourceVars
<1>8. ASSUME PrintRow PROVE Control'
  BY <1>0, <1>1, <1>2, <1>8 DEF Control, PrintRow, MainFree, controlVars, sourceVars
<1>9. ASSUME Leave PROVE Control'
  BY <1>0, <1>1, <1>2, <1>9 DEF Control, Leave, MainFree, controlVars, sourceVars
<1>10. ASSUME Snapshot PROVE Control'
  BY <1>0, <1>1, <1>2, <1>10 DEF Control, Snapshot, controlVars, sourceVars
<1>11. ASSUME SnapshotDone PROVE Control'
  BY <1>0, <1>1, <1>2, <1>11, Sizes DEF Control, SnapshotDone, controlVars, sourceVars
<1>12. ASSUME StopSynth PROVE Control'
  BY <1>0, <1>1, <1>2, <1>12 DEF Control, StopSynth, controlVars, sourceVars
<1>13. ASSUME Join PROVE Control'
  BY <1>0, <1>1, <1>2, <1>13 DEF Control, Join, AfterSource, controlVars, sourceVars
<1>14. ASSUME JoinTimesOut PROVE Control'
  BY <1>0, <1>1, <1>2, <1>14 DEF Control, JoinTimesOut, AfterSource, controlVars, sourceVars
<1>15. ASSUME SetStopFlag PROVE Control'
  BY <1>0, <1>1, <1>2, <1>15 DEF Control, SetStopFlag, controlVars, sourceVars
<1>16. ASSUME Synchronize PROVE Control'
  BY <1>0, <1>1, <1>2, <1>16, Sizes DEF Control, Synchronize, controlVars, sourceVars
<1>17. ASSUME PushEof PROVE Control'
  BY <1>0, <1>1, <1>2, <1>17, Sizes DEF Control, PushEof, controlVars, sourceVars
<1>18. ASSUME JoinWorkers PROVE Control'
  BY <1>0, <1>1, <1>2, <1>18 DEF Control, JoinWorkers, controlVars, sourceVars
<1>19. ASSUME ShutdownReturns PROVE Control'
  BY <1>0, <1>1, <1>2, <1>19 DEF Control, ShutdownReturns, controlVars, sourceVars
<1>20. ASSUME Signal PROVE Control'
  BY <1>0, <1>1, <1>2, <1>20 DEF Control, Signal, controlVars, sourceVars
<1>21. ASSUME Poll PROVE Control'
  BY <1>0, <1>1, <1>2, <1>21 DEF Control, Poll, GoesOn, controlVars, sourceVars
<1>22. ASSUME NoBatch \/ SubmitReturns PROVE Control'
  BY <1>0, <1>1, <1>2, <1>22 DEF Control, NoBatch, SubmitReturns, controlVars
<1>23. ASSUME NEW events \in Batches, Submit(events) PROVE Control'
  BY <1>0, <1>1, <1>2, <1>23 DEF Control, Submit, controlVars
<1>24. ASSUME SourceExit PROVE Control'
  BY <1>0, <1>1, <1>2, <1>24 DEF Control, SourceExit, controlVars
<1>25. ASSUME TakeEvent \/ PushNext PROVE Control'
  BY <1>0, <1>1, <1>2, <1>25 DEF Control, TakeEvent, PushNext, controlVars
<1>26. ASSUME WorkerStep PROVE Control'
  BY <1>0, <1>1, <1>2, <1>26 DEF Control, WorkerStep, Handle, TakeEof, controlVars, sourceVars
<1>27. ASSUME KernelExit PROVE Control'
  BY <1>0, <1>1, <1>2, <1>27 DEF Control, KernelExit, controlVars, sourceVars
<1>28. ASSUME UNCHANGED vars PROVE Control'
  BY <1>0, <1>1, <1>2, <1>28 DEF Control, vars, controlVars, sourceVars
<1> QED
  BY Steps1, <1>3, <1>4, <1>5, <1>6, <1>7, <1>8, <1>9, <1>10, <1>11, <1>12, <1>13, <1>14,
     <1>15, <1>16, <1>17, <1>18, <1>19, <1>20, <1>21, <1>22, <1>23, <1>24, <1>25, <1>26,
     <1>27, <1>28 DEF RunningStep, MainStep, SourceStep

-----------------------------------------------------------------------------
(* The strips.                                                             *)

LEMMA StripWidth == StripW \in Nat \ {0} /\ Width <= N * StripW
<1> DEFINE a == Width + N - 1
<1>1. a \in Nat /\ Width = (a - N) + 1 /\ a >= N /\ N \in Nat \ {0}
  BY Sizes
<1> HIDE DEF a
<1> DEFINE q == a \div N
<1>2. q \in Nat /\ q * N <= a /\ a < (q + 1) * N
  BY <1>1, QuotientIs
<1> HIDE DEF q
<1>3. (q + 1) * N = q * N + N /\ q * N = N * q /\ q * N \in Int
  BY <1>1, <1>2
<1>4. q # 0
  <2> SUFFICES ASSUME q = 0 PROVE FALSE
    OBVIOUS
  <2>1. q * N = 0
    BY <1>1
  <2> QED  BY <1>1, <1>2, <1>3, <2>1
<1>5. a < N * q + N /\ Width <= N * q
  BY <1>1, <1>2, <1>3, Sizes
<1> QED  BY <1>2, <1>4, <1>5 DEF q, a, StripW

(* The owner of a column is the shard of its strip.                        *)
LEMMA OwnerIs ==
    ASSUME NEW x \in Column
    PROVE  /\ x \div StripW \in Shard /\ OwnerOf(x) = x \div StripW
           /\ (x \div StripW) * StripW <= x /\ x < (x \div StripW + 1) * StripW
<1>1. x \in Nat /\ x < Width
  BY Sizes DEF Column
<1> DEFINE q == x \div StripW
<1>2. q \in Nat /\ q * StripW <= x /\ x < (q + 1) * StripW
  BY <1>1, StripWidth, QuotientIs
<1> HIDE DEF q
<1>3. x < N * StripW /\ N \in Nat
  BY <1>1, StripWidth, Sizes
<1>4. q < N
  BY <1>1, <1>2, <1>3, StripWidth, QuotientBelow
<1>5. q \in Shard
  BY <1>2, <1>4, Sizes DEF Shard
<1> QED  BY <1>2, <1>4, <1>5 DEF q, OwnerOf

Apart(a, b) == \A x : ~ (Has(a, x) /\ Has(b, x))

LEMMA JoinDistinct ==
    ASSUME NEW S, NEW a, NEW b, NEW s, a \in Seq(S), b \in Seq(S), s = a \o b,
           Distinct(a), Distinct(b), Apart(a, b)
    PROVE  s \in Seq(S) /\ Distinct(s) /\ \A x : Has(s, x) <=> Has(a, x) \/ Has(b, x)
<1> DEFINE m == Len(a)
           n == Len(b)
<1>1. /\ s \in Seq(S) /\ Len(s) = m + n
      /\ \A i \in 1 .. m + n : s[i] = IF i <= m THEN a[i] ELSE b[i - m]
  BY ConcatProperties
<1>2. m \in Nat /\ n \in Nat
  OBVIOUS
<1> HIDE DEF m, n
<1>3. ASSUME NEW i \in 1 .. m + n
      PROVE  \/ i \in 1 .. m /\ s[i] = a[i] /\ Has(a, s[i])
             \/ i - m \in 1 .. n /\ s[i] = b[i - m] /\ Has(b, s[i])
  <2>1. CASE i <= m
    <3>1. i \in 1 .. m /\ s[i] = a[i]
      BY <1>1, <1>2, <2>1
    <3> QED  BY <3>1 DEF Has, m
  <2>2. CASE ~ (i <= m)
    <3>1. i - m \in 1 .. n /\ s[i] = b[i - m]
      BY <1>1, <1>2, <2>2
    <3> QED  BY <3>1 DEF Has, n
  <2> QED  BY <2>1, <2>2
<1>4. ASSUME NEW i \in 1 .. m PROVE i \in 1 .. m + n /\ s[i] = a[i]
  BY <1>1, <1>2
<1>5. ASSUME NEW i \in 1 .. n PROVE i + m \in 1 .. m + n /\ s[i + m] = b[i]
  <2>1. i + m \in 1 .. m + n /\ ~ (i + m <= m) /\ (i + m) - m = i
    BY <1>2
  <2> QED  BY <1>1, <2>1
<1>6. ASSUME NEW i \in 1 .. m + n, NEW j \in 1 .. m + n, s[i] = s[j] PROVE i = j
  <2>1. CASE i \in 1 .. m /\ s[i] = a[i] /\ j \in 1 .. m /\ s[j] = a[j]
    BY <1>6, <2>1 DEF Distinct, m
  <2>2. CASE /\ i - m \in 1 .. n /\ s[i] = b[i - m]
             /\ j - m \in 1 .. n /\ s[j] = b[j - m]
    <3>1. i - m = j - m
      BY <1>6, <2>2 DEF Distinct, n
    <3> QED  BY <1>2, <3>1
  <2>3. ~ (Has(a, s[i]) /\ Has(b, s[i]))
    BY DEF Apart
  <2> QED  BY <1>3, <1>6, <2>1, <2>2, <2>3
<1>7. ASSUME NEW x PROVE Has(s, x) <=> Has(a, x) \/ Has(b, x)
  <2>1. Has(s, x) => Has(a, x) \/ Has(b, x)
    BY <1>1, <1>3 DEF Has
  <2>2. Has(a, x) => Has(s, x)
    BY <1>1, <1>4 DEF Has, m
  <2>3. Has(b, x) => Has(s, x)
    BY <1>1, <1>5 DEF Has, n
  <2> QED  BY <2>1, <2>2, <2>3
<1> QED  BY <1>1, <1>6, <1>7 DEF Distinct

Part(a, k, S) == a = << >> \/ (a = <<k>> /\ k \in S)

LEMMA OnePart ==
    ASSUME NEW S, NEW k, NEW a, Part(a, k, S)
    PROVE  a \in Seq(S) /\ Distinct(a) /\ \A x : Has(a, x) => x = k
<1>1. CASE a = << >>
  BY <1>1 DEF Distinct, Has
<1>2. CASE a = <<k>> /\ k \in S
  <2>1. a \in Seq(S) /\ Len(a) = 1 /\ a[1] = k
    BY <1>2
  <2> QED  BY <2>1 DEF Distinct, Has
<1> QED  BY <1>1, <1>2 DEF Part

LEMMA ThreeParts ==
    ASSUME NEW S, NEW k \in S, NEW p, NEW q, p # k, q # k, p # q,
           NEW a, NEW c, Part(a, p, S), Part(c, q, S), NEW s, s = a \o <<k>> \o c
    PROVE  s \in Seq(S) /\ Has(s, k) /\ Distinct(s)
<1> DEFINE b == <<k>>
           t == a \o b
<1>1. a \in Seq(S) /\ Distinct(a) /\ \A x : Has(a, x) => x = p
  BY OnePart
<1>2. c \in Seq(S) /\ Distinct(c) /\ \A x : Has(c, x) => x = q
  BY OnePart
<1>3. b \in Seq(S) /\ Distinct(b) /\ Has(b, k) /\ \A x : Has(b, x) => x = k
  <2>1. b \in Seq(S) /\ Len(b) = 1 /\ b[1] = k
    OBVIOUS
  <2> HIDE DEF b
  <2> QED  BY <2>1 DEF Distinct, Has
<1> HIDE DEF b
<1>4. Apart(a, b) /\ t = a \o b
  BY <1>1, <1>3 DEF Apart
<1> HIDE DEF t
<1>5. t \in Seq(S) /\ Distinct(t) /\ \A x : Has(t, x) <=> Has(a, x) \/ Has(b, x)
  BY <1>1, <1>3, <1>4, JoinDistinct
<1>6. Apart(t, c)
  BY <1>1, <1>2, <1>3, <1>5 DEF Apart
<1>7. s = t \o c
  BY DEF t, b
<1>8. s \in Seq(S) /\ Distinct(s) /\ \A x : Has(s, x) <=> Has(t, x) \/ Has(c, x)
  BY <1>2, <1>5, <1>6, <1>7, JoinDistinct
<1> QED  BY <1>3, <1>5, <1>8

(* An event reaches its owner, and every ring once.                        *)
LEMMA ReachedIs ==
    ASSUME NEW x \in Column
    PROVE  Reached(x) \in Seq(Shard) /\ Has(Reached(x), OwnerOf(x)) /\ Distinct(Reached(x))
<1> DEFINE q == x \div StripW
           In(k) == k \in Shard /\ k * StripW - Halo <= x /\ x < (k + 1) * StripW + Halo
           Ring(k) == IF In(k) THEN <<k>> ELSE << >>
<1>1. q \in Shard /\ OwnerOf(x) = q /\ q * StripW <= x /\ x < (q + 1) * StripW
  BY OwnerIs
<1>2. Reached(x) = Ring(q - 1) \o Ring(q) \o Ring(q + 1)
  BY DEF Reached
<1> HIDE DEF q
<1>3. q \in Int /\ StripW \in Int /\ Halo \in Nat /\ x \in Int
  BY <1>1, StripWidth, Sizes DEF Shard, Column
<1>4. q * StripW \in Int /\ (q + 1) * StripW \in Int
  BY <1>3
<1>5. q * StripW - Halo <= x /\ x < (q + 1) * StripW + Halo
  BY <1>1, <1>3, <1>4
<1>6. Ring(q) = <<q>>
  BY <1>1, <1>5
<1>7. Part(Ring(q - 1), q - 1, Shard) /\ Part(Ring(q + 1), q + 1, Shard)
  BY DEF Part
<1>8. q - 1 # q /\ q + 1 # q /\ q - 1 # q + 1
  BY <1>3
<1> HIDE DEF Ring
<1>9. Reached(x) = Ring(q - 1) \o <<q>> \o Ring(q + 1)
  BY <1>2, <1>6
<1> DEFINE p == q - 1
           r == q + 1
           a == Ring(p)
           c == Ring(r)
<1>10. /\ Part(a, p, Shard) /\ Part(c, r, Shard) /\ p # q /\ r # q /\ p # r
       /\ Reached(x) = a \o <<q>> \o c
  BY <1>7, <1>8, <1>9
<1> DEFINE s == Reached(x)
<1>11. s = a \o <<q>> \o c
  BY <1>10
<1> HIDE DEF a, c, p, r, s
<1>12. s \in Seq(Shard) /\ Has(s, q) /\ Distinct(s)
  BY <1>1, <1>10, <1>11, ThreeParts
<1> QED  BY <1>1, <1>12 DEF s

-----------------------------------------------------------------------------
(* What the source has in hand.                                            *)

LEMMA TailOf ==
    ASSUME NEW S, NEW s, s \in Seq(S), s # << >>
    PROVE  /\ Tail(s) \in Seq(S) /\ Head(s) \in S /\ Head(s) = s[1]
           /\ Len(s) \in Nat /\ 1 <= Len(s) /\ Len(Tail(s)) = Len(s) - 1
           /\ \A i \in 1 .. Len(s) - 1 : Tail(s)[i] = s[i + 1]
<1>1. Tail(s) \in Seq(S) /\ Head(s) \in S /\ Len(Tail(s)) = Len(s) - 1
      /\ \A i \in 1 .. Len(Tail(s)) : Tail(s)[i] = s[i + 1]
  BY HeadTailProperties
<1>2. Len(s) \in Nat /\ Len(s) # 0 /\ Head(s) = s[1]
  BY EmptySeq
<1> QED  BY <1>1, <1>2

LEMMA TailDistinct ==
    ASSUME NEW S, NEW s, s \in Seq(S), s # << >>, Distinct(s)
    PROVE  Distinct(Tail(s)) /\ \A x : Has(s, x) <=> x = Head(s) \/ Has(Tail(s), x)
<1> DEFINE t == Tail(s)
           n == Len(s)
<1>1. /\ n \in Nat /\ 1 <= n /\ Len(t) = n - 1 /\ Head(s) = s[1]
      /\ \A i \in 1 .. n - 1 : t[i] = s[i + 1]
  BY TailOf
<1>2. \A i \in 1 .. n - 1 : i + 1 \in 1 .. n
  BY <1>1
<1>3. ASSUME NEW i \in 1 .. n - 1, NEW j \in 1 .. n - 1, t[i] = t[j] PROVE i = j
  <2>1. i + 1 = j + 1
    BY <1>1, <1>2, <1>3 DEF Distinct
  <2> QED  BY <2>1
<1>4. ASSUME NEW i \in 1 .. n PROVE i = 1 \/ (i - 1 \in 1 .. n - 1 /\ t[i - 1] = s[i])
  <2>1. CASE i # 1
    <3>1. i - 1 \in 1 .. n - 1 /\ (i - 1) + 1 = i
      BY <1>1, <2>1
    <3> QED  BY <1>1, <3>1
  <2> QED  BY <2>1
<1>5. 1 \in 1 .. n
  BY <1>1
<1> HIDE DEF t, n
<1>6. ASSUME NEW x PROVE Has(s, x) <=> x = Head(s) \/ Has(t, x)
  <2>1. Has(s, x) => x = Head(s) \/ Has(t, x)
    BY <1>1, <1>4 DEF Has, n
  <2>2. Has(t, x) => Has(s, x)
    BY <1>1, <1>2 DEF Has, n
  <2>3. x = Head(s) => Has(s, x)
    BY <1>1, <1>5 DEF Has, n
  <2> QED  BY <2>1, <2>2, <2>3
<1> QED  BY <1>1, <1>3, <1>6 DEF Distinct, t

LEMMA SubmittingInit == Init => Submitting
<1> SUFFICES ASSUME Init PROVE Submitting
  OBVIOUS
<1>1. Distinct(<< >>) /\ [x \in Column |-> 0] \in [Column -> Nat]
  BY DEF Distinct
<1> QED  BY <1>1 DEF Init, Submitting

LEMMA BatchesAreSeqs ==
    ASSUME NEW events \in Batches
    PROVE  events \in Seq(Column \cup {Width})
<1>1. PICK n \in Nat : events \in [1 .. n -> Offered]
  BY Sizes DEF Batches
<1>2. Offered \subseteq Column \cup {Width}
  BY DEF Offered
<1>3. events \in [1 .. n -> Column \cup {Width}]
  BY <1>1, <1>2
<1> QED  BY <1>3, SeqDef

LEMMA SubmittingStep ==
    ASSUME Control, Submitting, [Next]_vars
    PROVE  Submitting'
<1> USE DEF Setup
<1>1. ASSUME UNCHANGED sourceVars PROVE Submitting'
  BY <1>1 DEF Submitting, sourceVars
<1>2. ASSUME ResetDone PROVE Submitting'
  BY <1>2 DEF Submitting, ResetDone
<1>3. ASSUME StartSource \/ Poll \/ SourceExit \/ NoBatch PROVE Submitting'
  BY <1>3 DEF Submitting, Control, StartSource, Poll, SourceExit, NoBatch
<1>4. ASSUME NEW events \in Batches, Submit(events) PROVE Submitting'
  <2>1. events \in Seq(Column \cup {Width}) /\ Len(events) \in Nat
    BY BatchesAreSeqs
  <2>2. eventsIn' \in Nat
    BY <1>4, <2>1 DEF Submit, Submitting
  <2>3. to = << >>
    BY <1>4 DEF Submit, Submitting
  <2> QED  BY <1>4, <2>1, <2>2, <2>3 DEF Submit, Submitting
<1>5. ASSUME TakeEvent PROVE Submitting'
  <2> DEFINE x == Head(batch)
  <2>1. Tail(batch) \in Seq(Column \cup {Width})
    BY <1>5, TailOf DEF TakeEvent, Submitting
  <2>2. CASE InGrid(x)
    <3>1. x \in Column
      BY <2>2 DEF InGrid
    <3>2. Reached(x) \in Seq(Shard) /\ Distinct(Reached(x))
      BY <3>1, ReachedIs
    <3>3. to' = Reached(x) /\ admitted' = [admitted EXCEPT ![x] = @ + 1]
          /\ UNCHANGED <<batch, nOob, refused, source, accepted, eventsIn>>
      BY <1>5, <2>2 DEF TakeEvent
    <3>4. admitted' \in [Column -> Nat]
      BY <3>1, <3>3 DEF Submitting
    <3>5. batch # << >> /\ source = "submit"
      BY <1>5 DEF TakeEvent
    <3> HIDE DEF x
    <3>6. Head(batch') \in Column
      BY <3>1, <3>3 DEF x
    <3> QED  BY <3>2, <3>3, <3>4, <3>5, <3>6 DEF Submitting
  <2>3. CASE ~ InGrid(x)
    <3>1. nOob' = nOob + 1 /\ refused' = refused + 1 /\ batch' = Tail(batch)
          /\ UNCHANGED <<to, admitted, source, accepted, eventsIn>> /\ source = "submit" /\ to = << >>
      BY <1>5, <2>3 DEF TakeEvent
    <3> QED  BY <2>1, <3>1 DEF Submitting
  <2> QED  BY <2>2, <2>3
<1>6. ASSUME PushNext PROVE Submitting'
  <2>1. batch # << >> /\ Head(batch) \in Column /\ source = "submit" /\ to # << >>
    BY <1>6 DEF PushNext, Submitting
  <2>2. /\ Tail(to) \in Seq(Shard) /\ Distinct(Tail(to)) /\ Len(Tail(to)) = Len(to) - 1
        /\ Len(to) \in Nat /\ 1 <= Len(to)
    BY <2>1, TailOf, TailDistinct DEF Submitting
  <2>3. Tail(batch) \in Seq(Column \cup {Width})
    BY <2>1, TailOf DEF Submitting
  <2>4. CASE Len(to) = 1
    <3>1. to' = Tail(to) /\ batch' = Tail(batch) /\ accepted' = accepted + 1
          /\ UNCHANGED <<source, eventsIn, admitted, refused, nOob>>
      BY <1>6, <2>4 DEF PushNext
    <3>2. to' = << >>
      BY <2>2, <2>4, <3>1, EmptySeq
    <3> QED  BY <2>1, <2>2, <2>3, <3>1, <3>2 DEF Submitting
  <2>5. CASE Len(to) # 1
    <3>1. to' = Tail(to) /\ UNCHANGED <<batch, accepted, source, eventsIn, admitted, refused, nOob>>
      BY <1>6, <2>5 DEF PushNext
    <3> QED  BY <2>1, <2>2, <3>1 DEF Submitting
  <2> QED  BY <2>4, <2>5
<1>7. ASSUME SubmitReturns PROVE Submitting'
  BY <1>7 DEF SubmitReturns, Submitting
<1>8. \/ UNCHANGED sourceVars \/ ResetDone \/ StartSource \/ Poll \/ SourceExit \/ NoBatch
      \/ (\E events \in Batches : Submit(events)) \/ TakeEvent \/ PushNext \/ SubmitReturns
  BY Steps1 DEF RunningStep, MainStep, SourceStep, WorkerStep, vars, Launch, InitLibrary,
     ResetShard, PrintRow, Leave, Snapshot, SnapshotDone, StopSynth, Join, JoinTimesOut,
     SetStopFlag, Synchronize, PushEof, JoinWorkers, ShutdownReturns, Signal, Handle, TakeEof,
     KernelExit
<1> QED  BY <1>1, <1>2, <1>3, <1>4, <1>5, <1>6, <1>7, <1>8

-----------------------------------------------------------------------------
(* The rings.                                                              *)

LEMMA EofIsNoEntry == Eof \notin Entries /\ \A e \in Entries : e # Eof
<1>1. ASSUME NEW e \in Entries PROVE e # Eof
  <2>1. e.column \in Column /\ Eof.column = -1
    BY DEF Entries, Eof
  <2> QED  BY <2>1, Sizes DEF Column
<1> QED  BY <1>1

LEMMA TailRing ==
    ASSUME NEW S, NEW s, s \in Seq(S), s # << >>, EofLast(s)
    PROVE  /\ EofLast(Tail(s)) /\ (Has(Tail(s), Eof) => Has(s, Eof))
           /\ Head(s) = Eof => Tail(s) = << >> /\ Has(s, Eof)
<1> DEFINE t == Tail(s)
           n == Len(s)
<1>1. /\ n \in Nat /\ 1 <= n /\ Len(t) = n - 1 /\ Head(s) = s[1] /\ t \in Seq(S)
      /\ \A i \in 1 .. n - 1 : t[i] = s[i + 1]
  BY TailOf
<1> HIDE DEF t, n
<1>2. ASSUME NEW i \in 1 .. n - 1 PROVE i + 1 \in 1 .. n /\ (i + 1 = n => i = n - 1)
  BY <1>1
<1>3. EofLast(t)
  <2> SUFFICES ASSUME NEW i \in 1 .. n - 1, t[i] = Eof PROVE i = n - 1
    BY <1>1 DEF EofLast
  <2>1. i + 1 \in 1 .. n /\ s[i + 1] = Eof
    BY <1>1, <1>2
  <2>2. i + 1 = n
    BY <2>1 DEF EofLast, n
  <2> QED  BY <1>2, <2>2
<1>4. Has(t, Eof) => Has(s, Eof)
  BY <1>1, <1>2 DEF Has, n
<1>5. ASSUME Head(s) = Eof PROVE t = << >> /\ Has(s, Eof)
  <2>1. 1 \in 1 .. n /\ s[1] = Eof
    BY <1>1, <1>5
  <2>2. n = 1 /\ Has(s, Eof)
    BY <2>1 DEF EofLast, Has, n
  <2>3. t = << >>
    <3>1. Len(t) = 0
      BY <1>1, <2>2
    <3> QED  BY <1>1, <3>1, EmptySeq
  <2> QED  BY <2>2, <2>3
<1> QED  BY <1>3, <1>4, <1>5 DEF t

LEMMA AppendRing ==
    ASSUME NEW S, NEW s, NEW e, NEW t, s \in Seq(S), e \in S, t = Append(s, e),
           ~ Has(s, Eof)
    PROVE  t \in Seq(S) /\ EofLast(t)
<1>1. /\ t \in Seq(S) /\ Len(t) = Len(s) + 1 /\ Len(s) \in Nat
      /\ \A i \in 1 .. Len(s) : t[i] = s[i]
  BY AppendProperties
<1>2. t[Len(s) + 1] = e
  BY AppendProperties
<1>3. \A i \in 1 .. Len(t) : i # Len(t) => i \in 1 .. Len(s) /\ t[i] # Eof
  BY <1>1 DEF Has
<1> QED  BY <1>1, <1>2, <1>3 DEF EofLast, Has

LEMMA AppendEntry ==
    ASSUME NEW S, NEW s, NEW e, NEW t, s \in Seq(S), e \in S, t = Append(s, e),
           ~ Has(s, Eof), e # Eof
    PROVE  ~ Has(t, Eof)
BY AppendProperties DEF Has

LEMMA EmptyRing == EofLast(<< >>) /\ \A x : ~ Has(<< >>, x)
BY DEF EofLast, Has

LEMMA RingsInit == Init => Rings
<1> SUFFICES ASSUME Init PROVE Rings
  OBVIOUS
<1>1. queue = [k \in Shard |-> << >>] /\ returned = Shard /\ main = "launch"
  BY DEF Init
<1>2. queue \in [Shard -> Seq(Entries \cup {Eof})] /\ \A k \in Shard : queue[k] = << >>
  BY <1>1
<1> QED  BY <1>1, <1>2, EmptyRing DEF Rings, Setup, Ending

LEMMA RingsKept ==
    ASSUME Rings, UNCHANGED <<queue, returned>>,
           main' \in Setup => main \in Setup,
           main \in Ending => main' \in Ending,
           main' = "eof" => main \notin Ending \/ (main = "eof" /\ UNCHANGED at),
           main \in {"launch", "init"} => main' \in {"launch", "init"},
           main' \in {"freed", "done"} => main \in {"freed", "done"} \/ returned = Shard
    PROVE  Rings'
<1> USE DEF Setup, Ending
<1>1. queue' \in [Shard -> Seq(Entries \cup {Eof})] /\ returned' \in SUBSET Shard
  BY DEF Rings
<1>2. main' \in Setup => queue' = [k \in Shard |-> << >>]
  BY DEF Rings
<1>3. \A k \in Shard : EofLast(queue'[k])
  BY DEF Rings
<1>4. \A k \in Shard : Has(queue'[k], Eof) => main' \in Ending /\ (main' = "eof" => k < at')
  BY DEF Rings
<1>5. \A k \in returned' : /\ queue'[k] = << >> /\ main' \in {"launch", "init"} \cup Ending
                           /\ main' = "eof" => k < at'
  BY DEF Rings
<1>6. main' \in {"freed", "done"} => returned' = Shard
  BY DEF Rings
<1> QED  BY <1>1, <1>2, <1>3, <1>4, <1>5, <1>6 DEF Rings

LEMMA RingsStep ==
    ASSUME Control, Submitting, Rings, [Next]_vars
    PROVE  Rings'
<1> USE DEF Setup, Ending
<1>1. CASE UNCHANGED vars
  <2>1. UNCHANGED <<queue, returned, main, at>>
    BY <1>1 DEF vars, shardVars
  <2> QED  BY <2>1, RingsKept
<1>2. ASSUME InitLibrary PROVE Rings'
  BY <1>2, EmptyRing DEF InitLibrary, Rings
<1>3. ASSUME Running, PushNext PROVE Rings'
  <2>1. main \notin Ending /\ main \notin Setup
    BY <1>3 DEF Running, Clash, PushNext, Control
  <2>2. returned = {} /\ \A k \in Shard : ~ Has(queue[k], Eof)
    BY <2>1 DEF Rings
  <2> DEFINE h == Head(to)
             e == [column |-> Head(batch), owner |-> h = OwnerOf(Head(batch))]
             s == Append(queue[h], e)
  <2>3. h \in Shard /\ Head(batch) \in Column
    BY <1>3, TailOf DEF PushNext, Submitting
  <2>4. e \in Entries
    <3> DEFINE own == h = OwnerOf(Head(batch))
    <3>1. own \in BOOLEAN
      OBVIOUS
    <3> HIDE DEF own
    <3> QED  BY <2>3, <3>1 DEF Entries, own
  <2>5. queue' = [queue EXCEPT ![h] = s] /\ UNCHANGED <<returned, main, at>>
    BY <1>3 DEF PushNext, shardVars
  <2> HIDE DEF h, e
  <2>6. s \in Seq(Entries \cup {Eof}) /\ EofLast(s) /\ ~ Has(s, Eof)
    <3>1. queue[h] \in Seq(Entries \cup {Eof}) /\ e \in Entries \cup {Eof} /\ e # Eof
      BY <2>3, <2>4, EofIsNoEntry DEF Rings
    <3>2. ~ Has(queue[h], Eof)
      BY <2>2, <2>3
    <3>3. s = Append(queue[h], e)
      OBVIOUS
    <3> DEFINE S == Entries \cup {Eof}
               r == queue[h]
    <3> HIDE DEF s, S, r
    <3>4. r \in Seq(S) /\ e \in S /\ s = Append(r, e) /\ ~ Has(r, Eof) /\ e # Eof
      BY <3>1, <3>2, <3>3 DEF S, r
    <3>5. s \in Seq(S) /\ EofLast(s) /\ ~ Has(s, Eof)
      BY <3>4, AppendRing, AppendEntry
    <3> QED  BY <3>4, <3>5 DEF S
  <2> HIDE DEF s
  <2>7. queue' \in [Shard -> Seq(Entries \cup {Eof})]
    BY <2>3, <2>5, <2>6 DEF Rings
  <2>8. \A k \in Shard : EofLast(queue'[k]) /\ ~ Has(queue'[k], Eof)
    BY <2>2, <2>3, <2>5, <2>6 DEF Rings
  <2> QED  BY <2>1, <2>2, <2>5, <2>7, <2>8 DEF Rings
<1>4. ASSUME NEW k \in Shard, k \notin returned, queue[k] # << >>,
             queue' = [queue EXCEPT ![k] = Tail(@)],
             returned' = returned \/ (returned' = returned \cup {k} /\ Head(queue[k]) = Eof),
             UNCHANGED <<main, at>>
      PROVE  Rings'
  <2> DEFINE t == Tail(queue[k])
  <2>1. queue[k] \in Seq(Entries \cup {Eof}) /\ EofLast(queue[k])
    BY DEF Rings
  <2>2. t \in Seq(Entries \cup {Eof})
    BY <1>4, <2>1, TailOf
  <2>3. /\ EofLast(t) /\ (Has(t, Eof) => Has(queue[k], Eof))
        /\ Head(queue[k]) = Eof => t = << >> /\ Has(queue[k], Eof)
    BY <1>4, <2>1, TailRing
  <2>4. queue' = [queue EXCEPT ![k] = t]
    BY <1>4
  <2> HIDE DEF t
  <2>5. queue' \in [Shard -> Seq(Entries \cup {Eof})] /\ returned' \in SUBSET Shard
    BY <1>4, <2>2, <2>4 DEF Rings
  <2>6. main \notin Setup /\ main \notin {"freed", "done"}
    BY <1>4 DEF Rings
  <2>7. \A j \in Shard : EofLast(queue'[j]) /\ (Has(queue'[j], Eof) => Has(queue[j], Eof))
    BY <2>3, <2>4 DEF Rings
  <2>8. \A j \in returned' : /\ queue'[j] = << >> /\ main \in {"launch", "init"} \cup Ending
                             /\ main = "eof" => j < at
    <3>1. ASSUME NEW j \in returned, j # k
          PROVE  queue'[j] = << >> /\ main \in {"launch", "init"} \cup Ending
                 /\ (main = "eof" => j < at)
      BY <2>4, <3>1 DEF Rings
    <3>2. ASSUME Head(queue[k]) = Eof
          PROVE  queue'[k] = << >> /\ main \in Ending /\ (main = "eof" => k < at)
      BY <2>3, <2>4, <3>2 DEF Rings
    <3> QED  BY <1>4, <3>1, <3>2
  <2> QED  BY <1>4, <2>5, <2>6, <2>7, <2>8 DEF Rings
<1>5. ASSUME NEW k \in Shard, NEW pass0 \in BOOLEAN, NEW pass1 \in BOOLEAN,
             Handle(k, pass0, pass1)
      PROVE  Rings'
  BY <1>4, <1>5 DEF Handle
<1>6. ASSUME NEW k \in Shard, TakeEof(k) PROVE Rings'
  BY <1>4, <1>6 DEF TakeEof
<1>7. ASSUME PushEof PROVE Rings'
  <2>1. main = "eof" /\ main' = "eof" /\ at < N /\ at' = at + 1 /\ at \in Nat
        /\ returned' = returned
    BY <1>7 DEF PushEof, Control, shardVars
  <2>2. at \in Shard
    BY <2>1, Sizes DEF Shard
  <2> DEFINE s == Append(queue[at], Eof)
  <2>3. queue' = [queue EXCEPT ![at] = s]
    BY <1>7 DEF PushEof
  <2>4. ~ Has(queue[at], Eof) /\ at \notin returned
    BY <2>1, <2>2 DEF Rings
  <2>5. s \in Seq(Entries \cup {Eof}) /\ EofLast(s)
    <3>1. queue[at] \in Seq(Entries \cup {Eof}) /\ Eof \in Entries \cup {Eof}
      BY <2>2 DEF Rings
    <3>2. s = Append(queue[at], Eof)
      OBVIOUS
    <3> HIDE DEF s
    <3> QED  BY <2>4, <3>1, <3>2, AppendRing
  <2> HIDE DEF s
  <2>6. queue' \in [Shard -> Seq(Entries \cup {Eof})]
    BY <2>2, <2>3, <2>5 DEF Rings
  <2>7. \A k \in Shard : EofLast(queue'[k]) /\ (k # at => queue'[k] = queue[k])
    BY <2>2, <2>3, <2>5 DEF Rings
  <2>8. \A k \in Shard : Has(queue'[k], Eof) => k < at'
    <3> SUFFICES ASSUME NEW k \in Shard, Has(queue'[k], Eof) PROVE k < at'
      OBVIOUS
    <3>1. CASE k = at
      BY <2>1, <3>1
    <3>2. CASE k # at
      <4>1. k < at /\ k \in Int
        BY <2>1, <2>7, <3>2 DEF Rings, Shard
      <4> QED  BY <2>1, <4>1
    <3> QED  BY <3>1, <3>2
  <2>9. \A k \in returned : queue'[k] = << >> /\ k < at'
    <3> SUFFICES ASSUME NEW k \in returned PROVE queue'[k] = << >> /\ k < at'
      OBVIOUS
    <3>1. k \in Shard /\ k # at /\ queue[k] = << >> /\ k < at
      BY <2>1, <2>4 DEF Rings
    <3>2. k \in Int
      BY <3>1 DEF Shard
    <3> QED  BY <2>1, <2>7, <3>1, <3>2
  <2> QED  BY <2>1, <2>6, <2>7, <2>8, <2>9 DEF Rings
<1>8. ASSUME \/ Launch \/ ResetShard \/ ResetDone \/ StartSource \/ PrintRow \/ Leave
             \/ Snapshot \/ SnapshotDone \/ StopSynth \/ Join \/ JoinTimesOut \/ SetStopFlag
             \/ Synchronize \/ JoinWorkers \/ ShutdownReturns \/ Signal \/ Poll \/ NoBatch
             \/ (\E events \in Batches : Submit(events)) \/ SourceExit \/ TakeEvent
             \/ SubmitReturns \/ KernelExit
      PROVE  Rings'
  <2>0. program \in Programs
    BY DEF Control
  <2>1. UNCHANGED <<queue, returned>>
    BY <1>8 DEF Launch, ResetShard, ResetDone, StartSource, PrintRow, Leave, Snapshot,
       SnapshotDone, StopSynth, Join, JoinTimesOut, SetStopFlag, Synchronize, JoinWorkers,
       ShutdownReturns, Signal, Poll, NoBatch, Submit, SourceExit, TakeEvent, SubmitReturns,
       KernelExit, shardVars
  <2>2. /\ main' \in Setup => main \in Setup
        /\ main \in Ending => main' \in Ending
        /\ main \in {"launch", "init"} => main' \in {"launch", "init"}
    BY <1>8, <2>0, Kinds DEF Launch, ResetShard, ResetDone, StartSource, PrintRow, Leave, Snapshot,
       SnapshotDone, StopSynth, Join, JoinTimesOut, SetStopFlag, Synchronize, JoinWorkers,
       ShutdownReturns, Signal, Poll, NoBatch, Submit, SourceExit, TakeEvent, SubmitReturns,
       KernelExit, MainFree, AfterSource
  <2>3. main' = "eof" => main \notin Ending \/ (main = "eof" /\ UNCHANGED at)
    BY <1>8, <2>0, Kinds DEF Launch, ResetShard, ResetDone, StartSource, PrintRow, Leave, Snapshot,
       SnapshotDone, StopSynth, Join, JoinTimesOut, SetStopFlag, Synchronize, JoinWorkers,
       ShutdownReturns, Signal, Poll, NoBatch, Submit, SourceExit, TakeEvent, SubmitReturns,
       KernelExit, MainFree, AfterSource
  <2>4. main' \in {"freed", "done"} => main \in {"freed", "done"} \/ returned = Shard
    BY <1>8, <2>0, Kinds DEF Launch, ResetShard, ResetDone, StartSource, PrintRow, Leave, Snapshot,
       SnapshotDone, StopSynth, Join, JoinTimesOut, SetStopFlag, Synchronize, JoinWorkers,
       ShutdownReturns, Signal, Poll, NoBatch, Submit, SourceExit, TakeEvent, SubmitReturns,
       KernelExit, MainFree, AfterSource
  <2> QED  BY <2>1, <2>2, <2>3, <2>4, RingsKept
<1> QED
  BY Steps1, <1>1, <1>2, <1>3, <1>5, <1>6, <1>7, <1>8
     DEF RunningStep, MainStep, SourceStep, WorkerStep

-----------------------------------------------------------------------------
(* Sources first.                                                          *)

ControlInv == Control /\ Submitting /\ Rings

LEMMA ControlInvariant == Spec => []ControlInv
<1>1. Init => ControlInv
  BY ControlInit, SubmittingInit, RingsInit DEF ControlInv
<1>2. ControlInv /\ [Next]_vars => ControlInv'
  BY ControlStep, SubmittingStep, RingsStep DEF ControlInv
<1> QED  BY <1>1, <1>2, PTL DEF Spec

LEMMA ControlInvImplies == ControlInv => SourcesFirst
<1> SUFFICES ASSUME ControlInv, ~timedOut PROVE
        /\ ~Clash
        /\ \A k \in Shard : \A i \in 1 .. Len(queue[k]) : queue[k][i] = Eof => i = Len(queue[k])
        /\ main \in {"eof", "freed", "done"} => source = "exited" \/ Source = "caller"
        /\ kernel = "exited" /\ source # "exited" => signalled
  BY DEF SourcesFirst
<1> USE DEF Joined, Ending, Setup
<1>1. ~Clash
  BY DEF ControlInv, Control, Clash
<1>2. \A k \in Shard : \A i \in 1 .. Len(queue[k]) : queue[k][i] = Eof => i = Len(queue[k])
  BY DEF ControlInv, Rings, EofLast
<1>3. main \in {"eof", "freed", "done"} => source = "exited" \/ Source = "caller"
  BY DEF ControlInv, Control
<1>4. kernel = "exited" /\ source # "exited" => signalled
  BY DEF ControlInv, Control
<1> QED  BY <1>1, <1>2, <1>3, <1>4

(* In every program, for every number of shards, columns and events,       *)
(* nobody submits while the library shuts down, no event follows an end    *)
(* marker and the kernel outlives the source, unless a join timed out or   *)
(* the multi-block runner was signalled.                                   *)
THEOREM SourcesFirstCorrect == Spec => []SourcesFirst
<1>1. ControlInv => SourcesFirst
  BY ControlInvImplies
<1> QED  BY <1>1, ControlInvariant, PTL

-----------------------------------------------------------------------------
(* The counters of the shards, and their snapshot.                         *)

CountType == [Shard -> [Counters -> Nat]]
TotalOf(cnt, c) == SumFunctionOnSet([k \in Shard |-> cnt[k][c]], Shard)

\* What a snapshot has loaded after n loads, at most: the counters of the shards before.
Index(c) == CASE c = "owner" -> 0 [] c = "halo" -> 1 [] c = "pass0" -> 2 [] c = "pass1" -> 3
Loaded(cnt, c, n) == [k \in Shard |-> IF 4 * k + Index(c) < n THEN cnt[k][c] ELSE 0]
LoadedSum(cnt, c, n) == SumFunctionOnSet(Loaded(cnt, c, n), Shard)

Counts ==
    /\ count \in CountType /\ sums \in [Counters -> Nat] /\ pushed \in Nat
    /\ \A k \in Shard : Ordered(count[k])
    /\ main \in Setup => /\ count = [k \in Shard |-> Zero] /\ pushed = 0
                         /\ nOob = 0 /\ refused = 0
    /\ main \notin {"row", "final"} => sums = Zero
    /\ \A c \in Counters : sums[c] <= LoadedSum(count, c, at)

LEMMA FiniteSets == IsFiniteSet(Shard) /\ IsFiniteSet(Column)
<1>1. 0 \in Int /\ N - 1 \in Int /\ Width - 1 \in Int
  BY Sizes
<1> QED  BY <1>1, FS_Interval DEF Shard, Column

LEMMA IndexIs == \A c \in Counters : Index(c) \in 0 .. 3
BY DEF Counters, Index

LEMMA IndexOf ==
    ASSUME NEW c \in Counters, NEW d \in Counters, Index(c) = Index(d)
    PROVE  c = d
BY DEF Counters, Index

LEMMA LoadedSumIs ==
    ASSUME NEW cnt, cnt \in CountType, NEW c \in Counters, NEW n \in Nat
    PROVE  LoadedSum(cnt, c, n) \in Nat /\ LoadedSum(cnt, c, n) <= TotalOf(cnt, c)
           /\ TotalOf(cnt, c) \in Nat
<1> DEFINE f == Loaded(cnt, c, n)
           h == [k \in Shard |-> cnt[k][c]]
<1>1. \A k \in Shard : cnt[k][c] \in Nat
  BY DEF CountType
<1>2. Below(f, h, Shard)
  BY <1>1 DEF Below, Loaded
<1>3. /\ SumFunctionOnSet(f, Shard) \in Nat /\ SumFunctionOnSet(h, Shard) \in Nat
      /\ SumFunctionOnSet(f, Shard) <= SumFunctionOnSet(h, Shard)
  <2> HIDE DEF f, h
  <2> QED  BY <1>2, FiniteSets, SumOfLeq
<1> QED  BY <1>3 DEF LoadedSum, TotalOf

LEMMA LoadedSumGrows ==
    ASSUME NEW cnt, NEW grown, cnt \in CountType, grown \in CountType,
           NEW c \in Counters, NEW n \in Nat,
           \A k \in Shard : cnt[k][c] <= grown[k][c]
    PROVE  LoadedSum(cnt, c, n) <= LoadedSum(grown, c, n)
<1> DEFINE f == Loaded(cnt, c, n)
           h == Loaded(grown, c, n)
<1>1. \A k \in Shard : cnt[k][c] \in Nat /\ grown[k][c] \in Nat
  BY DEF CountType
<1>2. Below(f, h, Shard)
  BY <1>1 DEF Below, Loaded
<1>3. SumFunctionOnSet(f, Shard) <= SumFunctionOnSet(h, Shard)
  <2> HIDE DEF f, h
  <2> QED  BY <1>2, FiniteSets, SumOfLeq
<1> QED  BY <1>3 DEF LoadedSum

LEMMA LoadIs ==
    ASSUME NEW n \in Nat, n < 4 * N
    PROVE  /\ Loads[n][1] \in Shard /\ Loads[n][2] \in Counters
           /\ n = 4 * Loads[n][1] + Index(Loads[n][2])
<1> DEFINE q == n \div 4
           r == n % 4
<1>1. n = 4 * q + r
  OBVIOUS
<1>2. r \in Int /\ 0 <= r /\ r < 4
  OBVIOUS
<1>3. q \in Int
  OBVIOUS
<1>4. n \in 0 .. 4 * N - 1
  BY Sizes
<1>5. Loads[n] = <<q, <<"owner", "halo", "pass0", "pass1">>[r + 1]>>
  BY <1>4 DEF Loads
<1> HIDE DEF q, r
<1>6. r = 0 \/ r = 1 \/ r = 2 \/ r = 3
  BY <1>2
<1>7. q \in Shard
  BY <1>1, <1>2, <1>3, Sizes DEF Shard
<1> DEFINE c == <<"owner", "halo", "pass0", "pass1">>[r + 1]
<1>8. c \in Counters /\ Index(c) = r
  <2>1. CASE r = 0
    BY <2>1 DEF Counters, Index
  <2>2. CASE r = 1
    BY <2>2 DEF Counters, Index
  <2>3. CASE r = 2
    BY <2>3 DEF Counters, Index
  <2>4. CASE r = 3
    BY <2>4 DEF Counters, Index
  <2> QED  BY <1>6, <2>1, <2>2, <2>3, <2>4
<1> HIDE DEF c
<1>9. Loads[n] = <<q, c>>
  BY <1>5 DEF c
<1> QED  BY <1>1, <1>7, <1>8, <1>9

LEMMA LoadedNext ==
    ASSUME NEW cnt, cnt \in CountType, NEW n \in Nat, NEW m, m = n + 1,
           NEW k \in Shard, NEW d \in Counters, n = 4 * k + Index(d), NEW c \in Counters
    PROVE  LoadedSum(cnt, c, m) = LoadedSum(cnt, c, n) + IF c = d THEN cnt[k][c] ELSE 0
<1> DEFINE f == Loaded(cnt, c, n)
           h == Loaded(cnt, c, m)
<1>1. \A j \in Shard : cnt[j][c] \in Nat /\ j \in Nat
  BY Sizes DEF CountType, Shard
<1>2. Index(c) \in 0 .. 3 /\ Index(d) \in 0 .. 3
  BY IndexIs
<1>3. ASSUME NEW j \in Shard, 4 * j + Index(c) = n PROVE j = k /\ c = d
  <2>1. j = k /\ Index(c) = Index(d)
    BY <1>1, <1>2, <1>3
  <2> QED  BY <2>1, IndexOf
<1>4. \A j \in Shard : f[j] \in Int /\ h[j] \in Int
  BY <1>1 DEF Loaded
<1>5. \A j \in Shard : 4 * j + Index(c) # n => h[j] = f[j]
  BY <1>1, <1>2 DEF Loaded
<1>6. CASE c = d
  <2>1. f[k] = 0 /\ h[k] = cnt[k][c]
    BY <1>1, <1>2, <1>6 DEF Loaded
  <2>2. \A j \in Shard : j # k => h[j] = f[j]
    BY <1>3, <1>5
  <2> HIDE DEF f, h
  <2>3. IntOn(f, Shard) /\ IntOn(h, Shard)
    BY <1>4 DEF IntOn
  <2>4. SumFunctionOnSet(h, Shard) = (SumFunctionOnSet(f, Shard) - f[k]) + h[k]
    BY <2>2, <2>3, FiniteSets, SumOfUpdate
  <2>5. SumFunctionOnSet(f, Shard) \in Int
    BY <2>3, FiniteSets, SumOfSplit
  <2>6. SumFunctionOnSet(h, Shard) = SumFunctionOnSet(f, Shard) + cnt[k][c]
    BY <1>1, <2>1, <2>4, <2>5
  <2> QED  BY <1>6, <2>6 DEF LoadedSum, f, h
<1>7. CASE c # d
  <2>1. \A j \in Shard : f[j] = h[j]
    BY <1>3, <1>5, <1>7
  <2>2. SumFunctionOnSet(f, Shard) = SumFunctionOnSet(h, Shard)
    <3> HIDE DEF f, h
    <3> QED  BY <2>1, FiniteSets, SumOfEqual
  <2>3. LoadedSum(cnt, c, n) \in Nat
    BY LoadedSumIs
  <2> QED  BY <1>7, <2>2, <2>3 DEF LoadedSum
<1> QED  BY <1>6, <1>7

\* The counters of a shard after an event.
Counted(f, S) == [c \in Counters |-> f[c] + IF c \in S THEN 1 ELSE 0]
CountedOf(owner, pass0, pass1) ==
    {IF owner THEN "owner" ELSE "halo"}
      \cup (IF pass0 THEN {"pass0"} ELSE {}) \cup (IF pass1 THEN {"pass1"} ELSE {})

LEMMA HandleIs ==
    ASSUME Control, Rings, Counts, NEW k \in Shard, NEW pass0 \in BOOLEAN, NEW pass1 \in BOOLEAN,
           Handle(k, pass0, pass1),
           NEW S, S = CountedOf(Head(queue[k]).owner, pass0, pass1)
    PROVE  /\ count' = [count EXCEPT ![k] = Counted(count[k], S)]
           /\ Counted(count[k], S) \in [Counters -> Nat]
           /\ \A c \in Counters : Counted(count[k], S)[c] = count[k][c] + IF c \in S THEN 1 ELSE 0
           /\ Ordered(Counted(count[k], S))
<1>1. count[k] \in [Counters -> Nat] /\ Ordered(count[k])
  BY DEF Counts, CountType
<1> DEFINE r == Counted(count[k], S)
<1>2. r \in [Counters -> Nat]
  BY <1>1 DEF Counted
<1>3. \A c \in Counters : r[c] = count[k][c] + IF c \in S THEN 1 ELSE 0
  BY <1>1 DEF Counted
<1>4. count' = [count EXCEPT ![k] = r]
  BY DEF Handle, Counted, CountedOf
<1>5. ("pass1" \in S => "pass0" \in S) /\ ("pass0" \in S => "owner" \in S)
  BY DEF Handle, CountedOf
<1> DEFINE a == count[k]
<1> HIDE DEF r, a
<1>6. /\ a["pass1"] \in Nat /\ a["pass0"] \in Nat /\ a["owner"] \in Nat
      /\ a["pass1"] <= a["pass0"] /\ a["pass0"] <= a["owner"]
  BY <1>1 DEF Ordered, Counters, a
<1>7. /\ r["pass1"] = a["pass1"] + IF "pass1" \in S THEN 1 ELSE 0
      /\ r["pass0"] = a["pass0"] + IF "pass0" \in S THEN 1 ELSE 0
      /\ r["owner"] = a["owner"] + IF "owner" \in S THEN 1 ELSE 0
  BY <1>3 DEF Counters, a
<1>8. r["pass1"] <= r["pass0"] /\ r["pass0"] <= r["owner"]
  BY <1>5, <1>6, <1>7
<1>9. Ordered(r)
  BY <1>8 DEF Ordered
<1> QED  BY <1>2, <1>3, <1>4, <1>9 DEF r

LEMMA ZeroIs == Zero \in [Counters -> Nat] /\ (\A c \in Counters : Zero[c] = 0) /\ Ordered(Zero)
<1>1. Zero \in [Counters -> Nat] /\ \A c \in Counters : Zero[c] = 0
  BY DEF Zero
<1>2. Zero["pass1"] = 0 /\ Zero["pass0"] = 0 /\ Zero["owner"] = 0
  BY <1>1 DEF Counters
<1>3. Ordered(Zero)
  BY <1>2 DEF Ordered
<1> QED  BY <1>1, <1>3

LEMMA CountsInit == Init => Counts
<1> SUFFICES ASSUME Init PROVE Counts
  OBVIOUS
<1>1. /\ count = [k \in Shard |-> Zero] /\ sums = Zero /\ at = 0 /\ pushed = 0
      /\ nOob = 0 /\ refused = 0 /\ main = "launch"
  BY DEF Init
<1>2. count \in CountType /\ \A k \in Shard : Ordered(count[k])
  BY <1>1, ZeroIs DEF CountType
<1>3. \A c \in Counters : sums[c] <= LoadedSum(count, c, at)
  BY <1>1, <1>2, ZeroIs, LoadedSumIs
<1> QED  BY <1>1, <1>2, <1>3, ZeroIs DEF Counts

LEMMA CountsKept ==
    ASSUME Control, Counts, UNCHANGED <<count, pushed>>, at' \in Nat,
           main' \in Setup => main \in Setup /\ UNCHANGED <<nOob, refused>>,
           \/ sums' = Zero
           \/ UNCHANGED <<sums, at>> /\ main \in {"row", "final"} /\ main' \in {"row", "final"}
    PROVE  Counts'
<1>1. sums' \in [Counters -> Nat]
  BY ZeroIs DEF Counts
<1>2. \A c \in Counters : sums'[c] <= LoadedSum(count', c, at')
  <2>1. CASE sums' = Zero
    <3>1. \A c \in Counters : LoadedSum(count, c, at') \in Nat /\ sums'[c] = 0
      BY <2>1, ZeroIs, LoadedSumIs DEF Counts
    <3> QED  BY <3>1
  <2>2. CASE UNCHANGED <<sums, at>>
    BY <2>2 DEF Counts
  <2> QED  BY <2>1, <2>2
<1> QED  BY <1>1, <1>2 DEF Counts

LEMMA CountsStep ==
    ASSUME Control, Submitting, Rings, Counts, Control', [Next]_vars
    PROVE  Counts'
<1> USE DEF Setup, Ending
<1>1. at \in Nat /\ at' \in Nat
  BY DEF Control
<1>2. ASSUME NEW k \in Shard, NEW pass0 \in BOOLEAN, NEW pass1 \in BOOLEAN,
             Handle(k, pass0, pass1)
      PROVE  Counts'
  <2> DEFINE S == CountedOf(Head(queue[k]).owner, pass0, pass1)
             r == Counted(count[k], S)
  <2>1. /\ count' = [count EXCEPT ![k] = r] /\ r \in [Counters -> Nat] /\ Ordered(r)
        /\ \A c \in Counters : r[c] = count[k][c] + IF c \in S THEN 1 ELSE 0
    BY <1>2, HandleIs
  <2>2. UNCHANGED <<main, at, sums>> /\ pushed' \in Nat
    BY <1>2 DEF Handle, Counts
  <2>3. main \notin Setup
    BY <1>2 DEF Handle, Rings
  <2> HIDE DEF r, S
  <2>4. count' \in CountType /\ \A j \in Shard : Ordered(count'[j])
    BY <2>1 DEF Counts, CountType
  <2>5. \A j \in Shard : \A c \in Counters : count[j][c] <= count'[j][c]
    <3>1. \A j \in Shard : \A c \in Counters : count[j][c] \in Nat
      BY DEF Counts, CountType
    <3>2. \A j \in Shard : count'[j] = IF j = k THEN r ELSE count[j]
      BY <2>1 DEF Counts, CountType
    <3>3. \A c \in Counters : count[k][c] <= r[c]
      BY <2>1, <3>1
    <3> QED  BY <3>1, <3>2, <3>3
  <2>6. ASSUME NEW c \in Counters PROVE sums[c] <= LoadedSum(count', c, at)
    <3>1. LoadedSum(count, c, at) <= LoadedSum(count', c, at)
      BY <1>1, <2>4, <2>5, LoadedSumGrows DEF Counts
    <3>2. LoadedSum(count, c, at) \in Nat /\ LoadedSum(count', c, at) \in Nat /\ sums[c] \in Nat
      BY <1>1, <2>4, LoadedSumIs DEF Counts
    <3>3. sums[c] <= LoadedSum(count, c, at)
      BY DEF Counts
    <3> QED  BY <3>1, <3>2, <3>3
  <2> QED  BY <2>2, <2>3, <2>4, <2>6 DEF Counts
<1>3. ASSUME Snapshot PROVE Counts'
  <2> DEFINE k == Loads[at][1]
             d == Loads[at][2]
  <2>1. k \in Shard /\ d \in Counters /\ at = 4 * k + Index(d)
    BY <1>1, <1>3, LoadIs DEF Snapshot
  <2>2. /\ sums' = [sums EXCEPT ![d] = @ + count[k][d]] /\ at' = at + 1
        /\ UNCHANGED <<main, count, pushed, nOob, refused>> /\ main \in {"row", "final"}
    BY <1>3 DEF Snapshot, shardVars, sourceVars
  <2> HIDE DEF k, d
  <2>3. \A j \in Shard : \A c \in Counters : count[j][c] \in Nat
    BY DEF Counts, CountType
  <2>4. sums' \in [Counters -> Nat]
        /\ \A c \in Counters : sums'[c] = sums[c] + IF c = d THEN count[k][c] ELSE 0
    BY <2>1, <2>2, <2>3 DEF Counts
  <2>5. ASSUME NEW c \in Counters PROVE sums'[c] <= LoadedSum(count', c, at')
    <3>1. LoadedSum(count, c, at') = LoadedSum(count, c, at) + IF c = d THEN count[k][c] ELSE 0
      BY <1>1, <2>1, <2>2, LoadedNext DEF Counts
    <3>2. LoadedSum(count, c, at) \in Nat /\ sums[c] \in Nat /\ count[k][c] \in Nat
      BY <1>1, <2>1, <2>3, LoadedSumIs DEF Counts
    <3>3. sums[c] <= LoadedSum(count, c, at) /\ count' = count
      BY <2>2 DEF Counts
    <3> QED  BY <2>4, <3>1, <3>2, <3>3
  <2> QED  BY <2>2, <2>4, <2>5 DEF Counts
<1>4. ASSUME ResetShard PROVE Counts'
  <2>1. count = [k \in Shard |-> Zero] /\ at \in Shard
    BY <1>1, <1>4, Sizes DEF ResetShard, Counts, Shard
  <2>2. count' = count
    BY <1>4, <2>1 DEF ResetShard
  <2>3. UNCHANGED <<sums, pushed, main, nOob, refused>> /\ main = "reset"
    BY <1>4 DEF ResetShard, sourceVars
  <2>4. sums' = Zero
    BY <2>3 DEF Counts
  <2> QED  BY <1>1, <2>2, <2>3, <2>4, CountsKept
<1>5. ASSUME ResetDone PROVE Counts'
  <2>1. /\ pushed' = pushed /\ nOob' = nOob /\ UNCHANGED <<count, sums, refused>>
        /\ main = "reset" /\ main' = "start"
    BY <1>5 DEF ResetDone, Counts
  <2>2. sums' = Zero
    BY <2>1 DEF Counts
  <2> QED  BY <1>1, <2>1, <2>2, CountsKept
<1>6. ASSUME \/ Launch \/ InitLibrary \/ StartSource \/ PrintRow \/ Leave
             \/ SnapshotDone \/ StopSynth \/ Join \/ JoinTimesOut \/ SetStopFlag
             \/ Synchronize \/ PushEof \/ JoinWorkers \/ ShutdownReturns \/ Signal
             \/ Poll \/ NoBatch \/ (\E events \in Batches : Submit(events))
             \/ SourceExit \/ TakeEvent \/ PushNext \/ SubmitReturns
             \/ (\E k \in Shard : TakeEof(k)) \/ KernelExit \/ UNCHANGED vars
      PROVE  Counts'
  <2>0. program \in Programs
    BY DEF Control
  <2>1. UNCHANGED <<count, pushed>>
    BY <1>6 DEF Launch, InitLibrary, StartSource, PrintRow, Leave,
       SnapshotDone, StopSynth, Join, JoinTimesOut, SetStopFlag, Synchronize, PushEof,
       JoinWorkers, ShutdownReturns, Signal, Poll, NoBatch, Submit, SourceExit, TakeEvent,
       PushNext, SubmitReturns, TakeEof, KernelExit, shardVars, vars
  <2>2. main' \in Setup => main \in Setup /\ UNCHANGED <<nOob, refused>>
    BY <1>6, <2>0, Kinds DEF Launch, InitLibrary, StartSource, PrintRow, Leave,
       SnapshotDone, StopSynth, Join, JoinTimesOut, SetStopFlag, Synchronize, PushEof,
       JoinWorkers, ShutdownReturns, Signal, Poll, NoBatch, Submit, SourceExit, TakeEvent,
       PushNext, SubmitReturns, TakeEof, KernelExit, sourceVars, vars, AfterSource, Control
  <2>3. \/ sums' = Zero
        \/ UNCHANGED <<sums, at>> /\ main \in {"row", "final"} /\ main' \in {"row", "final"}
    <3>1. CASE main \in {"row", "final"}
      BY <1>6, <3>1, <2>0, Kinds DEF Launch, InitLibrary, StartSource, PrintRow, Leave,
         SnapshotDone, StopSynth, Join, JoinTimesOut, SetStopFlag, Synchronize, PushEof,
         JoinWorkers, ShutdownReturns, Signal, Poll, NoBatch, Submit, SourceExit, TakeEvent,
         PushNext, SubmitReturns, TakeEof, KernelExit, vars, MainFree
    <3>2. CASE main \notin {"row", "final"}
      <4>1. sums = Zero
        BY <3>2 DEF Counts
      <4> QED
        BY <1>6, <4>1 DEF Launch, InitLibrary, StartSource, PrintRow, Leave,
           SnapshotDone, StopSynth, Join, JoinTimesOut, SetStopFlag, Synchronize, PushEof,
           JoinWorkers, ShutdownReturns, Signal, Poll, NoBatch, Submit, SourceExit, TakeEvent,
           PushNext, SubmitReturns, TakeEof, KernelExit, vars
    <3> QED  BY <3>1, <3>2
  <2> QED  BY <1>1, <2>1, <2>2, <2>3, CountsKept
<1> QED
  BY Steps1, <1>2, <1>3, <1>4, <1>5, <1>6 DEF RunningStep, MainStep, SourceStep, WorkerStep

-----------------------------------------------------------------------------
(* The books: where every admitted event is.                               *)

Marked(q, V) == Cardinality({i \in 1 .. Len(q) : q[i] \in V})
QueuedOf(rings, V) == SumFunctionOnSet([k \in Shard |-> Marked(rings[k], V)], Shard)
EventsOf(adm) == SumFunctionOnSet(adm, Column)
HalosOf(adm) == SumFunctionOnSet([x \in Column |-> adm[x] * (Len(Reached(x)) - 1)], Column)
Owned == [column : Column, owner : {TRUE}]
Haloed == [column : Column, owner : {FALSE}]

\* Of the event in hand: does its owner still wait for it, and is there one at all.
OwnerLeft == IF Has(to, OwnerOf(Head(batch))) THEN 1 ELSE 0
InHand == IF to = << >> THEN 0 ELSE 1

\* An admitted event is counted, or in a ring, or in hand, at its owner and at the others.
Books ==
    /\ TotalOf(count, "owner") + QueuedOf(queue, Owned) + OwnerLeft = EventsOf(admitted)
    /\ TotalOf(count, "halo") + QueuedOf(queue, Haloed) + (Len(to) - OwnerLeft) = HalosOf(admitted)
    /\ nOob = refused
    /\ OnGpu => pushed = TotalOf(count, "pass1")
    /\ IF Source = "caller" THEN eventsIn + InHand = EventsOf(admitted) + refused + Len(batch)
       ELSE eventsIn + accepted + InHand = EventsOf(admitted)

LEMMA MarkedIs ==
    ASSUME NEW S, NEW q \in Seq(S), NEW V
    PROVE  IsFiniteSet({i \in 1 .. Len(q) : q[i] \in V}) /\ Marked(q, V) \in Nat
<1> DEFINE A == {i \in 1 .. Len(q) : q[i] \in V}
<1>1. Len(q) \in Nat
  OBVIOUS
<1>2. IsFiniteSet(1 .. Len(q))
  BY <1>1, FS_Interval
<1>3. A \in SUBSET (1 .. Len(q))
  OBVIOUS
<1>4. IsFiniteSet(A)
  <2> HIDE DEF A
  <2> QED  BY <1>2, <1>3, FS_Subset
<1>5. Cardinality(A) \in Nat
  <2> HIDE DEF A
  <2> QED  BY <1>4, FS_CardinalityType
<1> QED  BY <1>4, <1>5 DEF Marked

LEMMA MarkedEmpty == \A V : Marked(<< >>, V) = 0
<1> SUFFICES ASSUME NEW V PROVE Marked(<< >>, V) = 0
  OBVIOUS
<1>1. {i \in 1 .. Len(<< >>) : << >>[i] \in V} = {}
  OBVIOUS
<1> QED  BY <1>1, FS_EmptySet DEF Marked

\* One element is added at the end.
AddedTo(q, e, p) == p = Append(q, e)

LEMMA MarkedAppend ==
    ASSUME NEW S, NEW q, NEW e, NEW p, NEW V, q \in Seq(S), e \in S, AddedTo(q, e, p)
    PROVE  Marked(p, V) = Marked(q, V) + IF e \in V THEN 1 ELSE 0
<1> DEFINE A == {i \in 1 .. Len(q) : q[i] \in V}
           B == {i \in 1 .. Len(p) : p[i] \in V}
           n == Len(q) + 1
<1>1. Len(q) \in Nat /\ Len(p) = n /\ p[n] = e /\ \A i \in 1 .. Len(q) : p[i] = q[i]
  BY DEF AddedTo
<1>2. IsFiniteSet(A) /\ Cardinality(A) \in Nat
  BY MarkedIs DEF Marked
<1>5. Marked(q, V) = Cardinality(A) /\ Marked(p, V) = Cardinality(B)
  BY DEF Marked
<1>3. CASE e \in V
  <2>1. B = A \cup {n} /\ n \notin A
    BY <1>1, <1>3
  <2>2. Cardinality(A \cup {n}) = Cardinality(A) + 1
    <3> HIDE DEF A, n
    <3> QED  BY <1>2, <2>1, FS_AddElement
  <2> HIDE DEF A, B, n
  <2> QED  BY <1>3, <1>5, <2>1, <2>2
<1>4. CASE e \notin V
  <2>1. B = A
    BY <1>1, <1>4
  <2> HIDE DEF A, B, n
  <2> QED  BY <1>2, <1>4, <1>5, <2>1
<1> QED  BY <1>3, <1>4

LEMMA MarkedTail ==
    ASSUME NEW S, NEW q \in Seq(S), q # << >>, NEW V, NEW p, p = Tail(q)
    PROVE  Marked(q, V) = Marked(p, V) + IF Head(q) \in V THEN 1 ELSE 0
<1> DEFINE A == {i \in 1 .. Len(q) : q[i] \in V}
           B == {i \in 1 .. Len(p) : p[i] \in V}
           C == A \ {1}
           f == [i \in B |-> i + 1]
<1>1. /\ Len(q) \in Nat \ {0} /\ Len(p) = Len(q) - 1 /\ p \in Seq(S)
      /\ \A i \in 1 .. Len(p) : p[i] = q[i + 1]
      /\ Head(q) = q[1]
  OBVIOUS
<1>2. IsFiniteSet(A) /\ Cardinality(A) \in Nat
  BY MarkedIs DEF Marked
<1>3. IsFiniteSet(B) /\ Cardinality(B) \in Nat
  <2>1. p \in Seq(S)
    BY <1>1
  <2>2. IsFiniteSet(B) /\ Marked(p, V) \in Nat
    BY <2>1, MarkedIs
  <2> QED  BY <2>2 DEF Marked
<1>4. \A i \in B : i + 1 \in C
  BY <1>1
<1>5. \A j \in C : j - 1 \in B /\ (j - 1) + 1 = j
  BY <1>1
<1>6. f \in Bijection(B, C)
  <2>0. B \subseteq Int
    OBVIOUS
  <2>1. f \in [B -> C]
    BY <1>4
  <2>2. \A a, b \in B : f[a] = f[b] => a = b
    <3> HIDE DEF B
    <3> QED  BY <2>0
  <2>3. \A j \in C : \E i \in B : f[i] = j
    <3> SUFFICES ASSUME NEW j \in C PROVE \E i \in B : f[i] = j
      OBVIOUS
    <3>1. j - 1 \in B /\ f[j - 1] = j
      BY <1>5
    <3> QED  BY <3>1
  <2> HIDE DEF B, C, f
  <2> QED  BY <2>1, <2>2, <2>3 DEF Bijection, Injection, Surjection, IsInjective
<1>7. Cardinality(C) = Cardinality(B)
  <2> HIDE DEF B, C, f
  <2>1. ExistsBijection(B, C)
    BY <1>6 DEF ExistsBijection
  <2> QED  BY <1>3, <2>1, FS_Bijection
<1>10. Marked(q, V) = Cardinality(A) /\ Marked(p, V) = Cardinality(B)
  BY DEF Marked
<1>8. CASE Head(q) \in V
  <2>1. 1 \in A
    BY <1>1, <1>8
  <2>2. Cardinality(C) = Cardinality(A) - 1
    <3> HIDE DEF A
    <3> QED  BY <1>2, <2>1, FS_RemoveElement
  <2> HIDE DEF A, B, C
  <2> QED  BY <1>2, <1>3, <1>7, <1>8, <1>10, <2>2
<1>9. CASE Head(q) \notin V
  <2>1. C = A
    BY <1>1, <1>9
  <2> HIDE DEF A, B, C
  <2> QED  BY <1>2, <1>3, <1>7, <1>9, <1>10, <2>1
<1> QED  BY <1>8, <1>9

\* The type of the rings.
Entry == Entries \cup {Eof}
RingType == Seq(Entry)
RingsType == [Shard -> RingType]

LEMMA QueuedIs ==
    ASSUME NEW rings, rings \in RingsType, NEW V
    PROVE  QueuedOf(rings, V) \in Int
<1> DEFINE f == [k \in Shard |-> Marked(rings[k], V)]
<1>1. \A k \in Shard : rings[k] \in Seq(Entry)
  BY DEF RingsType, RingType
<1>2. \A k \in Shard : f[k] \in Nat
  BY <1>1, MarkedIs
<1> HIDE DEF f
<1>3. IntOn(f, Shard)
  BY <1>2 DEF IntOn
<1>4. SumFunctionOnSet(f, Shard) \in Int
  BY <1>3, FiniteSets, SumOfSplit
<1> QED  BY <1>4 DEF QueuedOf, f

\* One ring becomes q.
RingSet(rings, k, q, after) == after = [rings EXCEPT ![k] = q]

LEMMA QueuedUpdate ==
    ASSUME NEW rings, NEW k \in Shard, NEW q, NEW after, NEW V,
           rings \in RingsType, q \in RingType, RingSet(rings, k, q, after)
    PROVE  QueuedOf(after, V) = (QueuedOf(rings, V) - Marked(rings[k], V)) + Marked(q, V)
<1> DEFINE f == [j \in Shard |-> Marked(rings[j], V)]
           h == [j \in Shard |-> Marked(after[j], V)]
<1>0. \A j \in Shard : rings[j] \in Seq(Entry) /\ after[j] \in Seq(Entry)
  BY DEF RingsType, RingType, RingSet
<1>1. \A j \in Shard : f[j] \in Nat
  BY <1>0, MarkedIs
<1>2. \A j \in Shard : h[j] \in Nat
  BY <1>0, MarkedIs
<1>3. \A j \in Shard : j # k => h[j] = f[j]
  BY DEF RingsType, RingSet
<1>4. f[k] = Marked(rings[k], V) /\ h[k] = Marked(q, V)
  BY DEF RingsType, RingSet
<1>5. SumFunctionOnSet(h, Shard) = (SumFunctionOnSet(f, Shard) - f[k]) + h[k]
  <2> HIDE DEF f, h
  <2>1. IntOn(f, Shard) /\ IntOn(h, Shard)
    BY <1>1, <1>2 DEF IntOn
  <2> QED  BY <1>3, <2>1, FiniteSets, SumOfUpdate
<1> QED  BY <1>4, <1>5 DEF QueuedOf

LEMMA TotalUpdate ==
    ASSUME NEW cnt \in CountType, NEW k \in Shard, NEW r \in [Counters -> Nat],
           NEW after, after = [cnt EXCEPT ![k] = r], NEW c \in Counters
    PROVE  TotalOf(after, c) = (TotalOf(cnt, c) - cnt[k][c]) + r[c]
<1> DEFINE f == [j \in Shard |-> cnt[j][c]]
           h == [j \in Shard |-> after[j][c]]
<1>1. \A j \in Shard : f[j] \in Int
  BY DEF CountType
<1>2. \A j \in Shard : h[j] \in Int
  BY DEF CountType
<1>3. \A j \in Shard : j # k => h[j] = f[j]
  BY DEF CountType
<1>4. f[k] = cnt[k][c] /\ h[k] = r[c]
  BY DEF CountType
<1>5. SumFunctionOnSet(h, Shard) = (SumFunctionOnSet(f, Shard) - f[k]) + h[k]
  <2> HIDE DEF f, h
  <2>1. IntOn(f, Shard) /\ IntOn(h, Shard)
    BY <1>1, <1>2 DEF IntOn
  <2> QED  BY <1>3, <2>1, FiniteSets, SumOfUpdate
<1> QED  BY <1>4, <1>5 DEF TotalOf

LEMMA EventsAre ==
    ASSUME NEW adm \in [Column -> Nat]
    PROVE  EventsOf(adm) \in Int /\ HalosOf(adm) \in Int
<1> DEFINE h == [x \in Column |-> adm[x] * (Len(Reached(x)) - 1)]
<1>1. IntOn(adm, Column)
  BY DEF IntOn
<1>2. \A x \in Column : Len(Reached(x)) \in Nat
  BY ReachedIs
<1>3. ASSUME NEW x \in Column PROVE h[x] \in Int
  <2>1. adm[x] \in Int /\ Len(Reached(x)) - 1 \in Int
    BY <1>2
  <2> QED  BY <2>1
<1>4. IntOn(h, Column)
  BY <1>3 DEF IntOn
<1>5. SumFunctionOnSet(adm, Column) \in Int
  BY <1>1, FiniteSets, SumOfSplit
<1>6. SumFunctionOnSet(h, Column) \in Int
  <2> HIDE DEF h
  <2> QED  BY <1>4, FiniteSets, SumOfSplit
<1> QED  BY <1>5, <1>6 DEF EventsOf, HalosOf

LEMMA OneMore ==
    ASSUME NEW a \in Int, NEW m \in Int
    PROVE  (a + 1) * m = a * m + m
OBVIOUS

LEMMA Admit ==
    ASSUME NEW adm \in [Column -> Nat], NEW x \in Column,
           NEW after \in [Column -> Nat], after[x] = adm[x] + 1,
           \A y \in Column : y # x => after[y] = adm[y]
    PROVE  /\ EventsOf(after) = EventsOf(adm) + 1
           /\ HalosOf(after) = HalosOf(adm) + (Len(Reached(x)) - 1)
<1> DEFINE f == [y \in Column |-> adm[y] * (Len(Reached(y)) - 1)]
           h == [y \in Column |-> after[y] * (Len(Reached(y)) - 1)]
           m == Len(Reached(x)) - 1
<1>1. \A y \in Column : Len(Reached(y)) \in Nat
  BY ReachedIs
<1>2. after \in [Column -> Nat] /\ after[x] = adm[x] + 1
      /\ \A y \in Column : y # x => after[y] = adm[y]
  OBVIOUS
<1>3. ASSUME NEW y \in Column PROVE f[y] \in Int /\ h[y] \in Int
  <2>1. adm[y] \in Int /\ after[y] \in Int /\ Len(Reached(y)) - 1 \in Int
    BY <1>1, <1>2
  <2> QED  BY <2>1
<1>4. f[x] = adm[x] * m /\ h[x] = (adm[x] + 1) * m
  BY <1>2
<1>5. m \in Int /\ adm[x] \in Int /\ adm[x] * m \in Int
  BY <1>1
<1>6. h[x] = f[x] + m
  <2> HIDE DEF f, h, m
  <2> QED  BY <1>4, <1>5, OneMore
<1>7. \A y \in Column : y # x => h[y] = f[y]
  BY <1>2
<1>8. /\ IntOn(adm, Column) /\ IntOn(after, Column)
      /\ IntOn(f, Column) /\ IntOn(h, Column)
  <2> HIDE DEF f, h
  <2> QED  BY <1>2, <1>3 DEF IntOn
<1>9. SumFunctionOnSet(after, Column) = (SumFunctionOnSet(adm, Column) - adm[x]) + after[x]
  <2> HIDE DEF f, h, m
  <2> QED  BY <1>2, <1>8, FiniteSets, SumOfUpdate
<1>10. SumFunctionOnSet(h, Column) = (SumFunctionOnSet(f, Column) - f[x]) + h[x]
  <2> HIDE DEF f, h
  <2> QED  BY <1>7, <1>8, FiniteSets, SumOfUpdate
<1>11. SumFunctionOnSet(adm, Column) \in Int /\ SumFunctionOnSet(f, Column) \in Int
  <2> HIDE DEF f
  <2> QED  BY <1>8, FiniteSets, SumOfSplit
<1>12. EventsOf(after) = EventsOf(adm) + 1
  BY <1>2, <1>9, <1>11 DEF EventsOf
<1>13. HalosOf(after) = HalosOf(adm) + m
  <2>1. HalosOf(after) = SumFunctionOnSet(h, Column) /\ HalosOf(adm) = SumFunctionOnSet(f, Column)
    BY DEF HalosOf
  <2>2. f[x] \in Int
    BY <1>3
  <2> HIDE DEF f, h, m
  <2> QED  BY <1>5, <1>6, <1>10, <1>11, <2>1, <2>2
<1> QED  BY <1>12, <1>13

-----------------------------------------------------------------------------
(* The books stay right.                                                   *)

LEMMA BooksInit == Init => Books
<1> SUFFICES ASSUME Init PROVE Books
  OBVIOUS
<1>1. /\ queue = [k \in Shard |-> << >>] /\ count = [k \in Shard |-> Zero]
      /\ admitted = [x \in Column |-> 0] /\ batch = << >> /\ to = << >>
      /\ pushed = 0 /\ nOob = 0 /\ refused = 0 /\ accepted = 0 /\ eventsIn = 0
  BY DEF Init
<1>2. \A c \in Counters : TotalOf(count, c) = 0
  <2> SUFFICES ASSUME NEW c \in Counters PROVE TotalOf(count, c) = 0
    OBVIOUS
  <2> DEFINE f == [k \in Shard |-> count[k][c]]
  <2>1. \A k \in Shard : f[k] = 0
    BY <1>1, ZeroIs
  <2>2. SumFunctionOnSet(f, Shard) = 0
    <3> HIDE DEF f
    <3> QED  BY <2>1, FiniteSets, SumOfZeros
  <2> QED  BY <2>2 DEF TotalOf
<1>3. \A V : QueuedOf(queue, V) = 0
  <2> SUFFICES ASSUME NEW V PROVE QueuedOf(queue, V) = 0
    OBVIOUS
  <2> DEFINE f == [k \in Shard |-> Marked(queue[k], V)]
  <2>1. \A k \in Shard : f[k] = 0
    BY <1>1, MarkedEmpty
  <2>2. SumFunctionOnSet(f, Shard) = 0
    <3> HIDE DEF f
    <3> QED  BY <2>1, FiniteSets, SumOfZeros
  <2> QED  BY <2>2 DEF QueuedOf
<1>4. EventsOf(admitted) = 0
  <2>1. \A x \in Column : admitted[x] = 0
    BY <1>1
  <2> QED  BY <2>1, FiniteSets, SumOfZeros DEF EventsOf
<1>5. HalosOf(admitted) = 0
  <2> DEFINE f == [x \in Column |-> admitted[x] * (Len(Reached(x)) - 1)]
  <2>1. \A x \in Column : Len(Reached(x)) \in Nat
    BY ReachedIs
  <2>2. \A x \in Column : f[x] = 0
    BY <1>1, <2>1
  <2>3. SumFunctionOnSet(f, Column) = 0
    <3> HIDE DEF f
    <3> QED  BY <2>2, FiniteSets, SumOfZeros
  <2> QED  BY <2>3 DEF HalosOf
<1>6. OwnerLeft = 0 /\ InHand = 0 /\ Len(to) = 0 /\ Len(batch) = 0
  BY <1>1 DEF OwnerLeft, InHand, Has
<1>7. "owner" \in Counters /\ "halo" \in Counters /\ "pass1" \in Counters
  BY DEF Counters
<1> QED  BY <1>1, <1>2, <1>3, <1>4, <1>5, <1>6, <1>7 DEF Books

\* The steps that move no event.
LEMMA BooksKept ==
    ASSUME Books, UNCHANGED <<program, queue, to, batch, accepted, eventsIn, admitted>>,
           \/ UNCHANGED <<count, pushed, nOob, refused>>
           \/ UNCHANGED <<count, refused>> /\ pushed' = pushed /\ nOob' = nOob
    PROVE  Books'
BY DEF Books, OwnerLeft, InHand, Source, OnGpu, Runner, Has

\* Facts about the numbers in the books.
LEMMA BooksNumbers ==
    ASSUME Submitting, Rings, Counts
    PROVE  /\ \A c \in Counters : TotalOf(count, c) \in Int
           /\ \A V : QueuedOf(queue, V) \in Int
           /\ EventsOf(admitted) \in Int /\ HalosOf(admitted) \in Int
           /\ OwnerLeft \in {0, 1} /\ InHand \in {0, 1} /\ Len(to) \in Nat /\ Len(batch) \in Nat
<1>1. \A c \in Counters : TotalOf(count, c) \in Int
  <2> SUFFICES ASSUME NEW c \in Counters PROVE TotalOf(count, c) \in Int
    OBVIOUS
  <2>1. TotalOf(count, c) \in Nat
    BY LoadedSumIs DEF Counts
  <2> QED  BY <2>1
<1>2. \A V : QueuedOf(queue, V) \in Int
  BY QueuedIs DEF Rings, RingsType, RingType, Entry
<1>3. EventsOf(admitted) \in Int /\ HalosOf(admitted) \in Int
  BY EventsAre DEF Submitting
<1> QED  BY <1>1, <1>2, <1>3 DEF Submitting, OwnerLeft, InHand

\* An event is taken from the batch for the rings it reaches.
LEMMA BooksTake ==
    ASSUME Control, Submitting, Rings, Counts, Books, TakeEvent
    PROVE  Books'
<1> DEFINE x == Head(batch)
<1>1. /\ source = "submit" /\ to = << >> /\ batch # << >>
      /\ UNCHANGED <<program, queue, count, pushed, accepted, eventsIn>>
  BY DEF TakeEvent, shardVars
<1>2. /\ \A c \in Counters : TotalOf(count, c) \in Int
      /\ \A V : QueuedOf(queue, V) \in Int
      /\ EventsOf(admitted) \in Int /\ HalosOf(admitted) \in Int
      /\ eventsIn \in Int /\ accepted \in Int /\ refused \in Int /\ nOob \in Int
      /\ Len(batch) \in Nat
  BY BooksNumbers DEF Submitting
<1>3. OwnerLeft = 0 /\ InHand = 0 /\ Len(to) = 0
  BY <1>1 DEF OwnerLeft, InHand, Has
<1>4. CASE x \in Column
  <2>1. /\ to' = Reached(x) /\ admitted' = [admitted EXCEPT ![x] = @ + 1]
        /\ UNCHANGED <<batch, nOob, refused>>
    BY <1>4 DEF TakeEvent, InGrid
  <2>2. Reached(x) \in Seq(Shard) /\ Has(Reached(x), OwnerOf(x)) /\ Len(Reached(x)) \in Nat
    BY <1>4, ReachedIs
  <2>3. Reached(x) # << >>
    BY <2>2 DEF Has
  <2>4. OwnerLeft' = 1 /\ InHand' = 1 /\ Len(to') = Len(Reached(x))
    BY <2>1, <2>2, <2>3 DEF OwnerLeft, InHand, Has, OwnerOf
  <2>5. /\ admitted' \in [Column -> Nat] /\ admitted'[x] = admitted[x] + 1
        /\ \A y \in Column : y # x => admitted'[y] = admitted[y]
        /\ admitted \in [Column -> Nat]
    BY <1>4, <2>1 DEF Submitting
  <2>6. /\ EventsOf(admitted') = EventsOf(admitted) + 1
        /\ HalosOf(admitted') = HalosOf(admitted) + (Len(Reached(x)) - 1)
    <3> HIDE DEF x
    <3> QED  BY <1>4, <2>5, Admit
  <2> HIDE DEF x
  <2>7. "owner" \in Counters /\ "halo" \in Counters
    BY DEF Counters
  <2>8. TotalOf(count', "owner") + QueuedOf(queue', Owned) + OwnerLeft' = EventsOf(admitted')
    BY <1>1, <1>2, <1>3, <2>4, <2>6, <2>7 DEF Books
  <2>9. TotalOf(count', "halo") + QueuedOf(queue', Haloed) + (Len(to') - OwnerLeft')
          = HalosOf(admitted')
    BY <1>1, <1>2, <1>3, <2>2, <2>4, <2>6, <2>7 DEF Books
  <2>10. nOob' = refused' /\ (OnGpu' => pushed' = TotalOf(count', "pass1"))
    BY <1>1, <2>1 DEF Books, OnGpu, Runner
  <2>11. IF Source' = "caller"
         THEN eventsIn' + InHand' = EventsOf(admitted') + refused' + Len(batch')
         ELSE eventsIn' + accepted' + InHand' = EventsOf(admitted')
    <3>1. Source' = Source
      BY <1>1 DEF Source
    <3>2. CASE Source = "caller"
      BY <1>1, <1>2, <1>3, <2>1, <2>4, <2>6, <3>1, <3>2 DEF Books
    <3>3. CASE Source # "caller"
      BY <1>1, <1>2, <1>3, <2>1, <2>4, <2>6, <3>1, <3>3 DEF Books
    <3> QED  BY <3>1, <3>2, <3>3
  <2> QED  BY <2>8, <2>9, <2>10, <2>11 DEF Books
<1>5. CASE x \notin Column
  <2>1. /\ nOob' = nOob + 1 /\ refused' = refused + 1 /\ batch' = Tail(batch)
        /\ UNCHANGED <<to, admitted>>
    BY <1>5 DEF TakeEvent, InGrid
  <2>2. Len(batch') = Len(batch) - 1
    BY <1>1, <2>1 DEF Submitting
  <2>3. OwnerLeft' = 0 /\ InHand' = 0 /\ Len(to') = 0
    BY <1>1, <2>1 DEF OwnerLeft, InHand, Has
  <2>4. IF Source' = "caller"
        THEN eventsIn' + InHand' = EventsOf(admitted') + refused' + Len(batch')
        ELSE eventsIn' + accepted' + InHand' = EventsOf(admitted')
    <3>1. Source' = Source
      BY <1>1 DEF Source
    <3>2. CASE Source = "caller"
      BY <1>1, <1>2, <1>3, <2>1, <2>2, <2>3, <3>1, <3>2 DEF Books
    <3>3. CASE Source # "caller"
      BY <1>1, <1>2, <1>3, <2>1, <2>2, <2>3, <3>1, <3>3 DEF Books
    <3> QED  BY <3>1, <3>2, <3>3
  <2>5. nOob' = refused' /\ (OnGpu' => pushed' = TotalOf(count', "pass1"))
    BY <1>1, <2>1 DEF Books, OnGpu, Runner
  <2>6. /\ TotalOf(count', "owner") + QueuedOf(queue', Owned) + OwnerLeft' = EventsOf(admitted')
        /\ TotalOf(count', "halo") + QueuedOf(queue', Haloed) + (Len(to') - OwnerLeft')
             = HalosOf(admitted')
    BY <1>1, <1>3, <2>1, <2>3 DEF Books
  <2> QED  BY <2>4, <2>5, <2>6 DEF Books
<1> QED  BY <1>4, <1>5

LEMMA EntryIs ==
    /\ \A x \in Column : \A b \in BOOLEAN : [column |-> x, owner |-> b] \in Entries
    /\ \A e \in Entries : e.owner \in BOOLEAN
                          /\ (e \in Owned <=> e.owner) /\ (e \in Haloed <=> ~e.owner)
    /\ Eof \notin Owned /\ Eof \notin Haloed
<1>1. \A x \in Column : x # -1
  BY DEF Column
<1>2. Eof.column = -1
  BY DEF Eof
<1>3. \A e \in Owned \cup Haloed : e.column \in Column
  BY DEF Owned, Haloed
<1>4. Eof \notin Owned /\ Eof \notin Haloed
  BY <1>1, <1>2, <1>3
<1>5. \A x \in Column : \A b \in BOOLEAN : [column |-> x, owner |-> b] \in Entries
  BY DEF Entries
<1>6. \A e \in Entries : e.owner \in BOOLEAN
  BY DEF Entries
<1>7. \A e \in Entries : (e \in Owned <=> e.owner) /\ (e \in Haloed <=> ~e.owner)
  <2> SUFFICES ASSUME NEW x \in Column, NEW b \in BOOLEAN, NEW e, e = [column |-> x, owner |-> b]
               PROVE  (e \in Owned <=> e.owner) /\ (e \in Haloed <=> ~e.owner)
    BY DEF Entries
  <2>1. e.owner = b
    OBVIOUS
  <2>2. CASE b = TRUE
    BY <2>1, <2>2 DEF Owned, Haloed
  <2>3. CASE b = FALSE
    BY <2>1, <2>3 DEF Owned, Haloed
  <2> QED  BY <2>2, <2>3
<1> QED  BY <1>4, <1>5, <1>6, <1>7

LEMMA HasTail ==
    ASSUME NEW S, NEW s \in Seq(S), s # << >>, NEW x, Distinct(s), NEW p, p = Tail(s)
    PROVE  /\ Has(s, x) <=> Head(s) = x \/ Has(p, x)
           /\ ~(Head(s) = x /\ Has(p, x))
<1>1. /\ Len(s) \in Nat \ {0} /\ Len(p) = Len(s) - 1
      /\ \A i \in 1 .. Len(p) : p[i] = s[i + 1] /\ i + 1 \in 1 .. Len(s) /\ i + 1 # 1
      /\ Head(s) = s[1] /\ 1 \in 1 .. Len(s)
      /\ \A i \in 1 .. Len(s) : i = 1 \/ (i - 1 \in 1 .. Len(p) /\ p[i - 1] = s[i])
  OBVIOUS
<1>2. Has(s, x) => Head(s) = x \/ Has(p, x)
  BY <1>1 DEF Has
<1>3. Head(s) = x \/ Has(p, x) => Has(s, x)
  BY <1>1 DEF Has
<1>4. ~(Head(s) = x /\ Has(p, x))
  BY <1>1 DEF Has, Distinct
<1> QED  BY <1>2, <1>3, <1>4

\* An event goes into the next ring it reaches.
LEMMA BooksPush ==
    ASSUME Control, Submitting, Rings, Counts, Books, PushNext
    PROVE  Books'
<1> DEFINE x == Head(batch)
           k == Head(to)
           b == (k = OwnerOf(x))
           e == [column |-> x, owner |-> b]
           q == Append(queue[k], e)
           one == IF b THEN 1 ELSE 0
<1>1. /\ to # << >> /\ queue' = [queue EXCEPT ![k] = q] /\ to' = Tail(to)
      /\ UNCHANGED <<program, count, pushed, eventsIn, admitted, refused, nOob>>
      /\ IF Len(to) = 1
         THEN batch' = Tail(batch) /\ accepted' = accepted + 1
         ELSE UNCHANGED <<batch, accepted>>
  BY DEF PushNext, shardVars
<1>2. /\ \A c \in Counters : TotalOf(count, c) \in Int
      /\ \A V : QueuedOf(queue, V) \in Int
      /\ EventsOf(admitted) \in Int /\ HalosOf(admitted) \in Int
      /\ eventsIn \in Int /\ accepted \in Int /\ refused \in Int /\ nOob \in Int
      /\ Len(batch) \in Nat /\ Len(to) \in Nat
  BY BooksNumbers DEF Submitting
<1>3. x \in Column /\ k \in Shard /\ batch # << >>
      /\ batch \in Seq(Column \cup {Width}) /\ to \in Seq(Shard) /\ Distinct(to)
  BY <1>1 DEF Submitting
<1>4. b \in BOOLEAN
  OBVIOUS
<1>5. e \in Entries /\ e.owner = b
  BY <1>3, <1>4, EntryIs
<1>6. queue \in RingsType
  BY DEF Rings, RingsType, RingType, Entry
<1>7. queue[k] \in Seq(Entry) /\ e \in Entry /\ q \in Seq(Entry)
  BY <1>3, <1>5, <1>6 DEF RingsType, RingType, Entry
<1>21. q \in RingType
  BY <1>7 DEF RingType
<1>8. (e \in Owned <=> b) /\ (e \in Haloed <=> ~b)
  BY <1>5, EntryIs
<1> HIDE DEF x, k, b, e, q, one
<1>9. \A V : Marked(q, V) = Marked(queue[k], V) + IF e \in V THEN 1 ELSE 0
  <2> SUFFICES ASSUME NEW V PROVE Marked(q, V) = Marked(queue[k], V) + IF e \in V THEN 1 ELSE 0
    OBVIOUS
  <2>1. AddedTo(queue[k], e, q)
    BY DEF AddedTo, q
  <2> QED  BY <1>7, <2>1, MarkedAppend
<1>10. \A V : Marked(queue[k], V) \in Nat
  BY <1>7, MarkedIs
<1>11. \A V : QueuedOf(queue', V) = (QueuedOf(queue, V) - Marked(queue[k], V)) + Marked(q, V)
  <2>1. RingSet(queue, k, q, queue')
    BY <1>1 DEF RingSet
  <2> QED  BY <1>3, <1>6, <1>21, <2>1, QueuedUpdate
<1>12. \A V : QueuedOf(queue', V) = QueuedOf(queue, V) + IF e \in V THEN 1 ELSE 0
  BY <1>2, <1>9, <1>10, <1>11
<1>13. /\ QueuedOf(queue', Owned) = QueuedOf(queue, Owned) + one
       /\ QueuedOf(queue', Haloed) = QueuedOf(queue, Haloed) + (1 - one)
  BY <1>2, <1>8, <1>12 DEF one
<1>14. Len(to') = Len(to) - 1 /\ Len(to) >= 1 /\ (Len(to) = 1 <=> to' = << >>)
  <2>1. to \in Seq(Shard) /\ to # << >> /\ to' = Tail(to)
    BY <1>1, <1>3
  <2>2. to' \in Seq(Shard) /\ Len(to') = Len(to) - 1 /\ Len(to) \in Nat /\ Len(to) >= 1
    BY <2>1
  <2> QED  BY <2>2
<1>15. OwnerLeft = OwnerLeft' + one /\ OwnerLeft' \in {0, 1}
  <2>1. (Has(to, OwnerOf(x)) <=> k = OwnerOf(x) \/ Has(to', OwnerOf(x)))
        /\ ~(k = OwnerOf(x) /\ Has(to', OwnerOf(x)))
    BY <1>1, <1>3, HasTail DEF k
  <2>2. Has(to', OwnerOf(x)) => Len(to) # 1
    BY <1>14 DEF Has
  <2>3. OwnerLeft' = IF Has(to', OwnerOf(x)) THEN 1 ELSE 0
    <3>1. CASE Len(to) = 1
      BY <1>14, <2>2, <3>1 DEF OwnerLeft, Has
    <3>2. CASE Len(to) # 1
      BY <1>1, <3>2 DEF OwnerLeft, Has, x, OwnerOf
    <3> QED  BY <3>1, <3>2
  <2>4. OwnerLeft = IF Has(to, OwnerOf(x)) THEN 1 ELSE 0
    BY DEF OwnerLeft, x
  <2> QED  BY <2>1, <2>3, <2>4 DEF b, one
<1>16. "owner" \in Counters /\ "halo" \in Counters /\ one \in {0, 1}
  BY DEF Counters, one
<1>17. TotalOf(count', "owner") + QueuedOf(queue', Owned) + OwnerLeft' = EventsOf(admitted')
  <2>1. TotalOf(count, "owner") + QueuedOf(queue, Owned) + OwnerLeft = EventsOf(admitted)
    BY DEF Books
  <2>2. TotalOf(count, "owner") \in Int /\ QueuedOf(queue, Owned) \in Int
    BY <1>2, <1>16
  <2>3. count' = count /\ admitted' = admitted
    BY <1>1
  <2> QED  BY <1>13, <1>15, <1>16, <2>1, <2>2, <2>3
<1>18. TotalOf(count', "halo") + QueuedOf(queue', Haloed) + (Len(to') - OwnerLeft')
          = HalosOf(admitted')
  <2>1. TotalOf(count, "halo") + QueuedOf(queue, Haloed) + (Len(to) - OwnerLeft) = HalosOf(admitted)
    BY DEF Books
  <2>2. TotalOf(count, "halo") \in Int /\ QueuedOf(queue, Haloed) \in Int /\ Len(to) \in Nat
    BY <1>2, <1>16
  <2>3. count' = count /\ admitted' = admitted
    BY <1>1
  <2> QED  BY <1>13, <1>14, <1>15, <1>16, <2>1, <2>2, <2>3
<1>19. IF Source' = "caller"
       THEN eventsIn' + InHand' = EventsOf(admitted') + refused' + Len(batch')
       ELSE eventsIn' + accepted' + InHand' = EventsOf(admitted')
  <2>1. Source' = Source
    BY <1>1 DEF Source
  <2>2. InHand = 1 /\ InHand' = IF Len(to) = 1 THEN 0 ELSE 1
    BY <1>1, <1>14 DEF InHand
  <2>3. Len(batch') = IF Len(to) = 1 THEN Len(batch) - 1 ELSE Len(batch)
    BY <1>1, <1>3
  <2>4. accepted' = IF Len(to) = 1 THEN accepted + 1 ELSE accepted
    BY <1>1
  <2>7. UNCHANGED <<eventsIn, admitted, refused>>
    BY <1>1
  <2>8. EventsOf(admitted) \in Int /\ eventsIn \in Int /\ accepted \in Int /\ refused \in Int
        /\ Len(batch) \in Nat
    BY <1>2
  <2>5. CASE Source = "caller"
    <3>1. eventsIn + InHand = EventsOf(admitted) + refused + Len(batch)
      BY <2>5 DEF Books
    <3> QED  BY <2>1, <2>2, <2>3, <2>5, <2>7, <2>8, <3>1
  <2>6. CASE Source # "caller"
    <3>1. eventsIn + accepted + InHand = EventsOf(admitted)
      BY <2>6 DEF Books
    <3> QED  BY <2>1, <2>2, <2>4, <2>6, <2>7, <2>8, <3>1
  <2> QED  BY <2>1, <2>5, <2>6
<1>20. nOob' = refused' /\ (OnGpu' => pushed' = TotalOf(count', "pass1"))
  BY <1>1 DEF Books, OnGpu, Runner
<1> QED  BY <1>17, <1>18, <1>19, <1>20 DEF Books

\* A worker takes an event from its ring and counts it.
LEMMA BooksHandle ==
    ASSUME Control, Submitting, Rings, Counts, Books, NEW k \in Shard,
           NEW pass0 \in BOOLEAN, NEW pass1 \in BOOLEAN, Handle(k, pass0, pass1)
    PROVE  Books'
<1> DEFINE e == Head(queue[k])
           S == CountedOf(e.owner, pass0, pass1)
           r == Counted(count[k], S)
           q == Tail(queue[k])
<1>1. /\ queue[k] # << >> /\ e # Eof /\ (pass0 => e.owner)
      /\ queue' = [queue EXCEPT ![k] = q]
      /\ pushed' = IF pass1 /\ OnGpu THEN pushed + 1 ELSE pushed
      /\ UNCHANGED <<program, source, batch, to, accepted, eventsIn, admitted, refused, nOob>>
  BY DEF Handle, sourceVars
<1>2. /\ \A c \in Counters : TotalOf(count, c) \in Int
      /\ \A V : QueuedOf(queue, V) \in Int
      /\ EventsOf(admitted) \in Int /\ HalosOf(admitted) \in Int
      /\ pushed \in Int /\ Len(to) \in Nat /\ OwnerLeft \in {0, 1}
  BY BooksNumbers DEF Counts
<1>3. queue \in RingsType /\ queue[k] \in Seq(Entry)
  BY DEF Rings, RingsType, RingType, Entry
<1>4. q \in Seq(Entry) /\ e \in Entry
  BY <1>1, <1>3
<1>5. e \in Entries
  BY <1>1, <1>4 DEF Entry
<1>23. q \in RingType
  BY <1>4 DEF RingType
<1>6. e.owner \in BOOLEAN /\ (e \in Owned <=> e.owner) /\ (e \in Haloed <=> ~e.owner)
  BY <1>5, EntryIs
<1>7. /\ count' = [count EXCEPT ![k] = r] /\ r \in [Counters -> Nat]
      /\ \A c \in Counters : r[c] = count[k][c] + IF c \in S THEN 1 ELSE 0
  BY HandleIs
<1>8. /\ "owner" \in S <=> e.owner
      /\ "halo" \in S <=> ~e.owner
      /\ "pass1" \in S <=> pass1
  BY <1>1, <1>6 DEF CountedOf
<1>9. count \in CountType /\ \A c \in Counters : count[k][c] \in Nat
  BY DEF Counts, CountType
<1> HIDE DEF S, r
<1>10. \A c \in Counters : TotalOf(count', c) = (TotalOf(count, c) - count[k][c]) + r[c]
  BY <1>7, <1>9, TotalUpdate
<1>11. \A c \in Counters : TotalOf(count', c) = TotalOf(count, c) + IF c \in S THEN 1 ELSE 0
  <2> SUFFICES ASSUME NEW c \in Counters
               PROVE  TotalOf(count', c) = TotalOf(count, c) + IF c \in S THEN 1 ELSE 0
    OBVIOUS
  <2>1. TotalOf(count', c) = (TotalOf(count, c) - count[k][c]) + r[c]
    BY <1>10
  <2>2. TotalOf(count, c) \in Int /\ count[k][c] \in Int
    BY <1>2, <1>9
  <2>3. r[c] = count[k][c] + IF c \in S THEN 1 ELSE 0
    BY <1>7
  <2> QED  BY <2>1, <2>2, <2>3
<1>12. \A V : Marked(queue[k], V) = Marked(q, V) + IF e \in V THEN 1 ELSE 0
  <2> SUFFICES ASSUME NEW V PROVE Marked(queue[k], V) = Marked(q, V) + IF e \in V THEN 1 ELSE 0
    OBVIOUS
  <2> QED  BY <1>1, <1>3, MarkedTail
<1> HIDE DEF q, e
<1>13. \A V : Marked(q, V) \in Nat
  BY <1>4, MarkedIs
<1>14. \A V : QueuedOf(queue', V) = (QueuedOf(queue, V) - Marked(queue[k], V)) + Marked(q, V)
  <2>1. RingSet(queue, k, q, queue')
    BY <1>1 DEF RingSet
  <2> QED  BY <1>3, <1>23, <2>1, QueuedUpdate
<1>15. \A V : QueuedOf(queue', V) = QueuedOf(queue, V) - IF e \in V THEN 1 ELSE 0
  BY <1>2, <1>12, <1>13, <1>14
<1>16. "owner" \in Counters /\ "halo" \in Counters /\ "pass1" \in Counters
  BY DEF Counters
<1>17. TotalOf(count', "owner") + QueuedOf(queue', Owned) = TotalOf(count, "owner") + QueuedOf(queue, Owned)
  BY <1>2, <1>6, <1>8, <1>11, <1>15, <1>16
<1>18. TotalOf(count', "halo") + QueuedOf(queue', Haloed) = TotalOf(count, "halo") + QueuedOf(queue, Haloed)
  BY <1>2, <1>6, <1>8, <1>11, <1>15, <1>16
<1>19. OwnerLeft' = OwnerLeft /\ InHand' = InHand /\ Source' = Source /\ OnGpu' = OnGpu
  BY <1>1 DEF OwnerLeft, InHand, Has, Source, OnGpu, Runner
<1>20. OnGpu' => pushed' = TotalOf(count', "pass1")
  BY <1>1, <1>2, <1>8, <1>11, <1>16, <1>19 DEF Books
<1>21. TotalOf(count', "owner") + QueuedOf(queue', Owned) + OwnerLeft' = EventsOf(admitted')
  BY <1>1, <1>17, <1>19 DEF Books
<1>22. TotalOf(count', "halo") + QueuedOf(queue', Haloed) + (Len(to') - OwnerLeft')
          = HalosOf(admitted')
  BY <1>1, <1>18, <1>19 DEF Books
<1> QED  BY <1>1, <1>19, <1>20, <1>21, <1>22 DEF Books

\* An end marker comes into a ring and goes from it.
LEMMA BooksEof ==
    ASSUME Control, Submitting, Rings, Counts, Books, NEW k \in Shard,
           \/ TakeEof(k)
           \/ PushEof /\ k = at
    PROVE  Books'
<1>1. queue \in RingsType /\ queue[k] \in Seq(Entry)
  BY DEF Rings, RingsType, RingType, Entry
<1>2. \A V : QueuedOf(queue, V) \in Int /\ Marked(queue[k], V) \in Nat
  BY <1>1, BooksNumbers, MarkedIs
<1>3. UNCHANGED <<program, count, pushed, batch, to, accepted, eventsIn, admitted, refused, nOob>>
  BY DEF TakeEof, PushEof, sourceVars, shardVars
<1>4. ASSUME NEW V, Eof \notin V PROVE QueuedOf(queue', V) = QueuedOf(queue, V)
  <2>1. CASE TakeEof(k)
    <3> DEFINE q == Tail(queue[k])
    <3>1. queue[k] # << >> /\ Head(queue[k]) = Eof /\ RingSet(queue, k, q, queue')
      BY <2>1 DEF TakeEof, RingSet
    <3>2. q \in RingType
      BY <1>1, <3>1 DEF RingType
    <3>3. Marked(queue[k], V) = Marked(q, V) + IF Head(queue[k]) \in V THEN 1 ELSE 0
      BY <1>1, <3>1, MarkedTail
    <3> HIDE DEF q
    <3>4. QueuedOf(queue', V) = (QueuedOf(queue, V) - Marked(queue[k], V)) + Marked(q, V)
      BY <1>1, <3>1, <3>2, QueuedUpdate
    <3>5. Marked(q, V) \in Nat
      BY <3>2, MarkedIs DEF RingType
    <3> QED  BY <1>2, <1>4, <3>1, <3>3, <3>4, <3>5
  <2>2. CASE PushEof /\ k = at
    <3>0. PICK q : q = Append(queue[k], Eof)
      OBVIOUS
    <3>1. RingSet(queue, k, q, queue')
      BY <2>2, <3>0 DEF PushEof, RingSet
    <3>2. q \in Seq(Entry) /\ Eof \in Entry /\ q \in RingType
      BY <1>1, <3>0 DEF Entry, RingType
    <3>3. Marked(q, V) = Marked(queue[k], V) + IF Eof \in V THEN 1 ELSE 0
      <4> DEFINE e == Eof
                 s == queue[k]
      <4>1. s \in Seq(Entry) /\ e \in Entry /\ AddedTo(s, e, q)
        BY <1>1, <3>0, <3>2 DEF AddedTo
      <4> HIDE DEF e, s
      <4>2. Marked(q, V) = Marked(s, V) + IF e \in V THEN 1 ELSE 0
        BY <4>1, MarkedAppend
      <4> QED  BY <4>2 DEF e, s
    <3>4. QueuedOf(queue', V) = (QueuedOf(queue, V) - Marked(queue[k], V)) + Marked(q, V)
      BY <1>1, <3>1, <3>2, QueuedUpdate
    <3> QED  BY <1>2, <1>4, <3>3, <3>4
  <2> QED  BY <2>1, <2>2
<1>5. QueuedOf(queue', Owned) = QueuedOf(queue, Owned)
      /\ QueuedOf(queue', Haloed) = QueuedOf(queue, Haloed)
  BY <1>4, EntryIs
<1>6. OwnerLeft' = OwnerLeft /\ InHand' = InHand /\ Source' = Source /\ OnGpu' = OnGpu
  BY <1>3 DEF OwnerLeft, InHand, Has, Source, OnGpu, Runner
<1> QED  BY <1>3, <1>5, <1>6 DEF Books

LEMMA BooksSubmit ==
    ASSUME Control, Submitting, Rings, Counts, Books, Submitting',
           \/ \E events \in Batches : Submit(events)
           \/ SubmitReturns
    PROVE  Books'
<1>1. UNCHANGED <<program, queue, to, admitted, count, pushed, nOob, refused>>
  BY DEF Submit, SubmitReturns, shardVars
<1>2. Len(batch') \in Nat /\ EventsOf(admitted) \in Int
      /\ eventsIn \in Int /\ accepted \in Int /\ refused \in Int
  BY BooksNumbers DEF Submitting
<1>3. to = << >> /\ batch = << >>
  BY DEF Submitting, Submit, SubmitReturns
<1>4. OwnerLeft = 0 /\ OwnerLeft' = 0 /\ InHand = 0 /\ InHand' = 0 /\ Len(batch) = 0
      /\ Source' = Source /\ OnGpu' = OnGpu
  BY <1>1, <1>3 DEF OwnerLeft, InHand, Has, Source, OnGpu, Runner
<1>5. IF Source' = "caller"
      THEN eventsIn' + InHand' = EventsOf(admitted') + refused' + Len(batch')
      ELSE eventsIn' + accepted' + InHand' = EventsOf(admitted')
  <2>1. CASE SubmitReturns
    <3>1. accepted' = 0 /\ batch' = batch
          /\ eventsIn' = IF Source = "caller" THEN eventsIn ELSE eventsIn + accepted
      BY <2>1 DEF SubmitReturns
    <3> QED  BY <1>1, <1>2, <1>4, <3>1 DEF Books
  <2>2. ASSUME NEW events \in Batches, Submit(events)
        PROVE IF Source' = "caller"
              THEN eventsIn' + InHand' = EventsOf(admitted') + refused' + Len(batch')
              ELSE eventsIn' + accepted' + InHand' = EventsOf(admitted')
    <3>1. /\ accepted' = 0 /\ accepted = 0 /\ batch' = events
          /\ eventsIn' = IF Source = "caller" THEN eventsIn + Len(events) ELSE eventsIn
      BY <2>2 DEF Submit, Submitting
    <3>2. eventsIn' = IF Source = "caller" THEN eventsIn + Len(batch') ELSE eventsIn
      BY <3>1
    <3> HIDE DEF Batches
    <3> QED  BY <1>1, <1>2, <1>4, <3>1, <3>2 DEF Books
  <2> QED  BY <2>1, <2>2
<1> QED  BY <1>1, <1>4, <1>5 DEF Books

LEMMA BooksStep ==
    ASSUME Control, Submitting, Rings, Counts, Books, Submitting', [Next]_vars
    PROVE  Books'
<1>1. ASSUME NEW k \in Shard, NEW pass0 \in BOOLEAN, NEW pass1 \in BOOLEAN,
             Handle(k, pass0, pass1)
      PROVE  Books'
  BY <1>1, BooksHandle
<1>2. ASSUME NEW k \in Shard, TakeEof(k) PROVE Books'
  BY <1>2, BooksEof
<1>3. ASSUME PushEof PROVE Books'
  <2>1. at \in Shard
    BY <1>3, Sizes DEF Control, PushEof, Shard
  <2> QED  BY <1>3, <2>1, BooksEof
<1>4. ASSUME TakeEvent PROVE Books'
  BY <1>4, BooksTake
<1>5. ASSUME PushNext PROVE Books'
  BY <1>5, BooksPush
<1>6. ASSUME (\E events \in Batches : Submit(events)) \/ SubmitReturns PROVE Books'
  BY <1>6, BooksSubmit
<1>7. ASSUME ResetShard PROVE Books'
  <2>1. count = [k \in Shard |-> Zero]
    BY <1>7 DEF ResetShard, Counts, Setup
  <2>2. count' = count
    BY <1>7, <2>1 DEF ResetShard
  <2>3. UNCHANGED <<program, queue, to, batch, accepted, eventsIn, admitted, pushed, nOob, refused>>
    BY <1>7 DEF ResetShard, sourceVars
  <2> QED  BY <2>2, <2>3, BooksKept
<1>8. ASSUME ResetDone PROVE Books'
  <2>1. /\ pushed' = pushed /\ nOob' = nOob
        /\ UNCHANGED <<program, queue, to, batch, accepted, eventsIn, admitted, count, refused>>
    BY <1>8 DEF ResetDone, Counts, Setup
  <2> QED  BY <2>1, BooksKept
<1>9. ASSUME \/ Launch \/ InitLibrary \/ StartSource \/ PrintRow \/ Leave \/ Snapshot
             \/ SnapshotDone \/ StopSynth \/ Join \/ JoinTimesOut \/ SetStopFlag
             \/ Synchronize \/ JoinWorkers \/ ShutdownReturns \/ Signal
             \/ Poll \/ NoBatch \/ SourceExit \/ KernelExit \/ UNCHANGED vars
      PROVE  Books'
  <2>1. UNCHANGED <<program, queue, to, batch, accepted, eventsIn, admitted, count, pushed, nOob,
                    refused>>
    BY <1>9 DEF Launch, InitLibrary, StartSource, PrintRow, Leave, Snapshot,
       SnapshotDone, StopSynth, Join, JoinTimesOut, SetStopFlag, Synchronize, JoinWorkers,
       ShutdownReturns, Signal, Poll, NoBatch, SourceExit, KernelExit, vars, shardVars, sourceVars
  <2> QED  BY <2>1, BooksKept
<1> QED
  BY Steps1, <1>1, <1>2, <1>3, <1>4, <1>5, <1>6, <1>7, <1>8, <1>9
     DEF RunningStep, MainStep, SourceStep, WorkerStep

-----------------------------------------------------------------------------
(* The statistics add up.                                                  *)

StatsInv == ControlInv /\ Counts /\ Books

LEMMA StatsInvariant == Spec => []StatsInv
<1>1. Init => StatsInv
  BY ControlInit, SubmittingInit, RingsInit, CountsInit, BooksInit DEF ControlInv, StatsInv
<1>2. StatsInv /\ [Next]_vars => StatsInv'
  <2> SUFFICES ASSUME StatsInv, [Next]_vars PROVE StatsInv'
    OBVIOUS
  <2>1. Control' /\ Submitting' /\ Rings'
    BY ControlStep, SubmittingStep, RingsStep DEF ControlInv, StatsInv
  <2>2. Counts'
    BY <2>1, CountsStep DEF ControlInv, StatsInv
  <2>3. Books'
    BY <2>1, BooksStep DEF ControlInv, StatsInv
  <2> QED  BY <2>1, <2>2, <2>3 DEF ControlInv, StatsInv
<1> QED  BY <1>1, <1>2, PTL DEF Spec

LEMMA StatsInvImplies == StatsInv => StatsAddUp
<1> SUFFICES ASSUME StatsInv PROVE StatsAddUp
  OBVIOUS
<1> USE DEF StatsInv, ControlInv
<1>1. \A k \in Shard : Ordered(count[k])
  BY DEF Counts
<1>2. \A c : Total(c) = TotalOf(count, c)
  BY DEF Total, TotalOf
<1>3. \A c \in Counters : sums[c] <= Total(c)
  <2> SUFFICES ASSUME NEW c \in Counters PROVE sums[c] <= TotalOf(count, c)
    BY <1>2
  <2>1. /\ LoadedSum(count, c, at) \in Nat /\ TotalOf(count, c) \in Nat
        /\ LoadedSum(count, c, at) <= TotalOf(count, c)
    BY LoadedSumIs DEF Counts, Control
  <2>2. sums[c] \in Nat /\ sums[c] <= LoadedSum(count, c, at)
    BY DEF Counts
  <2> QED  BY <2>1, <2>2
<1>4. ASSUME main = "done", ~timedOut
      PROVE  /\ Total("owner") = Events
             /\ Total("halo") = Halos
             /\ nOob = refused
             /\ OnGpu => pushed = Total("pass1")
             /\ eventsIn = Events + IF Source = "caller" THEN refused ELSE 0
  <2>1. source # "submit"
    BY <1>4 DEF Control, Joined, Ending
  <2>2. batch = << >> /\ to = << >> /\ accepted = 0
    BY <2>1 DEF Submitting
  <2>3. OwnerLeft = 0 /\ InHand = 0 /\ Len(to) = 0 /\ Len(batch) = 0
    BY <2>2 DEF OwnerLeft, InHand, Has
  <2>4. \A k \in Shard : queue[k] = << >>
    BY <1>4 DEF Rings
  <2>5. \A V : QueuedOf(queue, V) = 0
    <3> SUFFICES ASSUME NEW V PROVE QueuedOf(queue, V) = 0
      OBVIOUS
    <3> DEFINE f == [k \in Shard |-> Marked(queue[k], V)]
    <3>1. \A k \in Shard : f[k] = 0
      BY <2>4, MarkedEmpty
    <3>2. SumFunctionOnSet(f, Shard) = 0
      <4> HIDE DEF f
      <4> QED  BY <3>1, FiniteSets, SumOfZeros
    <3> QED  BY <3>2 DEF QueuedOf
  <2>6. Events = EventsOf(admitted) /\ Halos = HalosOf(admitted)
    BY DEF Events, Halos, EventsOf, HalosOf
  <2>7. /\ \A c \in Counters : TotalOf(count, c) \in Int
        /\ EventsOf(admitted) \in Int /\ HalosOf(admitted) \in Int
        /\ eventsIn \in Int /\ refused \in Int
    BY BooksNumbers DEF Submitting
  <2>8. "owner" \in Counters /\ "halo" \in Counters
    BY DEF Counters
  <2>9. TotalOf(count, "owner") = EventsOf(admitted) /\ TotalOf(count, "halo") = HalosOf(admitted)
    <3>1. /\ TotalOf(count, "owner") + QueuedOf(queue, Owned) + OwnerLeft = EventsOf(admitted)
          /\ TotalOf(count, "halo") + QueuedOf(queue, Haloed) + (Len(to) - OwnerLeft) = HalosOf(admitted)
      BY DEF Books
    <3> QED  BY <2>3, <2>5, <2>7, <2>8, <3>1
  <2>10. eventsIn = EventsOf(admitted) + IF Source = "caller" THEN refused ELSE 0
    BY <2>2, <2>3, <2>7 DEF Books
  <2>11. nOob = refused /\ (OnGpu => pushed = TotalOf(count, "pass1"))
    BY DEF Books
  <2> QED  BY <1>2, <2>6, <2>9, <2>10, <2>11
<1> QED  BY <1>1, <1>3, <1>4 DEF StatsAddUp

(* In every program, for every number of shards, columns and events: no    *)
(* snapshot shows more than was counted, and at the end every admitted     *)
(* event was counted once by its owner and once by every other shard it    *)
(* reached, every other one as out of bounds, every survivor as pushed.    *)
THEOREM StatsCorrect == Spec => []StatsAddUp
<1>1. StatsInv => StatsAddUp
  BY StatsInvImplies
<1> QED  BY <1>1, StatsInvariant, PTL
=============================================================================

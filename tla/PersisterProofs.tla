-------------------------- MODULE PersisterProofs --------------------------
(***************************************************************************)
(* Proofs about the persister: nothing is lost, doubled or reordered on    *)
(* the way from in to the confirmations, a whisper file has one writer,    *)
(* and Stop leaves nothing behind.                                         *)
(***************************************************************************)
EXTENDS PersisterSystem, TLAPS

(***************************************************************************)
(* The invariant.                                                          *)
(***************************************************************************)
\* The throttle has a batch in hand exactly while it sends it, and is there
\* exactly when it was configured.
ThrottleOK ==
    /\ throttleP # None <=> throttlePC = "send"
    /\ throttlePC \in {"recv", "send"} => ticks < Chunk
    /\ ~throttled => throttlePC = "off" /\ throttleOut = <<>>
    /\ throttled /\ state # "stopped" => throttlePC # "off"
    /\ throttleClosed => throttlePC = "done"

\* The same for the shuffler, which leaves a throttle only when that has left
\* and its channel is used up.
ShufflerOK ==
    /\ shufflerP # None <=> shufflerPC = "send"
    /\ Solo => shufflerPC = "off"
    /\ ~Solo /\ state # "stopped" => shufflerPC # "off"
    /\ channelsClosed => shufflerPC = "done"
    /\ shufflerPC = "done" /\ throttled => throttlePC = "done" /\ throttleOut = <<>>

\* The same for the workers and their channels.
WorkersOK ==
    \A w \in Workers :
        /\ workerP[w] # None <=> workerPC[w] \in {"open", "update", "confirm"}
        /\ w >= workersCount => workerPC[w] = "off"
        /\ w < workersCount /\ state # "stopped" => workerPC[w] # "off"
        /\ Solo \/ w >= workersCount => channels[w] = <<>>
        /\ workerPC[w] = "done" /\ ~Solo => channelsClosed /\ channels[w] = <<>>
        /\ workerPC[w] = "done" /\ Solo /\ throttled => throttlePC = "done" /\ throttleOut = <<>>

\* While the persister is stopped no goroutine runs and no channel has a batch.
StoppedOK ==
    state = "stopped" =>
        /\ throttlePC \in {"off", "done"} /\ throttleOut = <<>>
        /\ shufflerPC \in {"off", "done"}
        /\ \A w \in Workers : workerPC[w] \in {"off", "done"} /\ channels[w] = <<>>

LifeOK == ThrottleOK /\ ShufflerOK /\ WorkersOK /\ StoppedOK

\* A worker has batches of its own metrics only.
HomeOK ==
    \A w \in Workers :
        /\ workerP[w] # None => w = Home(workerP[w][1])
        /\ \A b \in Elems(channels[w]) : w = Home(b[1])

\* The eight parts of Path(w).
Stages(w) == << acked, confirm, InSeq(workerP[w]), channels[w],
                InSeq(shufflerP), throttleOut, InSeq(throttleP), in >>

\* The batches of m in a sequence stand in feeding order.
Sorted(s, m) ==
    \A i, j \in 1..Len(s) : i < j /\ s[i][1] = m /\ s[j][1] = m => s[i][2] < s[j][2]

\* The batches of m in A were fed before those in B.
Before(A, B, m) == \A b \in A, c \in B : b[1] = m /\ c[1] = m => b[2] < c[2]

\* The batches of m stand in the parts st in feeding order.
InOrder(st, m) ==
    /\ \A k \in 1..8 : Sorted(st[k], m)
    /\ \A k, l \in 1..8 : k < l => Before(Elems(st[k]), Elems(st[l]), m)

\* They do, and they are those with the numbers N.
InLine(st, m, N) ==
    /\ InOrder(st, m)
    /\ \A i \in Nat : (\E k \in 1..8 : <<m, i>> \in Elems(st[k])) <=> i \in N

LineOK == \A m \in Metric : InLine(Stages(Home(m)), m, 1..fed[m])

\* Batch n of m is confirmed or about to be.
Done(m, n) ==
    \/ <<m, n>> \in Elems(acked) \cup Elems(confirm)
    \/ \E w \in Workers : workerPC[w] = "confirm" /\ workerP[w] = <<m, n>>

Rising(s) == \A i, j \in 1..Len(s) : i < j => s[i] < s[j]

\* A file has what was written to it in feeding order, and that is done.
FileOK == \A m \in Metric : Rising(file[m]) /\ \A n \in Elems(file[m]) : Done(m, n)

PInv == TypeOK /\ LifeOK /\ HomeOK /\ LineOK /\ FileOK

\* What holds between any two neighbours that keep a metric's batches in order.
Ordered == \A m \in Metric : InOrder(Stages(Home(m)), m)
Sound   == TypeOK /\ LifeOK /\ HomeOK /\ Ordered

(***************************************************************************)
(* Channels and workers.                                                   *)
(***************************************************************************)
\* A send on a channel.
LEMMA ElemsAppend ==
    ASSUME NEW S, NEW s \in Seq(S), NEW x \in S
    PROVE  Elems(Append(s, x)) = Elems(s) \cup {x} /\ Append(s, x) \in Seq(S)
BY DEF Elems

\* The batches in a channel.
LEMMA BatchesIn ==
    ASSUME NEW s \in Seq(Batch)
    PROVE  /\ Elems(s) \subseteq Batch
           /\ \A b \in Batch : Elems(Append(s, b)) = Elems(s) \cup {b}
BY ElemsAppend DEF Elems

\* A batch is a metric and a number.
LEMMA Parts ==
    ASSUME NEW b \in Batch
    PROVE  b = <<b[1], b[2]>> /\ b[1] \in Metric /\ b[2] \in Nat
BY BoundsAssumption DEF Batch

\* A receive from a channel.
LEMMA ElemsTail ==
    ASSUME NEW S, NEW s \in Seq(S), s # <<>>
    PROVE  /\ Elems(s) = {Head(s)} \cup Elems(Tail(s))
           /\ Head(s) \in S /\ Tail(s) \in Seq(S) /\ Head(s) \in Elems(s)
           /\ Head(s) = s[1] /\ 1 \in 1..Len(s) /\ Len(s) \in Nat \ {0}
           /\ Len(Tail(s)) = Len(s) - 1
           /\ \A i \in 1..Len(Tail(s)) : i + 1 \in 1..Len(s) /\ Tail(s)[i] = s[i + 1]
<1>1. /\ Len(s) \in Nat \ {0} /\ Head(s) = s[1] /\ Head(s) \in S /\ Tail(s) \in Seq(S)
      /\ Len(Tail(s)) = Len(s) - 1 /\ \A i \in 1..Len(Tail(s)) : Tail(s)[i] = s[i + 1]
  OBVIOUS
<1>2. \A i \in 1..Len(s) : i = 1 \/ (i - 1 \in 1..Len(Tail(s)) /\ s[i] = Tail(s)[i - 1])
  BY <1>1
<1>3. \A i \in 1..Len(Tail(s)) : i + 1 \in 1..Len(s)
  BY <1>1
<1>4. Elems(s) \subseteq {Head(s)} \cup Elems(Tail(s))
  BY <1>1, <1>2 DEF Elems
<1>5. {Head(s)} \cup Elems(Tail(s)) \subseteq Elems(s)
  BY <1>1, <1>3 DEF Elems
<1> QED BY <1>1, <1>3, <1>4, <1>5

\* There is a worker for every metric, and worker 0 is always there.
LEMMA WorkerThere ==
    ASSUME workersCount \in WorkerCounts
    PROVE  /\ workersCount \in Nat \ {0} /\ MaxWorkers \in Nat \ {0}
           /\ 0 \in Workers
           /\ \A m \in Metric : Index(m) \in Workers /\ Index(m) < workersCount
           /\ \A m \in Metric : Home(m) \in Workers /\ Home(m) < workersCount
           /\ Solo <=> workersCount = 1
<1>1. MaxWorkers \in WorkerCounts /\ \A k \in WorkerCounts : k <= MaxWorkers
  BY WorkersAssumption DEF MaxWorkers
<1>2. workersCount \in Nat \ {0} /\ MaxWorkers \in Nat \ {0} /\ workersCount <= MaxWorkers
  BY <1>1, WorkersAssumption
<1>3. \A h \in Nat : h % workersCount \in 0..(workersCount - 1)
  BY <1>2
<1>4. \A m \in Metric : Index(m) \in 0..(workersCount - 1)
  BY <1>3, HashAssumption DEF Index
<1>5. Solo <=> workersCount = 1
  BY <1>2 DEF Solo
<1> QED BY <1>2, <1>4, <1>5 DEF Workers, Home

\* A hand is empty or has one batch.
LEMMA Hand ==
    ASSUME NEW x \in Batch \cup {None}
    PROVE  /\ InSeq(x) \in Seq(Batch)
           /\ x = None => InSeq(x) = <<>> /\ Elems(InSeq(x)) = {}
           /\ x # None => /\ InSeq(x) = <<x>> /\ Elems(InSeq(x)) = {x}
                          /\ InSeq(x) = Append(InSeq(None), x)
                          /\ InSeq(x) # <<>> /\ Head(InSeq(x)) = x /\ Tail(InSeq(x)) = InSeq(None)
BY DEF InSeq, Elems

(***************************************************************************)
(* Types.                                                                  *)
(***************************************************************************)
\* The persister's source channel has batches.
LEMMA SourceType ==
    ASSUME TypeOK
    PROVE  /\ Source \in Seq(Batch)
           /\ Source # <<>> /\ TakeSource => /\ Head(Source) \in Batch
                                             /\ in' \in Seq(Batch) /\ throttleOut' \in Seq(Batch)
<1>1. in \in Seq(Batch) /\ throttleOut \in Seq(Batch) /\ throttled \in BOOLEAN
  BY DEF TypeOK
<1> QED BY <1>1, ElemsTail DEF Source, TakeSource

\* Every step of the persister and of its two neighbours keeps the types.
LEMMA TypeStep == ASSUME TypeOK, LifeOK, [SystemNext]_allVars PROVE TypeOK'
<1> USE DEF chanVars, ownVars, lifeVars, throttleVars, shuffleVars, workVars, fileVars,
            unchangedByThrottle, unchangedByShuffler, unchangedByWorker
<1>1. CASE UNCHANGED allVars
  BY <1>1 DEF allVars, TypeOK
<1>2. ASSUME NEW n \in WorkerCounts, NEW t \in Throttling, Start(n, t), UNCHANGED <<fed, acked>>
      PROVE  TypeOK'
  <2>1. starts' \in 0..MaxStarts
    BY <1>2, BoundsAssumption DEF TypeOK, Start
  <2>2. throttlePC' \in {"off", "tick", "recv", "send", "done"} /\ ticks' \in 0..Chunk
    BY <1>2, ThrottleAssumption DEF Start
  <2>3. /\ workersCount' \in WorkerCounts /\ throttled' \in BOOLEAN
        /\ shufflerPC' \in {"off", "select", "send", "done"}
    BY <1>2, ThrottleAssumption DEF Start
  <2>4. /\ channels' \in [Workers -> Seq(Batch)] /\ workerP' \in [Workers -> Batch \cup {None}]
        /\ workerPC' \in [Workers -> {"off", "select", "open", "update", "confirm", "done"}]
    BY <1>2 DEF Start
  <2>5. /\ exit' \in BOOLEAN /\ throttleClosed' \in BOOLEAN /\ channelsClosed' \in BOOLEAN
        /\ throttleP' \in Batch \cup {None} /\ shufflerP' \in Batch \cup {None}
        /\ state' \in {"stopped", "running", "stopping"}
    BY <1>2 DEF Start
  <2>6. UNCHANGED <<in, confirm, inClosed, exists, file, fed, acked>>
    BY <1>2 DEF Start
  <2>7. throttleOut' = <<>>
    BY <1>2 DEF Start
  <2> QED BY <2>1, <2>2, <2>3, <2>4, <2>5, <2>6, <2>7 DEF TypeOK
<1>3. ASSUME StopBegin \/ StopEnd, UNCHANGED <<fed, acked>> PROVE TypeOK'
  BY <1>3, ZenonT(40) DEF TypeOK, StopBegin, StopEnd
<1>4. ASSUME ThrottleTick \/ ThrottleEnd, UNCHANGED <<fed, acked>> PROVE TypeOK'
  <2>1. CASE ThrottleTick
    BY <1>4, <2>1, ThrottleAssumption DEF TypeOK, ThrottleTick
  <2>2. CASE ThrottleEnd
    BY <1>4, <2>2 DEF TypeOK, ThrottleEnd
  <2> QED BY <1>4, <2>1, <2>2
<1>5. ASSUME ThrottleReceive, UNCHANGED <<fed, acked>> PROVE TypeOK'
  BY <1>5, ElemsTail DEF TypeOK, ThrottleReceive
<1>6. ASSUME ThrottleSend, UNCHANGED <<fed, acked>> PROVE TypeOK'
  <2>1. throttleP \in Batch /\ ticks < Chunk
    BY <1>6 DEF ThrottleSend, LifeOK, ThrottleOK, TypeOK
  <2>2. throttleOut' \in Seq(Batch)
    BY <1>6, <2>1, ElemsAppend DEF ThrottleSend, TypeOK
  <2>3. ticks' \in 0..Chunk
    BY <1>6, <2>1, ThrottleAssumption DEF ThrottleSend, TypeOK
  <2> QED BY <1>6, <2>2, <2>3 DEF TypeOK, ThrottleSend
<1>7. ASSUME ShufflerReceive, UNCHANGED <<fed, acked>> PROVE TypeOK'
  BY <1>7, SourceType, SMTT(20) DEF TypeOK, ShufflerReceive
<1>8. ASSUME ShufflerSend, UNCHANGED <<fed, acked>> PROVE TypeOK'
  <2>1. shufflerP \in Batch
    BY <1>8 DEF ShufflerSend, LifeOK, ShufflerOK, TypeOK
  <2>2. channels \in [Workers -> Seq(Batch)]
    BY DEF TypeOK
  <2>3. channels' = [channels EXCEPT ![Index(shufflerP[1])] = Append(@, shufflerP)]
    BY <1>8 DEF ShufflerSend
  <2>4. channels' \in [Workers -> Seq(Batch)]
    BY <2>1, <2>2, <2>3, ElemsAppend
  <2> QED BY <1>8, <2>4 DEF TypeOK, ShufflerSend
<1>9. ASSUME ShufflerEnd, UNCHANGED <<fed, acked>> PROVE TypeOK'
  BY <1>9 DEF TypeOK, ShufflerEnd
<1>10. ASSUME NEW w \in Workers, WorkerReceive(w), UNCHANGED <<fed, acked>> PROVE TypeOK'
  <2>1. /\ workerP' \in [Workers -> Batch \cup {None}]
        /\ in' \in Seq(Batch) /\ throttleOut' \in Seq(Batch)
        /\ channels' \in [Workers -> Seq(Batch)]
    <3>1. CASE Solo
      BY <1>10, <3>1, SourceType DEF WorkerReceive, TypeOK
    <3>2. CASE ~Solo
      <4>1. channels[w] \in Seq(Batch) /\ channels[w] # <<>>
        BY <1>10, <3>2 DEF WorkerReceive, TypeOK
      <4>2. Head(channels[w]) \in Batch /\ Tail(channels[w]) \in Seq(Batch)
        BY <4>1, ElemsTail
      <4> QED BY <1>10, <3>2, <4>2 DEF WorkerReceive, TypeOK
    <3> QED BY <3>1, <3>2
  <2>2. workerPC' \in [Workers -> {"off", "select", "open", "update", "confirm", "done"}]
    BY <1>10 DEF WorkerReceive, TypeOK
  <2> QED BY <1>10, <2>1, <2>2 DEF TypeOK, WorkerReceive
<1>11. ASSUME NEW w \in Workers, UNCHANGED <<fed, acked>>,
              WorkerEnd(w) \/ StoreFail(w) \/ StorePanic(w)
       PROVE  TypeOK'
  <2>1. CASE WorkerEnd(w)
    BY <1>11, <2>1 DEF TypeOK, WorkerEnd
  <2>2. CASE StoreFail(w)
    BY <1>11, <2>2 DEF TypeOK, StoreFail
  <2>3. CASE StorePanic(w)
    BY <1>11, <2>3 DEF TypeOK, StorePanic
  <2> QED BY <1>11, <2>1, <2>2, <2>3
<1>12. ASSUME NEW w \in Workers, StoreOpen(w), UNCHANGED <<fed, acked>> PROVE TypeOK'
  <2>1. workerP[w] \in Batch
    BY <1>12 DEF StoreOpen, LifeOK, WorkersOK, TypeOK
  <2>2. exists' \in SUBSET Metric
    BY <1>12, <2>1 DEF StoreOpen, TypeOK, Batch
  <2> QED BY <1>12, <2>2 DEF TypeOK, StoreOpen
<1>13. ASSUME NEW w \in Workers, StoreUpdate(w), UNCHANGED <<fed, acked>> PROVE TypeOK'
  <2>1. workerP[w] \in Batch
    BY <1>13 DEF StoreUpdate, LifeOK, WorkersOK, TypeOK
  <2>2. workerP[w][1] \in Metric /\ workerP[w][2] \in 1..MaxBatches
    BY <2>1 DEF Batch
  <2>3. file \in [Metric -> Seq(1..MaxBatches)]
        /\ file' = [file EXCEPT ![workerP[w][1]] = Append(@, workerP[w][2])]
    BY <1>13 DEF StoreUpdate, TypeOK
  <2>4. file' \in [Metric -> Seq(1..MaxBatches)]
    BY <2>2, <2>3, ElemsAppend
  <2>5. workerPC' \in [Workers -> {"off", "select", "open", "update", "confirm", "done"}]
    BY <1>13 DEF StoreUpdate, TypeOK
  <2>6. UNCHANGED <<chanVars, lifeVars, throttleVars, shuffleVars, channels, workerP, exists, fed, acked>>
    BY <1>13 DEF StoreUpdate
  <2> QED BY <2>4, <2>5, <2>6 DEF TypeOK
<1>14. ASSUME NEW w \in Workers, StoreConfirm(w), UNCHANGED <<fed, acked>> PROVE TypeOK'
  <2>1. workerP[w] \in Batch
    BY <1>14 DEF StoreConfirm, LifeOK, WorkersOK, TypeOK
  <2>2. confirm' \in Seq(Batch)
    BY <1>14, <2>1, ElemsAppend DEF StoreConfirm, TypeOK
  <2> QED BY <1>14, <2>2 DEF TypeOK, StoreConfirm
<1>15. ASSUME NEW m \in Metric, Feed(m) PROVE TypeOK'
  <2>1. fed[m] \in 0..MaxBatches /\ fed[m] < MaxBatches
    BY <1>15 DEF Feed, TypeOK
  <2>2. fed[m] + 1 \in 1..MaxBatches
    BY <2>1, BoundsAssumption
  <2>3. <<m, fed[m] + 1>> \in Batch
    BY <2>2 DEF Batch
  <2>4. in' \in Seq(Batch)
    BY <1>15, <2>3, ElemsAppend DEF Feed, TypeOK
  <2>5. fed' \in [Metric -> 0..MaxBatches]
    BY <1>15, <2>2, BoundsAssumption DEF Feed, TypeOK
  <2> QED BY <1>15, <2>4, <2>5 DEF TypeOK, Feed
<1>16. ASSUME CloseIn PROVE TypeOK'
  BY <1>16 DEF TypeOK, CloseIn
<1>17. ASSUME ReadConfirm PROVE TypeOK'
  <2>1. confirm \in Seq(Batch) /\ confirm # <<>> /\ acked \in Seq(Batch)
    BY <1>17 DEF ReadConfirm, TypeOK
  <2>2. confirm' \in Seq(Batch) /\ acked' \in Seq(Batch)
    BY <1>17, <2>1, ElemsTail, ElemsAppend DEF ReadConfirm
  <2> QED BY <1>17, <2>2 DEF TypeOK, ReadConfirm
<1> QED BY <1>1, <1>2, <1>3, <1>4, <1>5, <1>6, <1>7, <1>8, <1>9, <1>10, <1>11, <1>12, <1>13,
           <1>14, <1>15, <1>16, <1>17
        DEF SystemNext, Persist, Goroutines, LifeCycle, Throttle, Shuffler, Worker

(***************************************************************************)
(* Life cycle.                                                             *)
(***************************************************************************)
\* Steps of the throttle, the shuffler and the workers, of Start and of Stop
\* keep who runs and what is closed in agreement.
LEMMA LifeStep == ASSUME TypeOK, LifeOK, [SystemNext]_allVars PROVE LifeOK'
<1> USE DEF chanVars, ownVars, lifeVars, throttleVars, shuffleVars, workVars, fileVars,
            unchangedByThrottle, unchangedByShuffler, unchangedByWorker
<1>0. /\ ThrottleOK /\ ShufflerOK /\ WorkersOK /\ StoppedOK
      /\ workersCount \in Nat \ {0} /\ 0 \in Workers
      /\ Workers \subseteq Nat
      /\ workerPC \in [Workers -> {"off", "select", "open", "update", "confirm", "done"}]
      /\ workerP \in [Workers -> Batch \cup {None}] /\ channels \in [Workers -> Seq(Batch)]
  BY WorkerThere DEF LifeOK, TypeOK, Workers
<1>1. CASE UNCHANGED ownVars
  BY <1>0, <1>1 DEF LifeOK, ThrottleOK, ShufflerOK, WorkersOK, StoppedOK, Solo
<1>2. ASSUME NEW n \in WorkerCounts, NEW t \in Throttling, Start(n, t) PROVE LifeOK'
  <2>1. n \in Nat \ {0} /\ t \in BOOLEAN /\ workersCount' = n /\ throttled' = t
    BY <1>2, WorkersAssumption, ThrottleAssumption DEF Start
  <2>2. state' = "running" /\ throttleP' = None /\ ticks' = 0 /\ throttleOut' = <<>>
        /\ throttleClosed' = FALSE /\ throttlePC' = (IF t THEN "tick" ELSE "off")
    BY <1>2 DEF Start
  <2>3. /\ shufflerP' = None /\ channelsClosed' = FALSE
        /\ shufflerPC' = (IF n > 1 THEN "select" ELSE "off")
    BY <1>2 DEF Start
  <2>4. \A w \in Workers : /\ channels'[w] = <<>> /\ workerP'[w] = None
                           /\ workerPC'[w] = IF w < n THEN "select" ELSE "off"
    BY <1>2 DEF Start
  <2>5. ThrottleOK'
    BY <2>1, <2>2, ThrottleAssumption DEF ThrottleOK
  <2>6. ShufflerOK'
    BY <2>1, <2>2, <2>3 DEF ShufflerOK, Solo
  <2>7. WorkersOK'
    BY <1>0, <2>1, <2>2, <2>4 DEF WorkersOK, Solo
  <2> QED BY <2>2, <2>5, <2>6, <2>7 DEF LifeOK, StoppedOK
<1>3. ASSUME StopBegin PROVE LifeOK'
  BY <1>0, <1>3 DEF LifeOK, ThrottleOK, ShufflerOK, WorkersOK, StoppedOK, Solo, StopBegin
<1>4. ASSUME StopEnd PROVE LifeOK'
  <2>1. UNCHANGED <<workersCount, throttled, throttleVars, shuffleVars, channels, workVars>>
        /\ state = "stopping" /\ state' = "stopped"
    BY <1>4 DEF StopEnd
  <2>2. ThrottleOK' /\ ShufflerOK' /\ WorkersOK'
    BY <1>0, <2>1 DEF ThrottleOK, ShufflerOK, WorkersOK, Solo
  <2>3. \A w \in Workers : channels[w] = <<>> /\ workerPC[w] \in {"off", "done"}
    BY <1>0, <1>4, <2>1 DEF StopEnd, WorkersOK
  <2>4. throttlePC \in {"off", "done"} /\ throttleOut = <<>>
    <3>1. CASE ~throttled
      BY <1>0, <3>1 DEF ThrottleOK
    <3>2. CASE throttled /\ Solo
      <4>1. workerPC[0] = "done"
        BY <1>0, <2>1, <2>3 DEF WorkersOK
      <4> QED BY <1>0, <3>2, <4>1 DEF WorkersOK
    <3>3. CASE throttled /\ ~Solo
      BY <1>0, <1>4, <2>1, <3>3 DEF StopEnd, ShufflerOK
    <3> QED BY <3>1, <3>2, <3>3
  <2> QED BY <1>4, <2>1, <2>2, <2>3, <2>4 DEF StopEnd, LifeOK, StoppedOK
<1>5. ASSUME ThrottleTick \/ ThrottleReceive \/ ThrottleSend \/ ThrottleEnd PROVE LifeOK'
  <2>1. UNCHANGED <<lifeVars, shuffleVars, channels, workVars>>
    BY <1>5 DEF ThrottleTick, ThrottleReceive, ThrottleSend, ThrottleEnd
  <2>2. throttlePC \in {"tick", "recv", "send"} /\ throttled /\ state # "stopped"
    BY <1>0, <1>5 DEF ThrottleTick, ThrottleReceive, ThrottleSend, ThrottleEnd, ThrottleOK, StoppedOK
  <2>3. ThrottleOK'
    <3>1. CASE ThrottleTick
      BY <1>0, <2>1, <2>2, <3>1, ThrottleAssumption DEF ThrottleTick, ThrottleOK
    <3>2. CASE ThrottleReceive
      <4>1. Head(in) # None
        BY <3>2, ElemsTail, NoneAssumption DEF ThrottleReceive, TypeOK
      <4> QED BY <1>0, <2>1, <2>2, <3>2, <4>1 DEF ThrottleReceive, ThrottleOK
    <3>3. CASE ThrottleSend
      <4>1. ticks' = ticks + 1 /\ ticks \in Nat
        BY <3>3 DEF ThrottleSend, TypeOK
      <4> QED BY <1>0, <2>1, <2>2, <3>3, <4>1 DEF ThrottleSend, ThrottleOK
    <3>4. CASE ThrottleEnd
      BY <1>0, <2>1, <2>2, <3>4 DEF ThrottleEnd, ThrottleOK
    <3> QED BY <1>5, <3>1, <3>2, <3>3, <3>4
  <2>4. ShufflerOK' /\ WorkersOK' /\ StoppedOK'
    BY <1>0, <2>1, <2>2 DEF ShufflerOK, WorkersOK, StoppedOK, Solo
  <2> QED BY <2>3, <2>4 DEF LifeOK
<1>6. ASSUME ShufflerReceive \/ ShufflerSend \/ ShufflerEnd PROVE LifeOK'
  <2>1. UNCHANGED <<lifeVars, throttlePC, throttleP, ticks, throttleClosed, workVars>>
    BY <1>6 DEF ShufflerReceive, ShufflerSend, ShufflerEnd
  <2>2. shufflerPC \in {"select", "send"} /\ ~Solo /\ state # "stopped" /\ ~channelsClosed
    BY <1>0, <1>6 DEF ShufflerReceive, ShufflerSend, ShufflerEnd, ShufflerOK, StoppedOK
  <2>3. ~throttled => throttleOut' = <<>>
    BY <1>0, <1>6 DEF ThrottleOK, ShufflerReceive, ShufflerSend, ShufflerEnd, TakeSource
  <2>4. ThrottleOK'
    BY <1>0, <2>1, <2>3 DEF ThrottleOK
  <2>5. ShufflerOK'
    <3>1. CASE ShufflerReceive
      <4>1. Head(Source) # None
        BY <3>1, SourceType, NoneAssumption DEF ShufflerReceive
      <4> QED BY <1>0, <2>1, <2>2, <3>1, <4>1 DEF ShufflerReceive, ShufflerOK, Solo
    <3>2. CASE ShufflerSend
      BY <1>0, <2>1, <2>2, <3>2 DEF ShufflerSend, ShufflerOK, Solo
    <3>3. CASE ShufflerEnd
      <4>1. throttled => throttlePC = "done" /\ throttleOut = <<>>
        BY <1>0, <3>3 DEF ShufflerEnd, ReaderEnds, ReaderExit, Source, SourceClosed, ThrottleOK
      <4> QED BY <1>0, <2>1, <2>2, <3>3, <4>1 DEF ShufflerEnd, ShufflerOK, Solo
    <3> QED BY <1>6, <3>1, <3>2, <3>3
  <2>6. \A w \in Workers : w >= workersCount => channels'[w] = <<>>
    <3>1. CASE UNCHANGED channels
      BY <1>0, <3>1 DEF WorkersOK
    <3>2. CASE ShufflerSend
      <4>1. shufflerP \in Batch
        BY <1>0, <3>2 DEF ShufflerSend, ShufflerOK, TypeOK
      <4>2. Index(shufflerP[1]) < workersCount /\ Index(shufflerP[1]) \in Workers
        BY <4>1, WorkerThere DEF Batch, TypeOK
      <4> QED BY <1>0, <3>2, <4>2 DEF ShufflerSend, WorkersOK
    <3> QED BY <1>6, <3>1, <3>2 DEF ShufflerReceive, ShufflerEnd
  <2>7. WorkersOK'
    <3>1. \A w \in Workers : workerPC[w] # "done"
      BY <1>0, <2>2 DEF WorkersOK
    <3> QED BY <1>0, <2>1, <2>2, <2>6, <3>1 DEF WorkersOK, Solo
  <2> QED BY <2>1, <2>2, <2>4, <2>5, <2>7 DEF LifeOK, StoppedOK
<1>7. ASSUME NEW w \in Workers, WorkerReceive(w) PROVE LifeOK'
  <2>1. UNCHANGED <<lifeVars, throttlePC, throttleP, ticks, throttleClosed, shuffleVars>>
        /\ workerPC' = [workerPC EXCEPT ![w] = "open"] /\ workerPC[w] = "select"
    BY <1>7 DEF WorkerReceive
  <2>2. state # "stopped"
    BY <1>0, <2>1 DEF StoppedOK
  <2>3. \E b \in Batch : workerP' = [workerP EXCEPT ![w] = b]
    <3>1. CASE Solo
      BY <1>7, <3>1, SourceType DEF WorkerReceive
    <3>2. CASE ~Solo
      <4>1. channels[w] \in Seq(Batch) /\ channels[w] # <<>>
        BY <1>0, <1>7, <3>2 DEF WorkerReceive
      <4> QED BY <1>7, <3>2, <4>1, ElemsTail DEF WorkerReceive
    <3> QED BY <3>1, <3>2
  <2>4. \A v \in Workers : channels[v] = <<>> => channels'[v] = <<>>
    BY <1>0, <1>7 DEF WorkerReceive
  <2>5. throttleOut = <<>> => throttleOut' = <<>>
    BY <1>7 DEF WorkerReceive, TakeSource, Source
  <2>6. ThrottleOK' /\ ShufflerOK' /\ StoppedOK'
    BY <1>0, <2>1, <2>2, <2>5 DEF ThrottleOK, ShufflerOK, StoppedOK, Solo
  <2>7. WorkersOK'
    BY <1>0, <2>1, <2>2, <2>3, <2>4, <2>5, NoneAssumption DEF WorkersOK, Solo
  <2> QED BY <2>6, <2>7 DEF LifeOK
<1>8. ASSUME NEW w \in Workers, WorkerEnd(w) PROVE LifeOK'
  <2>1. UNCHANGED <<lifeVars, throttleVars, shuffleVars, channels, workerP>>
        /\ workerPC' = [workerPC EXCEPT ![w] = "done"] /\ workerPC[w] = "select"
    BY <1>8 DEF WorkerEnd
  <2>2. state # "stopped"
    BY <1>0, <2>1 DEF StoppedOK
  <2>3. Solo /\ throttled => throttlePC = "done" /\ throttleOut = <<>>
    BY <1>0, <1>8 DEF WorkerEnd, ReaderEnds, ReaderExit, Source, SourceClosed, ThrottleOK
  <2>4. ~Solo => channelsClosed /\ channels[w] = <<>>
    BY <1>8 DEF WorkerEnd
  <2>5. ThrottleOK' /\ ShufflerOK' /\ StoppedOK'
    BY <1>0, <2>1, <2>2 DEF ThrottleOK, ShufflerOK, StoppedOK, Solo
  <2>6. WorkersOK'
    BY <1>0, <2>1, <2>2, <2>3, <2>4 DEF WorkersOK, Solo
  <2> QED BY <2>5, <2>6 DEF LifeOK
<1>9. ASSUME NEW w \in Workers,
             StoreOpen(w) \/ StoreFail(w) \/ StoreUpdate(w) \/ StorePanic(w) \/ StoreConfirm(w)
      PROVE  LifeOK'
  <2>1. /\ UNCHANGED <<lifeVars, throttleVars, shuffleVars, channels>>
        /\ workerPC[w] \in {"open", "update", "confirm"}
        /\ \/ UNCHANGED workerP /\ \E c \in {"update", "confirm"} : workerPC' = [workerPC EXCEPT ![w] = c]
           \/ workerP' = [workerP EXCEPT ![w] = None] /\ workerPC' = [workerPC EXCEPT ![w] = "select"]
    BY <1>9 DEF StoreOpen, StoreFail, StoreUpdate, StorePanic, StoreConfirm
  <2>2. state # "stopped"
    BY <1>0, <2>1 DEF StoppedOK
  <2>3. ThrottleOK' /\ ShufflerOK' /\ StoppedOK'
    BY <1>0, <2>1, <2>2 DEF ThrottleOK, ShufflerOK, StoppedOK, Solo
  <2>4. WorkersOK'
    BY <1>0, <2>1, <2>2 DEF WorkersOK, Solo
  <2> QED BY <2>3, <2>4 DEF LifeOK
<1>10. \/ UNCHANGED ownVars \/ StopBegin \/ StopEnd
       \/ \E n \in WorkerCounts, t \in Throttling : Start(n, t)
       \/ ThrottleTick \/ ThrottleReceive \/ ThrottleSend \/ ThrottleEnd
       \/ ShufflerReceive \/ ShufflerSend \/ ShufflerEnd
       \/ \E w \in Workers : \/ WorkerReceive(w) \/ WorkerEnd(w)
                             \/ StoreOpen(w) \/ StoreFail(w) \/ StoreUpdate(w) \/ StorePanic(w)
                             \/ StoreConfirm(w)
  BY DEF SystemNext, Persist, Goroutines, LifeCycle, Throttle, Shuffler, Worker, Feed, CloseIn,
         ReadConfirm, allVars
<1> QED BY <1>1, <1>2, <1>3, <1>4, <1>5, <1>6, <1>7, <1>8, <1>9, <1>10

(***************************************************************************)
(* Batches in line.                                                        *)
(***************************************************************************)
\* The first batch of m in a channel was fed before the others.
LEMMA SortedTail ==
    ASSUME NEW s \in Seq(Batch), s # <<>>, NEW m, Sorted(s, m)
    PROVE  Sorted(Tail(s), m) /\ Before({Head(s)}, Elems(Tail(s)), m)
<1>1. /\ Head(s) = s[1] /\ 1 \in 1..Len(s) /\ Len(s) \in Nat \ {0} /\ Len(Tail(s)) = Len(s) - 1
      /\ \A i \in 1..Len(Tail(s)) : i + 1 \in 1..Len(s) /\ Tail(s)[i] = s[i + 1]
  BY ElemsTail
<1>2. Sorted(Tail(s), m)
  <2> SUFFICES ASSUME NEW i \in 1..Len(Tail(s)), NEW j \in 1..Len(Tail(s)), i < j,
                      Tail(s)[i][1] = m, Tail(s)[j][1] = m
               PROVE  Tail(s)[i][2] < Tail(s)[j][2]
    BY DEF Sorted
  <2>1. i + 1 < j + 1
    OBVIOUS
  <2> QED BY <1>1, <2>1 DEF Sorted
<1>3. ASSUME NEW c \in Elems(Tail(s)), Head(s)[1] = m, c[1] = m PROVE Head(s)[2] < c[2]
  <2>1. PICK i \in 1..Len(Tail(s)) : c = Tail(s)[i]
    BY DEF Elems
  <2>2. 1 < i + 1 /\ i + 1 \in 1..Len(s) /\ c = s[i + 1]
    BY <1>1, <2>1
  <2> QED BY <1>1, <1>3, <2>2 DEF Sorted
<1> QED BY <1>2, <1>3 DEF Before

\* A batch joins the end of a channel.
LEMMA SortedAppend ==
    ASSUME NEW s \in Seq(Batch), NEW b \in Batch, NEW m, Sorted(s, m), Before(Elems(s), {b}, m)
    PROVE  Sorted(Append(s, b), m)
<1>1. /\ Len(Append(s, b)) = Len(s) + 1 /\ Len(s) \in Nat
      /\ \A i \in 1..(Len(s) + 1) : Append(s, b)[i] = IF i = Len(s) + 1 THEN b ELSE s[i]
  OBVIOUS
<1>2. \A i \in 1..Len(s) : s[i] \in Elems(s)
  BY DEF Elems
<1> SUFFICES ASSUME NEW i \in 1..(Len(s) + 1), NEW j \in 1..(Len(s) + 1), i < j,
                    Append(s, b)[i][1] = m, Append(s, b)[j][1] = m
             PROVE  Append(s, b)[i][2] < Append(s, b)[j][2]
  BY <1>1 DEF Sorted
<1>3. i \in 1..Len(s) /\ Append(s, b)[i] = s[i]
  BY <1>1
<1>4. CASE j = Len(s) + 1
  BY <1>1, <1>2, <1>3, <1>4 DEF Before
<1>5. CASE j # Len(s) + 1
  BY <1>1, <1>3, <1>5 DEF Sorted
<1> QED BY <1>4, <1>5

\* The order between the parts when the first batch h of part l joins part k.
LEMMA AdvanceOrder ==
    ASSUME NEW S, NEW T, NEW m, NEW h, NEW k \in 1..8, NEW l \in 1..8, k < l,
           S[l] = {h} \cup T[l], T[k] = S[k] \cup {h},
           \A i \in 1..8 : i # k /\ i # l => T[i] = S[i],
           \A i \in 1..8 : k < i /\ i < l => S[i] = {},
           Before({h}, T[l], m),
           \A i, j \in 1..8 : i < j => Before(S[i], S[j], m)
    PROVE  \A i, j \in 1..8 : i < j => Before(T[i], T[j], m)
<1> SUFFICES ASSUME NEW i \in 1..8, NEW j \in 1..8, i < j PROVE Before(T[i], T[j], m)
  OBVIOUS
<1>1. Before(S[i], S[j], m) /\ (l < j => Before(S[l], S[j], m)) /\ (i < l => Before(S[i], S[l], m))
  OBVIOUS
<1>2. CASE i = k /\ j = l
  BY <1>1, <1>2 DEF Before
<1>3. CASE i = k /\ j < l
  <2>1. T[j] = {}
    BY <1>3
  <2> QED BY <2>1 DEF Before
<1>4. CASE i = k /\ l < j
  <2>1. T[j] = S[j]
    BY <1>4
  <2> QED BY <1>1, <1>4, <2>1 DEF Before
<1>5. CASE j = k
  <2>1. T[i] = S[i] /\ i < l
    BY <1>5
  <2> QED BY <1>1, <1>5, <2>1 DEF Before
<1>6. CASE i # k /\ j # k
  <2>1. T[i] \subseteq S[i] /\ T[j] \subseteq S[j]
    BY <1>6
  <2> QED BY <1>1, <2>1 DEF Before
<1> QED BY <1>2, <1>3, <1>4, <1>5, <1>6

\* A batch goes from the head of part l to the end of the earlier part k, with
\* nothing between them.
Moves(s, t, k, l) ==
    /\ k \in 1..8 /\ l \in 1..8 /\ k < l
    /\ s[l] # <<>> /\ t[k] = Append(s[k], Head(s[l])) /\ t[l] = Tail(s[l])
    /\ \A i \in 1..8 : i # k /\ i # l => t[i] = s[i]
    /\ \A i \in 1..8 : k < i /\ i < l => s[i] = <<>>

Moved(s, t) == \E k, l : Moves(s, t, k, l)

\* Such a batch keeps its place in line.
LEMMA Advance ==
    ASSUME NEW s \in [1..8 -> Seq(Batch)], NEW t \in [1..8 -> Seq(Batch)], NEW m, NEW N,
           Moved(s, t), InLine(s, m, N)
    PROVE  InLine(t, m, N)
<1> PICK k, l : Moves(s, t, k, l)
  BY DEF Moved
<1>0. /\ k \in 1..8 /\ l \in 1..8 /\ k < l
      /\ s[l] # <<>> /\ t[k] = Append(s[k], Head(s[l])) /\ t[l] = Tail(s[l])
      /\ \A i \in 1..8 : i # k /\ i # l => t[i] = s[i]
      /\ \A i \in 1..8 : k < i /\ i < l => s[i] = <<>>
  BY DEF Moves
<1>1. PICK h : h = Head(s[l])
  OBVIOUS
<1>2. s[k] \in Seq(Batch) /\ s[l] \in Seq(Batch)
  BY <1>0
<1>3. /\ Elems(s[l]) = {h} \cup Elems(Tail(s[l])) /\ h \in Batch /\ h \in Elems(s[l])
  BY <1>0, <1>1, <1>2, ElemsTail
<1>4. Elems(Append(s[k], h)) = Elems(s[k]) \cup {h}
  BY <1>2, <1>3, BatchesIn, Zenon
<1>5. Elems(<<>>) = {}
  BY DEF Elems
<1> DEFINE S == [i \in 1..8 |-> Elems(s[i])]
           T == [i \in 1..8 |-> Elems(t[i])]
<1>6. S[l] = {h} \cup T[l] /\ T[k] = S[k] \cup {h}
  BY <1>0, <1>1, <1>3, <1>4
<1>7. \A i \in 1..8 : i # k /\ i # l => T[i] = S[i]
  BY <1>0
<1>8. \A i \in 1..8 : k < i /\ i < l => S[i] = {}
  BY <1>0, <1>5
<1>9. Sorted(s[l], m) /\ Sorted(s[k], m) /\ \A i, j \in 1..8 : i < j => Before(S[i], S[j], m)
  BY <1>0 DEF InLine, InOrder
<1>10. Sorted(t[l], m) /\ Before({h}, T[l], m)
  BY <1>0, <1>1, <1>2, <1>9, SortedTail
<1>11. Before(Elems(s[k]), {h}, m)
  <2>1. Before(Elems(s[k]), Elems(s[l]), m)
    BY <1>0, <1>9
  <2> QED BY <1>3, <2>1 DEF Before
<1>12. Sorted(t[k], m)
  BY <1>0, <1>1, <1>2, <1>3, <1>9, <1>11, SortedAppend
<1>13. \A i \in 1..8 : Sorted(t[i], m)
  BY <1>0, <1>10, <1>12 DEF InLine, InOrder
<1>14. \A i, j \in 1..8 : i < j => Before(T[i], T[j], m)
  <2> HIDE DEF S, T
  <2> QED BY <1>0, <1>6, <1>7, <1>8, <1>9, <1>10, AdvanceOrder, ZenonT(40)
<1>15. \A b : (\E i \in 1..8 : b \in T[i]) <=> (\E i \in 1..8 : b \in S[i])
  <2> HIDE DEF S, T
  <2> QED BY <1>0, <1>6, <1>7
<1> QED BY <1>13, <1>14, <1>15 DEF InLine, InOrder

\* A batch of another metric than m comes or goes in part k.
Passes(s, t, m, k) ==
    /\ \A i \in 1..8 : i # k => t[i] = s[i]
    /\ \/ \E b \in Batch : b[1] # m /\ t[k] = Append(s[k], b)
       \/ s[k] # <<>> /\ Head(s[k])[1] # m /\ t[k] = Tail(s[k])

\* That does not matter.
LEMMA PassBy ==
    ASSUME NEW s \in [1..8 -> Seq(Batch)], NEW t \in [1..8 -> Seq(Batch)], NEW m, NEW N,
           NEW k \in 1..8, Passes(s, t, m, k), InLine(s, m, N)
    PROVE  InLine(t, m, N)
<1>0. s[k] \in Seq(Batch)
  OBVIOUS
<1>1. Sorted(t[k], m) /\ \A b : b[1] = m => (b \in Elems(t[k]) <=> b \in Elems(s[k]))
  <2>1. Sorted(s[k], m)
    BY DEF InLine, InOrder
  <2>2. ASSUME NEW b \in Batch, b[1] # m, t[k] = Append(s[k], b)
        PROVE  Sorted(t[k], m) /\ \A c : c[1] = m => (c \in Elems(t[k]) <=> c \in Elems(s[k]))
    <3>1. Elems(t[k]) = Elems(s[k]) \cup {b}
      BY <1>0, <2>2, BatchesIn, Zenon
    <3>2. Before(Elems(s[k]), {b}, m)
      BY <2>2 DEF Before
    <3>3. Sorted(t[k], m)
      BY <1>0, <2>1, <2>2, <3>2, SortedAppend, Zenon
    <3> QED BY <2>2, <3>1, <3>3
  <2>3. ASSUME s[k] # <<>>, Head(s[k])[1] # m, t[k] = Tail(s[k])
        PROVE  Sorted(t[k], m) /\ \A c : c[1] = m => (c \in Elems(t[k]) <=> c \in Elems(s[k]))
    <3>1. Elems(s[k]) = {Head(s[k])} \cup Elems(t[k])
      BY <1>0, <2>3, ElemsTail, Zenon
    <3>2. Sorted(t[k], m)
      BY <1>0, <2>1, <2>3, SortedTail, Zenon
    <3> QED BY <2>3, <3>1, <3>2
  <2> QED BY <2>2, <2>3 DEF Passes
<1>2. \A i \in 1..8 : \A b : b[1] = m => (b \in Elems(t[i]) <=> b \in Elems(s[i]))
  BY <1>1 DEF Passes
<1>3. \A i \in 1..8 : Sorted(t[i], m)
  BY <1>1 DEF Passes, InLine, InOrder
<1>4. \A i, j \in 1..8 : i < j => Before(Elems(t[i]), Elems(t[j]), m)
  <2> SUFFICES ASSUME NEW i \in 1..8, NEW j \in 1..8, i < j PROVE Before(Elems(t[i]), Elems(t[j]), m)
    OBVIOUS
  <2>1. Before(Elems(s[i]), Elems(s[j]), m)
    BY DEF InLine, InOrder
  <2> QED BY <1>2, <2>1 DEF Before
<1>5. \A i \in Nat : (\E j \in 1..8 : <<m, i>> \in Elems(t[j])) <=> (\E j \in 1..8 : <<m, i>> \in Elems(s[j]))
  BY <1>2
<1> QED BY <1>3, <1>4, <1>5 DEF InLine, InOrder

\* The next batch of m joins the end of the line.
LEMMA Join ==
    ASSUME NEW s \in [1..8 -> Seq(Batch)], NEW t \in [1..8 -> Seq(Batch)], NEW m, NEW N,
           \A i \in 1..8 : i # 8 => t[i] = s[i], NEW b \in Batch, b[1] = m, \A i \in N : i < b[2],
           t[8] = Append(s[8], b),
           InLine(s, m, N)
    PROVE  InLine(t, m, N \cup {b[2]})
<1>0. \A i \in 1..8 : s[i] \in Seq(Batch)
  OBVIOUS
<1>1. 8 \in 1..8
  OBVIOUS
<1>2. Elems(t[8]) = Elems(s[8]) \cup {b}
  BY <1>0, <1>1, BatchesIn, Zenon
<1>3. ASSUME NEW i \in 1..8 PROVE Before(Elems(s[i]), {b}, m)
  <2> SUFFICES ASSUME NEW c \in Elems(s[i]), c[1] = m PROVE c[2] < b[2]
    BY DEF Before
  <2>1. c \in Batch
    BY <1>0, BatchesIn, Zenon
  <2>2. c = <<m, c[2]>> /\ c[2] \in Nat
    BY <2>1, Parts, Zenon
  <2>3. c[2] \in N
    <3>1. \A x \in Nat : (\E k \in 1..8 : <<m, x>> \in Elems(s[k])) => x \in N
      BY DEF InLine
    <3> QED BY <2>2, <3>1, Zenon
  <2> QED BY <2>3
<1>4. Sorted(t[8], m)
  <2>1. Sorted(s[8], m)
    BY DEF InLine, InOrder
  <2> QED BY <1>0, <1>1, <1>3, <2>1, SortedAppend, Zenon
<1>5. \A i \in 1..8 : Sorted(t[i], m)
  BY <1>4 DEF InLine, InOrder
<1>6. \A i, j \in 1..8 : i < j => Before(Elems(t[i]), Elems(t[j]), m)
  <2> SUFFICES ASSUME NEW i \in 1..8, NEW j \in 1..8, i < j PROVE Before(Elems(t[i]), Elems(t[j]), m)
    OBVIOUS
  <2>1. Before(Elems(s[i]), Elems(s[j]), m) /\ Before(Elems(s[i]), {b}, m)
    BY <1>3 DEF InLine, InOrder
  <2>2. i # 8
    BY SMTT(20)
  <2>3. Elems(t[j]) \subseteq Elems(s[j]) \cup {b}
    <3>1. CASE j = 8
      BY <1>2, <3>1
    <3>2. CASE j # 8
      BY <3>2
    <3> QED BY <3>1, <3>2
  <2>4. t[i] = s[i]
    BY <2>2, Zenon
  <2> QED BY <2>1, <2>3, <2>4, Zenon DEF Before
<1>7. ASSUME NEW i \in Nat PROVE (\E k \in 1..8 : <<m, i>> \in Elems(t[k])) <=> i \in N \cup {b[2]}
  <2>1. (\E k \in 1..8 : <<m, i>> \in Elems(t[k])) <=> (\E k \in 1..8 : <<m, i>> \in Elems(s[k])) \/ <<m, i>> = b
    <3>1. \A k \in 1..8 : k # 8 => Elems(t[k]) = Elems(s[k])
      BY Zenon
    <3>2. \A k \in 1..8 : <<m, i>> \in Elems(t[k]) => <<m, i>> \in Elems(s[k]) \/ <<m, i>> = b
      BY <1>2, <3>1, Zenon
    <3>3. \A k \in 1..8 : <<m, i>> \in Elems(s[k]) => <<m, i>> \in Elems(t[k])
      BY <1>2, <3>1, Zenon
    <3>4. b \in Elems(t[8])
      BY <1>2, Zenon
    <3> QED BY <1>1, <3>2, <3>3, <3>4, Zenon
  <2>2. <<m, i>> = b <=> i = b[2]
    <3>1. b = <<m, b[2]>>
      BY Parts, Zenon
    <3> QED BY <3>1
  <2>3. (\E k \in 1..8 : <<m, i>> \in Elems(s[k])) <=> i \in N
    BY Zenon DEF InLine, InOrder
  <2> QED BY <2>1, <2>2, <2>3, SMTT(20)
<1> QED BY <1>5, <1>6, <1>7 DEF InLine, InOrder

\* A batch goes to the worker of its metric only.
LEMMA HomeStep == ASSUME TypeOK, LifeOK, HomeOK, [SystemNext]_allVars PROVE HomeOK'
<1> USE DEF chanVars, ownVars, lifeVars, throttleVars, shuffleVars, workVars, fileVars,
            unchangedByThrottle, unchangedByShuffler, unchangedByWorker
<1>0. /\ workerP \in [Workers -> Batch \cup {None}] /\ channels \in [Workers -> Seq(Batch)]
      /\ workersCount \in WorkerCounts
  BY DEF TypeOK
<1>1. CASE UNCHANGED <<workersCount, workerP, channels>>
  <2>1. \A m : Home(m)' = Home(m)
    BY <1>1 DEF Home, Solo, Index
  <2> QED BY <1>1, <2>1 DEF HomeOK, Elems
<1>2. ASSUME NEW n \in WorkerCounts, NEW t \in Throttling, Start(n, t) PROVE HomeOK'
  <2>1. \A w \in Workers : workerP'[w] = None /\ channels'[w] = <<>>
    BY <1>2 DEF Start
  <2> QED BY <2>1 DEF HomeOK, Elems
<1>3. CASE ShufflerSend
  <2>1. PICK b, w : b = shufflerP /\ w = Index(b[1])
    OBVIOUS
  <2>2. b \in Batch /\ ~Solo
    BY <1>3, <2>1 DEF ShufflerSend, LifeOK, ShufflerOK, TypeOK
  <2>3. w \in Workers /\ w = Home(b[1])
    BY <1>0, <2>1, <2>2, Parts, WorkerThere DEF Home
  <2>4. UNCHANGED <<workersCount, workerP>> /\ channels' = [channels EXCEPT ![w] = Append(@, b)]
    BY <1>3, <2>1 DEF ShufflerSend
  <2>5. \A v \in Workers : Elems(channels'[v]) \subseteq Elems(channels[v]) \cup (IF v = w THEN {b} ELSE {})
    BY <1>0, <2>2, <2>3, <2>4, BatchesIn
  <2>6. \A m : Home(m)' = Home(m)
    BY <2>4 DEF Home, Solo, Index
  <2>7. \A v \in Workers : \A c \in Elems(channels'[v]) : v = Home(c[1])
    BY <2>3, <2>5 DEF HomeOK
  <2> QED BY <2>4, <2>6, <2>7 DEF HomeOK, Elems
<1>4. ASSUME NEW w \in Workers, WorkerReceive(w) PROVE HomeOK'
  <2>1. UNCHANGED workersCount /\ workerPC[w] = "select"
    BY <1>4 DEF WorkerReceive
  <2>2. \A m : Home(m)' = Home(m)
    BY <2>1 DEF Home, Solo, Index
  <2>3. CASE Solo
    <3>1. w = 0
      BY <1>0, <2>1, <2>3, WorkerThere DEF LifeOK, WorkersOK, Workers
    <3>2. UNCHANGED channels /\ \A v \in Workers : v # w => workerP'[v] = workerP[v]
      BY <1>0, <1>4, <2>3 DEF WorkerReceive
    <3>3. \A m : Home(m) = 0
      BY <2>3 DEF Home
    <3>4. \A v \in Workers : workerP'[v] # None => v = Home(workerP'[v][1])
      BY <3>1, <3>2, <3>3 DEF HomeOK
    <3>5. \A v \in Workers : \A c \in Elems(channels'[v]) : v = Home(c[1])
      BY <3>2 DEF HomeOK
    <3> QED BY <2>2, <3>4, <3>5 DEF HomeOK, Elems
  <2>4. CASE ~Solo
    <3>1. PICK s : s = channels[w]
      OBVIOUS
    <3>2. /\ s \in Seq(Batch) /\ s # <<>> /\ workerP' = [workerP EXCEPT ![w] = Head(s)]
          /\ channels' = [channels EXCEPT ![w] = Tail(s)]
      BY <1>0, <1>4, <2>4, <3>1 DEF WorkerReceive
    <3>3. Head(s) \in Elems(s) /\ Elems(Tail(s)) \subseteq Elems(s)
      BY <3>2, ElemsTail
    <3>4. \A v \in Workers : Elems(channels'[v]) \subseteq Elems(channels[v])
      BY <1>0, <3>1, <3>2, <3>3
    <3>5. \A v \in Workers : workerP'[v] # None => v = Home(workerP'[v][1])
      BY <1>0, <3>1, <3>2, <3>3 DEF HomeOK
    <3>6. \A v \in Workers : \A c \in Elems(channels'[v]) : v = Home(c[1])
      BY <3>4 DEF HomeOK
    <3> QED BY <2>2, <3>5, <3>6 DEF HomeOK, Elems
  <2> QED BY <2>3, <2>4
<1>5. ASSUME NEW w \in Workers, StoreConfirm(w) PROVE HomeOK'
  <2>1. UNCHANGED <<workersCount, channels>> /\ workerP' = [workerP EXCEPT ![w] = None]
    BY <1>5 DEF StoreConfirm
  <2>2. \A m : Home(m)' = Home(m)
    BY <2>1 DEF Home, Solo, Index
  <2>3. \A v \in Workers : workerP'[v] # None => workerP'[v] = workerP[v]
    BY <1>0, <2>1
  <2> QED BY <2>1, <2>2, <2>3 DEF HomeOK, Elems
<1>6. \/ UNCHANGED <<workersCount, workerP, channels>> \/ ShufflerSend
      \/ \E n \in WorkerCounts, t \in Throttling : Start(n, t)
      \/ \E w \in Workers : WorkerReceive(w) \/ StoreConfirm(w)
  BY DEF SystemNext, Persist, Goroutines, LifeCycle, Throttle, Shuffler, Worker, Feed, CloseIn,
         ReadConfirm, allVars, StopBegin, StopEnd, ThrottleTick, ThrottleReceive, ThrottleSend,
         ThrottleEnd, ShufflerReceive, ShufflerEnd, WorkerEnd, StoreOpen, StoreFail, StoreUpdate,
         StorePanic
<1> QED BY <1>1, <1>2, <1>3, <1>4, <1>5, <1>6

\* Eight sequences of batches, and what each is.
LEMMA EightParts ==
    ASSUME NEW a1 \in Seq(Batch), NEW a2 \in Seq(Batch), NEW a3 \in Seq(Batch), NEW a4 \in Seq(Batch),
           NEW a5 \in Seq(Batch), NEW a6 \in Seq(Batch), NEW a7 \in Seq(Batch), NEW a8 \in Seq(Batch),
           NEW s, s = <<a1, a2, a3, a4, a5, a6, a7, a8>>
    PROVE  /\ s \in [1..8 -> Seq(Batch)]
           /\ s[1] = a1 /\ s[2] = a2 /\ s[3] = a3 /\ s[4] = a4
           /\ s[5] = a5 /\ s[6] = a6 /\ s[7] = a7 /\ s[8] = a8
OBVIOUS

\* The parts of Path(v) are eight sequences of batches.
LEMMA StagesNow ==
    ASSUME TypeOK, NEW v \in Workers, NEW s, s = Stages(v)
    PROVE  /\ s \in [1..8 -> Seq(Batch)]
           /\ s[1] = acked /\ s[2] = confirm /\ s[3] = InSeq(workerP[v]) /\ s[4] = channels[v]
           /\ s[5] = InSeq(shufflerP) /\ s[6] = throttleOut /\ s[7] = InSeq(throttleP) /\ s[8] = in
<1>1. /\ InSeq(workerP[v]) \in Seq(Batch) /\ InSeq(shufflerP) \in Seq(Batch)
      /\ InSeq(throttleP) \in Seq(Batch)
      /\ acked \in Seq(Batch) /\ confirm \in Seq(Batch) /\ channels[v] \in Seq(Batch)
      /\ throttleOut \in Seq(Batch) /\ in \in Seq(Batch)
  BY Hand DEF TypeOK
<1>2. s = << acked, confirm, InSeq(workerP[v]), channels[v],
             InSeq(shufflerP), throttleOut, InSeq(throttleP), in >>
  BY DEF Stages
<1>3. PICK a1, a2, a3, a4, a5, a6, a7, a8 :
          /\ a1 = acked /\ a2 = confirm /\ a3 = InSeq(workerP[v]) /\ a4 = channels[v]
          /\ a5 = InSeq(shufflerP) /\ a6 = throttleOut /\ a7 = InSeq(throttleP) /\ a8 = in
  OBVIOUS
<1>4. s = <<a1, a2, a3, a4, a5, a6, a7, a8>>
  BY <1>2, <1>3
<1>5. /\ a1 \in Seq(Batch) /\ a2 \in Seq(Batch) /\ a3 \in Seq(Batch) /\ a4 \in Seq(Batch)
      /\ a5 \in Seq(Batch) /\ a6 \in Seq(Batch) /\ a7 \in Seq(Batch) /\ a8 \in Seq(Batch)
  BY <1>1, <1>3
<1>6. /\ s \in [1..8 -> Seq(Batch)]
      /\ s[1] = a1 /\ s[2] = a2 /\ s[3] = a3 /\ s[4] = a4
      /\ s[5] = a5 /\ s[6] = a6 /\ s[7] = a7 /\ s[8] = a8
  BY <1>4, <1>5, EightParts
<1> QED BY <1>3, <1>6

\* s and t are the parts of Path(v) before and after a step.
StageStep(s, t, v) ==
    /\ s \in [1..8 -> Seq(Batch)] /\ t \in [1..8 -> Seq(Batch)]
    /\ s[1] = acked /\ s[2] = confirm /\ s[3] = InSeq(workerP[v]) /\ s[4] = channels[v]
    /\ s[5] = InSeq(shufflerP) /\ s[6] = throttleOut /\ s[7] = InSeq(throttleP) /\ s[8] = in
    /\ t[1] = acked' /\ t[2] = confirm' /\ t[3] = InSeq(workerP'[v]) /\ t[4] = channels'[v]
    /\ t[5] = InSeq(shufflerP') /\ t[6] = throttleOut' /\ t[7] = InSeq(throttleP') /\ t[8] = in'

\* They are eight sequences of batches.
LEMMA StageFacts ==
    ASSUME TypeOK, TypeOK', NEW v \in Workers
    PROVE  \E s, t : s = Stages(v) /\ t = Stages(v)' /\ StageStep(s, t, v)
<1>1. PICK s : s = Stages(v)
  OBVIOUS
<1>2. PICK t : t = Stages(v)'
  OBVIOUS
<1>4. /\ InSeq(workerP'[v]) \in Seq(Batch) /\ InSeq(shufflerP') \in Seq(Batch)
      /\ InSeq(throttleP') \in Seq(Batch)
      /\ acked' \in Seq(Batch) /\ confirm' \in Seq(Batch) /\ channels'[v] \in Seq(Batch)
      /\ throttleOut' \in Seq(Batch) /\ in' \in Seq(Batch)
  BY Hand DEF TypeOK
<1>6. t = << acked', confirm', InSeq(workerP'[v]), channels'[v],
             InSeq(shufflerP'), throttleOut', InSeq(throttleP'), in' >>
  BY <1>2 DEF Stages, InSeq
<1>7. /\ s \in [1..8 -> Seq(Batch)]
      /\ s[1] = acked /\ s[2] = confirm /\ s[3] = InSeq(workerP[v]) /\ s[4] = channels[v]
      /\ s[5] = InSeq(shufflerP) /\ s[6] = throttleOut /\ s[7] = InSeq(throttleP) /\ s[8] = in
  BY <1>1, StagesNow
<1>8. /\ t \in [1..8 -> Seq(Batch)]
      /\ t[1] = acked' /\ t[2] = confirm' /\ t[3] = InSeq(workerP'[v]) /\ t[4] = channels'[v]
      /\ t[5] = InSeq(shufflerP') /\ t[6] = throttleOut' /\ t[7] = InSeq(throttleP') /\ t[8] = in'
  <2>1. PICK a1, a2, a3, a4, a5, a6, a7, a8 :
            /\ a1 = acked' /\ a2 = confirm' /\ a3 = InSeq(workerP'[v]) /\ a4 = channels'[v]
            /\ a5 = InSeq(shufflerP') /\ a6 = throttleOut' /\ a7 = InSeq(throttleP') /\ a8 = in'
    OBVIOUS
  <2>2. t = <<a1, a2, a3, a4, a5, a6, a7, a8>>
    BY <1>6, <2>1
  <2>3. /\ a1 \in Seq(Batch) /\ a2 \in Seq(Batch) /\ a3 \in Seq(Batch) /\ a4 \in Seq(Batch)
        /\ a5 \in Seq(Batch) /\ a6 \in Seq(Batch) /\ a7 \in Seq(Batch) /\ a8 \in Seq(Batch)
    BY <1>4, <2>1
  <2>4. /\ t \in [1..8 -> Seq(Batch)]
        /\ t[1] = a1 /\ t[2] = a2 /\ t[3] = a3 /\ t[4] = a4
        /\ t[5] = a5 /\ t[6] = a6 /\ t[7] = a7 /\ t[8] = a8
    BY <2>2, <2>3, EightParts
  <2> QED BY <2>1, <2>4
<1>9. StageStep(s, t, v)
  BY <1>7, <1>8 DEF StageStep
<1> QED BY <1>1, <1>2, <1>9

\* What has to be shown for a metric, with the worker it had before the step.
LEMMA LineKept ==
    ASSUME TypeOK, TypeOK', UNCHANGED workersCount, NEW m \in Metric, NEW N, NEW M,
           InLine(Stages(Home(m)), m, N),
           \A v \in Workers : \A s, t :
               v = Home(m) /\ StageStep(s, t, v) /\ InLine(s, m, N) => InLine(t, m, M)
    PROVE  InLine(Stages(Home(m))', m, M)
<1>2. PICK v \in Workers : v = Home(m)
  BY WorkerThere DEF TypeOK
<1>3. Home(m)' = v
  BY <1>2 DEF Home, Solo, Index
<1>4. Stages(Home(m))' = Stages(v)'
  BY <1>3 DEF Stages
<1>5. InLine(Stages(v), m, N)
  BY <1>2
<1>6. PICK s, t : s = Stages(v) /\ t = Stages(v)' /\ StageStep(s, t, v)
  BY StageFacts
<1> QED BY <1>2, <1>4, <1>5, <1>6

\* A receive from the source, by the shuffler or the only worker.
LEMMA SourceHead ==
    ASSUME TypeOK, LifeOK, Source # <<>>, TakeSource
    PROVE  /\ Head(Source) \in Batch
           /\ \/ throttleOut # <<>> /\ throttleOut' = Tail(throttleOut) /\ in' = in
                 /\ Head(Source) = Head(throttleOut)
              \/ in # <<>> /\ in' = Tail(in) /\ throttleOut = <<>> /\ throttleOut' = throttleOut
                 /\ throttleP = None /\ Head(Source) = Head(in)
<1>1. Head(Source) \in Batch
  BY SourceType
<1>2. CASE throttled
  BY <1>1, <1>2 DEF Source, TakeSource
<1>3. CASE ~throttled
  BY <1>1, <1>3 DEF Source, TakeSource, LifeOK, ThrottleOK
<1> QED BY <1>2, <1>3

\* Nothing moves.
LEMMA SameParts ==
    ASSUME NEW s, NEW t, s \in [1..8 -> Seq(Batch)], t \in [1..8 -> Seq(Batch)],
           t[1] = s[1], t[2] = s[2], t[3] = s[3], t[4] = s[4],
           t[5] = s[5], t[6] = s[6], t[7] = s[7], t[8] = s[8]
    PROVE  t = s
<1>1. \A i \in 1..8 : t[i] = s[i]
  OBVIOUS
<1>2. s = [i \in 1..8 |-> s[i]] /\ t = [i \in 1..8 |-> t[i]]
  OBVIOUS
<1> QED BY <1>1, <1>2, Zenon

\* The steps of the persister itself, and Start and Stop, keep the line of every
\* metric, whatever numbers its batches have.
LEMMA PersistLine ==
    ASSUME TypeOK, TypeOK', LifeOK, HomeOK, Goroutines \/ LifeCycle, UNCHANGED acked,
           NEW m \in Metric, NEW N, InLine(Stages(Home(m)), m, N)
    PROVE  InLine(Stages(Home(m))', m, N)
<1> USE DEF chanVars, ownVars, lifeVars, throttleVars, shuffleVars, workVars, fileVars,
            unchangedByThrottle, unchangedByShuffler, unchangedByWorker
<1>0. InSeq(None) = <<>>
  BY DEF InSeq
<1>1. CASE UNCHANGED <<acked, confirm, workerP, channels, shufflerP, throttleOut, throttleP, in,
                       workersCount>>
  <2> SUFFICES ASSUME NEW v \in Workers, NEW s, NEW t, v = Home(m),
                      StageStep(s, t, v), InLine(s, m, N)
               PROVE  InLine(t, m, N)
    BY <1>1, LineKept
  <2>1. s \in [1..8 -> Seq(Batch)] /\ t \in [1..8 -> Seq(Batch)]
    BY DEF StageStep
  <2>2. /\ t[1] = s[1] /\ t[2] = s[2] /\ t[3] = s[3] /\ t[4] = s[4]
        /\ t[5] = s[5] /\ t[6] = s[6] /\ t[7] = s[7] /\ t[8] = s[8]
    BY <1>1 DEF StageStep
  <2>3. t = s
    BY <2>1, <2>2, SameParts, Zenon
  <2> QED BY <1>1, <2>3
<1>2. ASSUME NEW n \in WorkerCounts, NEW t \in Throttling, Start(n, t) PROVE InLine(Stages(Home(m))', m, N)
  <2>2. PICK v \in Workers : v = Home(m)
    BY WorkerThere DEF TypeOK
  <2>3. PICK u : u = Home(m)'
    OBVIOUS
  <2>4. u \in Workers
    <3>1. workersCount' = n /\ n \in Nat \ {0}
      BY <1>2, WorkersAssumption DEF Start
    <3>2. MaxWorkers \in WorkerCounts /\ \A i \in WorkerCounts : i <= MaxWorkers
      BY WorkersAssumption DEF MaxWorkers
    <3>3. n <= MaxWorkers /\ MaxWorkers \in Nat
      BY <3>2, WorkersAssumption
    <3>4. Hash[m] % n \in 0..(n - 1)
      BY <3>1, HashAssumption
    <3>5. u = IF n <= 1 THEN 0 ELSE Hash[m] % n
      BY <2>3, <3>1 DEF Home, Solo, Index
    <3> QED BY <3>1, <3>3, <3>4, <3>5 DEF Workers
  <2>5. /\ workerP[v] = None /\ channels[v] = <<>> /\ shufflerP = None /\ throttleOut = <<>>
        /\ throttleP = None
    BY <1>2 DEF Start, LifeOK, StoppedOK, WorkersOK, ShufflerOK, ThrottleOK
  <2>6. /\ workerP'[u] = None /\ channels'[u] = <<>> /\ shufflerP' = None /\ throttleOut' = <<>>
        /\ throttleP' = None /\ UNCHANGED <<in, confirm>>
    BY <1>2, <2>4 DEF Start
  <2>7. Stages(Home(m))' = Stages(v)
    BY <1>2, <2>3, <2>5, <2>6 DEF Stages, InSeq
  <2>8. InLine(Stages(v), m, N)
    BY <2>2
  <2> QED BY <1>2, <2>7, <2>8
<1>3. ASSUME ThrottleReceive PROVE InLine(Stages(Home(m))', m, N)
  <2>1. /\ in # <<>> /\ throttleP = None /\ throttleP' = Head(in) /\ in' = Tail(in)
        /\ UNCHANGED <<acked, confirm, workerP, channels, shufflerP, throttleOut, workersCount>>
    BY <1>3 DEF ThrottleReceive, LifeOK, ThrottleOK
  <2>2. InSeq(throttleP') = Append(InSeq(throttleP), Head(in))
    <3>1. Head(in) \in Batch
      BY <2>1, ElemsTail DEF TypeOK
    <3> QED BY <2>1, <3>1, NoneAssumption, Hand
  <2> SUFFICES ASSUME NEW v \in Workers, NEW s, NEW t, v = Home(m),
                      StageStep(s, t, v), InLine(s, m, N)
               PROVE  InLine(t, m, N)
    BY <2>1, LineKept
  <2>98. s \in [1..8 -> Seq(Batch)] /\ t \in [1..8 -> Seq(Batch)]
    BY DEF StageStep
  <2>99. /\ s \in [1..8 -> Seq(Batch)] /\ t \in [1..8 -> Seq(Batch)]
        /\ s[1] = acked /\ s[2] = confirm /\ s[3] = InSeq(workerP[v]) /\ s[4] = channels[v]
        /\ s[5] = InSeq(shufflerP) /\ s[6] = throttleOut /\ s[7] = InSeq(throttleP) /\ s[8] = in
        /\ t[1] = acked' /\ t[2] = confirm' /\ t[3] = InSeq(workerP'[v]) /\ t[4] = channels'[v]
        /\ t[5] = InSeq(shufflerP') /\ t[6] = throttleOut' /\ t[7] = InSeq(throttleP') /\ t[8] = in'
    BY DEF StageStep
  <2>3. /\ s[8] # <<>> /\ t[7] = Append(s[7], Head(s[8])) /\ t[8] = Tail(s[8])
        /\ t[1] = s[1] /\ t[2] = s[2] /\ t[3] = s[3] /\ t[4] = s[4] /\ t[5] = s[5] /\ t[6] = s[6]
    BY <2>1, <2>2, <2>99
  <2>4. Moved(s, t)
    <3>1. Moves(s, t, 7, 8)
      BY <2>3 DEF Moves
    <3> QED BY <3>1 DEF Moved
  <2>5. InLine(t, m, N)
    BY <2>98, <2>4, Advance, Zenon
  <2> QED BY <2>1, <2>5
<1>4. ASSUME ThrottleSend PROVE InLine(Stages(Home(m))', m, N)
  <2>1. /\ throttleP \in Batch /\ throttleP # None /\ throttleOut' = Append(throttleOut, throttleP)
        /\ throttleP' = None
        /\ UNCHANGED <<acked, confirm, workerP, channels, shufflerP, in, workersCount>>
    BY <1>4 DEF ThrottleSend, LifeOK, ThrottleOK, TypeOK
  <2>2. /\ InSeq(throttleP) # <<>> /\ Head(InSeq(throttleP)) = throttleP
        /\ Tail(InSeq(throttleP)) = InSeq(throttleP')
    BY <2>1, Hand
  <2> SUFFICES ASSUME NEW v \in Workers, NEW s, NEW t, v = Home(m),
                      StageStep(s, t, v), InLine(s, m, N)
               PROVE  InLine(t, m, N)
    BY <2>1, LineKept
  <2>98. s \in [1..8 -> Seq(Batch)] /\ t \in [1..8 -> Seq(Batch)]
    BY DEF StageStep
  <2>99. /\ s \in [1..8 -> Seq(Batch)] /\ t \in [1..8 -> Seq(Batch)]
        /\ s[1] = acked /\ s[2] = confirm /\ s[3] = InSeq(workerP[v]) /\ s[4] = channels[v]
        /\ s[5] = InSeq(shufflerP) /\ s[6] = throttleOut /\ s[7] = InSeq(throttleP) /\ s[8] = in
        /\ t[1] = acked' /\ t[2] = confirm' /\ t[3] = InSeq(workerP'[v]) /\ t[4] = channels'[v]
        /\ t[5] = InSeq(shufflerP') /\ t[6] = throttleOut' /\ t[7] = InSeq(throttleP') /\ t[8] = in'
    BY DEF StageStep
  <2>3. /\ s[7] # <<>> /\ t[6] = Append(s[6], Head(s[7])) /\ t[7] = Tail(s[7])
        /\ t[1] = s[1] /\ t[2] = s[2] /\ t[3] = s[3] /\ t[4] = s[4] /\ t[5] = s[5] /\ t[8] = s[8]
    BY <2>1, <2>2, <2>99
  <2>4. Moved(s, t)
    <3>1. Moves(s, t, 6, 7)
      BY <2>3 DEF Moves
    <3> QED BY <3>1 DEF Moved
  <2>5. InLine(t, m, N)
    BY <2>98, <2>4, Advance, Zenon
  <2> QED BY <2>1, <2>5
<1>5. ASSUME ShufflerReceive PROVE InLine(Stages(Home(m))', m, N)
  <2>1. /\ Source # <<>> /\ TakeSource /\ shufflerP = None /\ shufflerP' = Head(Source)
        /\ UNCHANGED <<acked, confirm, workerP, channels, throttleP, workersCount>>
    BY <1>5 DEF ShufflerReceive, LifeOK, ShufflerOK
  <2>2. Head(Source) \in Batch /\ InSeq(shufflerP') = Append(InSeq(shufflerP), Head(Source))
    BY <2>1, SourceType, NoneAssumption, Hand
  <2> SUFFICES ASSUME NEW v \in Workers, NEW s, NEW t, v = Home(m),
                      StageStep(s, t, v), InLine(s, m, N)
               PROVE  InLine(t, m, N)
    BY <2>1, LineKept
  <2>98. s \in [1..8 -> Seq(Batch)] /\ t \in [1..8 -> Seq(Batch)]
    BY DEF StageStep
  <2>99. /\ s \in [1..8 -> Seq(Batch)] /\ t \in [1..8 -> Seq(Batch)]
        /\ s[1] = acked /\ s[2] = confirm /\ s[3] = InSeq(workerP[v]) /\ s[4] = channels[v]
        /\ s[5] = InSeq(shufflerP) /\ s[6] = throttleOut /\ s[7] = InSeq(throttleP) /\ s[8] = in
        /\ t[1] = acked' /\ t[2] = confirm' /\ t[3] = InSeq(workerP'[v]) /\ t[4] = channels'[v]
        /\ t[5] = InSeq(shufflerP') /\ t[6] = throttleOut' /\ t[7] = InSeq(throttleP') /\ t[8] = in'
    BY DEF StageStep
  <2>3. CASE throttleOut # <<>> /\ throttleOut' = Tail(throttleOut) /\ in' = in
             /\ Head(Source) = Head(throttleOut)
    <3>1. /\ s[6] # <<>> /\ t[5] = Append(s[5], Head(s[6])) /\ t[6] = Tail(s[6])
          /\ t[1] = s[1] /\ t[2] = s[2] /\ t[3] = s[3] /\ t[4] = s[4] /\ t[7] = s[7] /\ t[8] = s[8]
      BY <2>1, <2>2, <2>3, <2>99
    <3>2. Moved(s, t)
      <4>1. Moves(s, t, 5, 6)
        BY <3>1 DEF Moves
      <4> QED BY <4>1 DEF Moved
    <3>3. InLine(t, m, N)
      BY <2>98, <3>2, Advance, Zenon
    <3> QED BY <2>1, <3>3
  <2>4. CASE in # <<>> /\ in' = Tail(in) /\ throttleOut = <<>> /\ throttleOut' = throttleOut
             /\ throttleP = None /\ Head(Source) = Head(in)
    <3>1. /\ s[8] # <<>> /\ t[5] = Append(s[5], Head(s[8])) /\ t[8] = Tail(s[8]) /\ s[6] = <<>> /\ s[7] = <<>>
          /\ t[1] = s[1] /\ t[2] = s[2] /\ t[3] = s[3] /\ t[4] = s[4] /\ t[6] = s[6] /\ t[7] = s[7]
      BY <1>0, <2>1, <2>2, <2>4, <2>99
    <3>2. Moved(s, t)
      <4>1. Moves(s, t, 5, 8)
        BY <3>1 DEF Moves
      <4> QED BY <4>1 DEF Moved
    <3>3. InLine(t, m, N)
      BY <2>98, <3>2, Advance, Zenon
    <3> QED BY <2>1, <3>3
  <2> QED BY <2>1, <2>3, <2>4, SourceHead
<1>6. ASSUME ShufflerSend PROVE InLine(Stages(Home(m))', m, N)
  <2>1. PICK b, w : b = shufflerP /\ w = Index(b[1])
    OBVIOUS
  <2>2. b \in Batch /\ b # None /\ ~Solo
    BY <1>6, <2>1 DEF ShufflerSend, LifeOK, ShufflerOK, TypeOK
  <2>3. w \in Workers /\ w = Home(b[1])
    BY <2>1, <2>2, Parts, WorkerThere DEF Home, TypeOK
  <2>4. /\ channels' = [channels EXCEPT ![w] = Append(@, b)] /\ shufflerP' = None
        /\ UNCHANGED <<acked, confirm, workerP, throttleOut, throttleP, in, workersCount>>
    BY <1>6, <2>1 DEF ShufflerSend
  <2>5. InSeq(shufflerP) # <<>> /\ Head(InSeq(shufflerP)) = b /\ Tail(InSeq(shufflerP)) = InSeq(shufflerP')
    BY <2>1, <2>2, <2>4, Hand
  <2>6. \A u \in Workers : channels'[u] = IF u = w THEN Append(channels[u], b) ELSE channels[u]
    BY <2>3, <2>4 DEF TypeOK
  <2> SUFFICES ASSUME NEW v \in Workers, NEW s, NEW t, v = Home(m),
                      StageStep(s, t, v), InLine(s, m, N)
               PROVE  InLine(t, m, N)
    BY <2>4, LineKept
  <2>98. s \in [1..8 -> Seq(Batch)] /\ t \in [1..8 -> Seq(Batch)]
    BY DEF StageStep
  <2>99. /\ s \in [1..8 -> Seq(Batch)] /\ t \in [1..8 -> Seq(Batch)]
        /\ s[1] = acked /\ s[2] = confirm /\ s[3] = InSeq(workerP[v]) /\ s[4] = channels[v]
        /\ s[5] = InSeq(shufflerP) /\ s[6] = throttleOut /\ s[7] = InSeq(throttleP) /\ s[8] = in
        /\ t[1] = acked' /\ t[2] = confirm' /\ t[3] = InSeq(workerP'[v]) /\ t[4] = channels'[v]
        /\ t[5] = InSeq(shufflerP') /\ t[6] = throttleOut' /\ t[7] = InSeq(throttleP') /\ t[8] = in'
    BY DEF StageStep
  <2>7. CASE v = w
    <3>1. /\ s[5] # <<>> /\ t[4] = Append(s[4], Head(s[5])) /\ t[5] = Tail(s[5])
          /\ t[1] = s[1] /\ t[2] = s[2] /\ t[3] = s[3] /\ t[6] = s[6] /\ t[7] = s[7] /\ t[8] = s[8]
      BY <2>4, <2>5, <2>6, <2>7, <2>99
    <3>2. Moved(s, t)
      <4>1. Moves(s, t, 4, 5)
        BY <3>1 DEF Moves
      <4> QED BY <4>1 DEF Moved
    <3>3. InLine(t, m, N)
      BY <2>98, <3>2, Advance, Zenon
    <3> QED BY <2>4, <3>3
  <2>8. CASE v # w
    <3>1. b[1] # m
      BY <2>3, <2>8
    <3>2. /\ s[5] # <<>> /\ Head(s[5])[1] # m /\ t[5] = Tail(s[5])
          /\ t[1] = s[1] /\ t[2] = s[2] /\ t[3] = s[3] /\ t[4] = s[4] /\ t[6] = s[6] /\ t[7] = s[7] /\ t[8] = s[8]
      BY <2>4, <2>5, <2>6, <2>8, <3>1, <2>99
    <3>3. Passes(s, t, m, 5) /\ 5 \in 1..8
      BY <2>2, <3>1, <3>2 DEF Passes
    <3>4. InLine(t, m, N)
      BY <2>98, <3>3, PassBy, Zenon
    <3> QED BY <2>4, <3>4
  <2> QED BY <2>7, <2>8
<1>7. ASSUME NEW w \in Workers, WorkerReceive(w) PROVE InLine(Stages(Home(m))', m, N)
  <2>1. /\ UNCHANGED <<acked, confirm, shufflerP, throttleP, workersCount>>
        /\ workerPC[w] = "select" /\ workerP[w] = None
    BY <1>7 DEF WorkerReceive, LifeOK, WorkersOK
  <2> SUFFICES ASSUME NEW v \in Workers, NEW s, NEW t, v = Home(m),
                      StageStep(s, t, v), InLine(s, m, N)
               PROVE  InLine(t, m, N)
    BY <2>1, LineKept
  <2>98. s \in [1..8 -> Seq(Batch)] /\ t \in [1..8 -> Seq(Batch)]
    BY DEF StageStep
  <2>99. /\ s \in [1..8 -> Seq(Batch)] /\ t \in [1..8 -> Seq(Batch)]
        /\ s[1] = acked /\ s[2] = confirm /\ s[3] = InSeq(workerP[v]) /\ s[4] = channels[v]
        /\ s[5] = InSeq(shufflerP) /\ s[6] = throttleOut /\ s[7] = InSeq(throttleP) /\ s[8] = in
        /\ t[1] = acked' /\ t[2] = confirm' /\ t[3] = InSeq(workerP'[v]) /\ t[4] = channels'[v]
        /\ t[5] = InSeq(shufflerP') /\ t[6] = throttleOut' /\ t[7] = InSeq(throttleP') /\ t[8] = in'
    BY DEF StageStep
  <2>2. CASE Solo
    <3>1. w = 0 /\ v = 0
      BY <2>1, <2>2, WorkerThere DEF LifeOK, WorkersOK, Workers, Home, TypeOK
    <3>2. /\ Source # <<>> /\ TakeSource /\ workerP' = [workerP EXCEPT ![w] = Head(Source)]
          /\ UNCHANGED channels
      BY <1>7, <2>2 DEF WorkerReceive
    <3>3. Head(Source) \in Batch /\ workerP'[v] = Head(Source)
      BY <3>1, <3>2, SourceType DEF TypeOK
    <3>4. InSeq(workerP'[v]) = Append(InSeq(workerP[v]), Head(Source))
      BY <2>1, <3>1, <3>3, NoneAssumption, Hand
    <3>5. channels[v] = <<>> /\ shufflerP = None
      BY <2>2 DEF LifeOK, WorkersOK, ShufflerOK
    <3>6. CASE throttleOut # <<>> /\ throttleOut' = Tail(throttleOut) /\ in' = in
               /\ Head(Source) = Head(throttleOut)
      <4>1. /\ s[6] # <<>> /\ t[3] = Append(s[3], Head(s[6])) /\ t[6] = Tail(s[6]) /\ s[4] = <<>> /\ s[5] = <<>>
            /\ t[1] = s[1] /\ t[2] = s[2] /\ t[4] = s[4] /\ t[5] = s[5] /\ t[7] = s[7] /\ t[8] = s[8]
        BY <1>0, <2>1, <3>2, <3>4, <3>5, <3>6, <2>99
      <4>2. Moved(s, t)
        <5>1. Moves(s, t, 3, 6)
          BY <4>1 DEF Moves
        <5> QED BY <5>1 DEF Moved
      <4>3. InLine(t, m, N)
        BY <2>98, <4>2, Advance, Zenon
      <4> QED BY <2>1, <4>3
    <3>7. CASE in # <<>> /\ in' = Tail(in) /\ throttleOut = <<>> /\ throttleOut' = throttleOut
               /\ throttleP = None /\ Head(Source) = Head(in)
      <4>1. /\ s[8] # <<>> /\ t[3] = Append(s[3], Head(s[8])) /\ t[8] = Tail(s[8]) /\ s[4] = <<>> /\ s[5] = <<>> /\ s[6] = <<>> /\ s[7] = <<>>
            /\ t[1] = s[1] /\ t[2] = s[2] /\ t[4] = s[4] /\ t[5] = s[5] /\ t[6] = s[6] /\ t[7] = s[7]
        BY <1>0, <2>1, <3>2, <3>4, <3>5, <3>7, <2>99
      <4>2. Moved(s, t)
        <5>1. Moves(s, t, 3, 8)
          BY <4>1 DEF Moves
        <5> QED BY <5>1 DEF Moved
      <4>3. InLine(t, m, N)
        BY <2>98, <4>2, Advance, Zenon
      <4> QED BY <2>1, <4>3
    <3> QED BY <3>2, <3>6, <3>7, SourceHead
  <2>3. CASE ~Solo /\ v = w
    <3>1. /\ channels[v] # <<>> /\ channels'[v] = Tail(channels[v])
          /\ workerP'[v] = Head(channels[v]) /\ UNCHANGED <<in, throttleOut>>
      BY <1>7, <2>3 DEF WorkerReceive, TypeOK
    <3>2. Head(channels[v]) \in Batch
      BY <3>1, ElemsTail DEF TypeOK
    <3>3. InSeq(workerP'[v]) = Append(InSeq(workerP[v]), Head(channels[v]))
      BY <2>1, <2>3, <3>1, <3>2, NoneAssumption, Hand
    <3>4. /\ s[4] # <<>> /\ t[3] = Append(s[3], Head(s[4])) /\ t[4] = Tail(s[4])
          /\ t[1] = s[1] /\ t[2] = s[2] /\ t[5] = s[5] /\ t[6] = s[6] /\ t[7] = s[7] /\ t[8] = s[8]
      BY <2>1, <3>1, <3>3, <2>99
    <3>5. Moved(s, t)
      <4>1. Moves(s, t, 3, 4)
        BY <3>4 DEF Moves
      <4> QED BY <4>1 DEF Moved
    <3>6. InLine(t, m, N)
      BY <2>98, <3>5, Advance, Zenon
    <3> QED BY <2>1, <3>6
  <2>4. CASE ~Solo /\ v # w
    <3>1. channels'[v] = channels[v] /\ workerP'[v] = workerP[v] /\ UNCHANGED <<in, throttleOut>>
      BY <1>7, <2>4 DEF WorkerReceive, TypeOK
    <3>2. /\ t[1] = s[1] /\ t[2] = s[2] /\ t[3] = s[3] /\ t[4] = s[4]
          /\ t[5] = s[5] /\ t[6] = s[6] /\ t[7] = s[7] /\ t[8] = s[8]
      BY <2>1, <3>1, <2>99
    <3>3. t = s
      BY <2>98, <3>2, SameParts, Zenon
    <3> QED BY <2>1, <3>3
  <2> QED BY <2>2, <2>3, <2>4
<1>8. ASSUME NEW w \in Workers, StoreConfirm(w) PROVE InLine(Stages(Home(m))', m, N)
  <2>1. PICK b : b = workerP[w]
    OBVIOUS
  <2>2. b \in Batch /\ b # None
    BY <1>8, <2>1 DEF StoreConfirm, LifeOK, WorkersOK, TypeOK
  <2>3. w = Home(b[1])
    BY <2>1, <2>2 DEF HomeOK
  <2>4. /\ confirm' = Append(confirm, b)
        /\ \A u \in Workers : workerP'[u] = IF u = w THEN None ELSE workerP[u]
        /\ UNCHANGED <<acked, channels, shufflerP, throttleOut, throttleP, in, workersCount>>
    BY <1>8, <2>1 DEF StoreConfirm, TypeOK
  <2>5. InSeq(b) # <<>> /\ Head(InSeq(b)) = b /\ Tail(InSeq(b)) = InSeq(None)
    BY <2>2, Hand
  <2> SUFFICES ASSUME NEW v \in Workers, NEW s, NEW t, v = Home(m),
                      StageStep(s, t, v), InLine(s, m, N)
               PROVE  InLine(t, m, N)
    BY <2>4, LineKept
  <2>98. s \in [1..8 -> Seq(Batch)] /\ t \in [1..8 -> Seq(Batch)]
    BY DEF StageStep
  <2>99. /\ s \in [1..8 -> Seq(Batch)] /\ t \in [1..8 -> Seq(Batch)]
        /\ s[1] = acked /\ s[2] = confirm /\ s[3] = InSeq(workerP[v]) /\ s[4] = channels[v]
        /\ s[5] = InSeq(shufflerP) /\ s[6] = throttleOut /\ s[7] = InSeq(throttleP) /\ s[8] = in
        /\ t[1] = acked' /\ t[2] = confirm' /\ t[3] = InSeq(workerP'[v]) /\ t[4] = channels'[v]
        /\ t[5] = InSeq(shufflerP') /\ t[6] = throttleOut' /\ t[7] = InSeq(throttleP') /\ t[8] = in'
    BY DEF StageStep
  <2>6. CASE v = w
    <3>1. /\ s[3] # <<>> /\ t[2] = Append(s[2], Head(s[3])) /\ t[3] = Tail(s[3])
          /\ t[1] = s[1] /\ t[4] = s[4] /\ t[5] = s[5] /\ t[6] = s[6] /\ t[7] = s[7] /\ t[8] = s[8]
      BY <2>1, <2>4, <2>5, <2>6, <2>99
    <3>2. Moved(s, t)
      <4>1. Moves(s, t, 2, 3)
        BY <3>1 DEF Moves
      <4> QED BY <4>1 DEF Moved
    <3>3. InLine(t, m, N)
      BY <2>98, <3>2, Advance, Zenon
    <3> QED BY <2>4, <3>3
  <2>7. CASE v # w
    <3>1. b[1] # m
      BY <2>3, <2>7
    <3>2. /\ t[2] = Append(s[2], b)
          /\ t[1] = s[1] /\ t[3] = s[3] /\ t[4] = s[4] /\ t[5] = s[5] /\ t[6] = s[6] /\ t[7] = s[7] /\ t[8] = s[8]
      BY <2>2, <2>4, <2>7, <2>99
    <3>3. Passes(s, t, m, 2) /\ 2 \in 1..8
      BY <2>2, <3>1, <3>2 DEF Passes
    <3>4. InLine(t, m, N)
      BY <2>98, <3>3, PassBy, Zenon
    <3> QED BY <2>4, <3>4
  <2> QED BY <2>6, <2>7
<1>11. \/ UNCHANGED <<confirm, workerP, channels, shufflerP, throttleOut, throttleP, in,
                      workersCount>>
       \/ \E n \in WorkerCounts, t \in Throttling : Start(n, t)
       \/ ThrottleReceive \/ ThrottleSend \/ ShufflerReceive \/ ShufflerSend
       \/ \E w \in Workers : WorkerReceive(w) \/ StoreConfirm(w)
  BY DEF Goroutines, LifeCycle, Throttle, Shuffler, Worker,
         StopBegin, StopEnd, ThrottleTick, ThrottleEnd, ShufflerEnd, WorkerEnd, StoreOpen,
         StoreFail, StoreUpdate, StorePanic
<1> QED BY <1>1, <1>2, <1>3, <1>4, <1>5, <1>6, <1>7, <1>8, <1>11

\* Every step keeps the line of every metric.
LEMMA LineStep ==
    ASSUME TypeOK, TypeOK', LifeOK, HomeOK, LineOK, [SystemNext]_allVars
    PROVE  LineOK'
<1> USE DEF chanVars, ownVars, lifeVars, throttleVars, shuffleVars, workVars, fileVars,
            unchangedByThrottle, unchangedByShuffler, unchangedByWorker
<1>0. \A m \in Metric : InLine(Stages(Home(m)), m, 1..fed[m])
  BY DEF LineOK
<1>1. ASSUME UNCHANGED <<acked, confirm, workerP, channels, shufflerP, throttleOut, throttleP, in,
                         workersCount, fed>>, NEW m \in Metric
      PROVE  InLine(Stages(Home(m))', m, 1..fed'[m])
  <2>1. Stages(Home(m))' = Stages(Home(m)) /\ fed'[m] = fed[m]
    BY <1>1 DEF Stages, Home, Solo, Index, InSeq
  <2> QED BY <1>0, <2>1
<1>2. ASSUME Goroutines \/ LifeCycle, UNCHANGED <<fed, acked>>, NEW m \in Metric
      PROVE  InLine(Stages(Home(m))', m, 1..fed'[m])
  <2>1. PICK N : N = 1..fed[m]
    OBVIOUS
  <2>2. InLine(Stages(Home(m))', m, N)
    BY <1>0, <1>2, <2>1, PersistLine
  <2> QED BY <1>2, <2>1, <2>2
<1>9. ASSUME NEW d \in Metric, Feed(d), NEW m \in Metric PROVE InLine(Stages(Home(m))', m, 1..fed'[m])
  <2>1. PICK b : b = <<d, fed[d] + 1>>
    OBVIOUS
  <2>2. /\ fed \in [Metric -> 0..MaxBatches] /\ fed[d] \in Nat /\ fed[d] + 1 \in 1..MaxBatches
        /\ fed' = [fed EXCEPT ![d] = fed[d] + 1]
    BY <1>9, BoundsAssumption DEF Feed, TypeOK
  <2>3. b \in Batch
    BY <2>1, <2>2 DEF Batch
  <2>4. /\ in' = Append(in, b)
        /\ UNCHANGED <<acked, confirm, workerP, channels, shufflerP, throttleOut, throttleP, workersCount>>
    BY <1>9, <2>1 DEF Feed
  <2> SUFFICES ASSUME NEW v \in Workers, NEW s, NEW t, v = Home(m),
                      StageStep(s, t, v), InLine(s, m, 1..fed[m])
               PROVE  InLine(t, m, 1..fed'[m])
    BY <1>0, <2>4, LineKept
  <2>98. s \in [1..8 -> Seq(Batch)] /\ t \in [1..8 -> Seq(Batch)]
    BY DEF StageStep
  <2>99. /\ s \in [1..8 -> Seq(Batch)] /\ t \in [1..8 -> Seq(Batch)]
        /\ s[1] = acked /\ s[2] = confirm /\ s[3] = InSeq(workerP[v]) /\ s[4] = channels[v]
        /\ s[5] = InSeq(shufflerP) /\ s[6] = throttleOut /\ s[7] = InSeq(throttleP) /\ s[8] = in
        /\ t[1] = acked' /\ t[2] = confirm' /\ t[3] = InSeq(workerP'[v]) /\ t[4] = channels'[v]
        /\ t[5] = InSeq(shufflerP') /\ t[6] = throttleOut' /\ t[7] = InSeq(throttleP') /\ t[8] = in'
    BY DEF StageStep
  <2>5. /\ t[8] = Append(s[8], b)
        /\ t[1] = s[1] /\ t[2] = s[2] /\ t[3] = s[3] /\ t[4] = s[4] /\ t[5] = s[5] /\ t[6] = s[6] /\ t[7] = s[7]
    BY <2>4, <2>99
  <2>6. \A i \in 1..8 : i # 8 => t[i] = s[i]
    BY <2>5
  <2>7. CASE m = d
    <3>1. b[1] = m /\ b[2] = fed[m] + 1 /\ fed[m] \in Nat
      BY <2>1, <2>2, <2>7
    <3>2. (\A i \in 1..fed[m] : i < b[2]) /\ 1..fed'[m] = 1..fed[m] \cup {b[2]}
      BY <2>2, <2>7, <3>1
    <3>3. InLine(t, m, 1..fed[m] \cup {b[2]})
      BY <2>3, <2>5, <2>6, <2>98, <3>1, <3>2, Join, Zenon
    <3> QED BY <3>2, <3>3
  <2>8. CASE m # d
    <3>1. b[1] # m
      BY <2>1, <2>8
    <3>2. Passes(s, t, m, 8) /\ 8 \in 1..8
      BY <2>3, <2>5, <2>6, <3>1, SMTT(20) DEF Passes
    <3>3. InLine(t, m, 1..fed[m])
      BY <2>98, <3>2, PassBy, Zenon
    <3> QED BY <2>2, <2>8, <3>3
  <2> QED BY <2>7, <2>8
<1>10. ASSUME ReadConfirm, NEW m \in Metric PROVE InLine(Stages(Home(m))', m, 1..fed'[m])
  <2>1. /\ confirm # <<>> /\ acked' = Append(acked, Head(confirm)) /\ confirm' = Tail(confirm)
        /\ UNCHANGED <<workerP, channels, shufflerP, throttleOut, throttleP, in, workersCount, fed>>
    BY <1>10 DEF ReadConfirm
  <2> SUFFICES ASSUME NEW v \in Workers, NEW s, NEW t, v = Home(m),
                      StageStep(s, t, v), InLine(s, m, 1..fed[m])
               PROVE  InLine(t, m, 1..fed'[m])
    BY <1>0, <2>1, LineKept
  <2>98. s \in [1..8 -> Seq(Batch)] /\ t \in [1..8 -> Seq(Batch)]
    BY DEF StageStep
  <2>99. /\ s \in [1..8 -> Seq(Batch)] /\ t \in [1..8 -> Seq(Batch)]
        /\ s[1] = acked /\ s[2] = confirm /\ s[3] = InSeq(workerP[v]) /\ s[4] = channels[v]
        /\ s[5] = InSeq(shufflerP) /\ s[6] = throttleOut /\ s[7] = InSeq(throttleP) /\ s[8] = in
        /\ t[1] = acked' /\ t[2] = confirm' /\ t[3] = InSeq(workerP'[v]) /\ t[4] = channels'[v]
        /\ t[5] = InSeq(shufflerP') /\ t[6] = throttleOut' /\ t[7] = InSeq(throttleP') /\ t[8] = in'
    BY DEF StageStep
  <2>2. /\ s[2] # <<>> /\ t[1] = Append(s[1], Head(s[2])) /\ t[2] = Tail(s[2])
        /\ t[3] = s[3] /\ t[4] = s[4] /\ t[5] = s[5] /\ t[6] = s[6] /\ t[7] = s[7] /\ t[8] = s[8]
    BY <2>1, <2>99
  <2>3. Moved(s, t)
    <3>1. Moves(s, t, 1, 2)
      BY <2>2 DEF Moves
    <3> QED BY <3>1 DEF Moved
  <2>4. InLine(t, m, 1..fed[m])
    BY <2>98, <2>3, Advance, Zenon
  <2> QED BY <2>1, <2>4
<1>11. \/ UNCHANGED <<acked, confirm, workerP, channels, shufflerP, throttleOut, throttleP, in,
                      workersCount, fed>>
       \/ UNCHANGED <<fed, acked>> /\ (Goroutines \/ LifeCycle)
       \/ \E d \in Metric : Feed(d)
       \/ ReadConfirm
  BY DEF SystemNext, Persist, CloseIn, allVars
<1>12. LineOK' <=> \A m \in Metric : InLine(Stages(Home(m))', m, 1..fed'[m])
  BY DEF LineOK, InLine, InOrder, Sorted, Before, Elems
<1> QED BY <1>1, <1>2, <1>9, <1>10, <1>11, <1>12

(***************************************************************************)
(* What the persister does to its two channels.                            *)
(***************************************************************************)
\* Where a batch inside the persister is.
LEMMA InInside ==
    /\ \A b : b \in Inside <=>
          \/ b # None /\ (b = throttleP \/ b = shufflerP \/ \E w \in Workers : b = workerP[w])
          \/ b \in Elems(throttleOut)
          \/ \E w \in Workers : b \in Elems(channels[w])
    /\ \A b : b \in Inside' <=>
          \/ b # None /\ (b = throttleP' \/ b = shufflerP' \/ \E w \in Workers : b = workerP'[w])
          \/ b \in Elems(throttleOut')
          \/ \E w \in Workers : b \in Elems(channels'[w])
BY DEF Inside, Elems

\* It stays there, takes the first batch of in, or confirms one batch, which it
\* has no second time.
Stays    == UNCHANGED <<in, confirm>> /\ Inside' = Inside
Takes    == /\ in # <<>> /\ in' = Tail(in) /\ Inside' = Inside \cup {Head(in)}
            /\ UNCHANGED confirm
Confirms == \E b \in Inside :
               /\ Len(confirm) < ConfirmCap /\ confirm' = Append(confirm, b)
               /\ Inside' = Inside \ {b} /\ UNCHANGED in

\* Every step of the persister's goroutines is one of these three.
LEMMA InsideStep ==
    ASSUME Sound, Goroutines
    PROVE  Stays \/ Takes \/ Confirms
<1> USE DEF chanVars, ownVars, lifeVars, throttleVars, shuffleVars, workVars, fileVars,
            unchangedByThrottle, unchangedByShuffler, unchangedByWorker
<1> USE DEF Sound
<1>0. /\ in \in Seq(Batch) /\ throttleOut \in Seq(Batch)
      /\ workerP \in [Workers -> Batch \cup {None}] /\ channels \in [Workers -> Seq(Batch)]
  BY DEF TypeOK
<1>1. CASE UNCHANGED <<in, confirm, throttleP, throttleOut, shufflerP, channels, workerP>>
  <2>1. Inside' = Inside
    BY <1>1, InInside
  <2> QED BY <1>1, <2>1 DEF Stays
<1>2. CASE ThrottleReceive
  <2>1. /\ in # <<>> /\ throttleP = None /\ throttleP' = Head(in) /\ in' = Tail(in)
        /\ UNCHANGED <<confirm, workerP, channels, shufflerP, throttleOut>>
    BY <1>2 DEF ThrottleReceive, LifeOK, ThrottleOK
  <2>2. Head(in) # None
    BY <1>0, <2>1, ElemsTail, NoneAssumption
  <2>3. Inside' = Inside \cup {Head(in)}
    BY <2>1, <2>2, InInside
  <2> QED BY <2>1, <2>3 DEF Takes
<1>3. CASE ThrottleSend
  <2>1. /\ throttleP \in Batch /\ throttleP # None /\ throttleOut' = Append(throttleOut, throttleP)
        /\ throttleP' = None
        /\ UNCHANGED <<confirm, workerP, channels, shufflerP, in>>
    BY <1>3 DEF ThrottleSend, LifeOK, ThrottleOK, TypeOK
  <2>2. Elems(throttleOut') = Elems(throttleOut) \cup {throttleP}
    BY <1>0, <2>1, BatchesIn
  <2>3. Inside' = Inside
    BY <2>1, <2>2, InInside
  <2> QED BY <2>1, <2>3 DEF Stays
<1>4. CASE ShufflerReceive
  <2>1. /\ Source # <<>> /\ TakeSource /\ shufflerP = None /\ shufflerP' = Head(Source)
        /\ UNCHANGED <<confirm, workerP, channels, throttleP>>
    BY <1>4 DEF ShufflerReceive, LifeOK, ShufflerOK
  <2>2. Head(Source) # None
    BY <2>1, SourceType, NoneAssumption
  <2>3. CASE throttleOut # <<>> /\ throttleOut' = Tail(throttleOut) /\ in' = in
             /\ Head(Source) = Head(throttleOut)
    <3>1. Elems(throttleOut) = {Head(Source)} \cup Elems(throttleOut')
      BY <1>0, <2>3, ElemsTail
    <3>2. Inside' = Inside
      BY <2>1, <2>2, <3>1, InInside
    <3> QED BY <2>1, <2>3, <3>2 DEF Stays
  <2>4. CASE in # <<>> /\ in' = Tail(in) /\ throttleOut' = throttleOut /\ Head(Source) = Head(in)
    <3>1. Inside' = Inside \cup {Head(in)}
      BY <2>1, <2>2, <2>4, InInside
    <3> QED BY <2>1, <2>4, <3>1 DEF Takes
  <2> QED BY <2>1, <2>3, <2>4, SourceHead
<1>5. CASE ShufflerSend
  <2>1. PICK b, w : b = shufflerP /\ w = Index(b[1])
    OBVIOUS
  <2>2. b \in Batch /\ b # None /\ ~Solo
    BY <1>5, <2>1 DEF ShufflerSend, LifeOK, ShufflerOK, TypeOK
  <2>3. w \in Workers
    BY <2>1, <2>2, Parts, WorkerThere DEF TypeOK
  <2>4. /\ channels' = [channels EXCEPT ![w] = Append(@, b)] /\ shufflerP' = None
        /\ UNCHANGED <<confirm, workerP, throttleOut, throttleP, in>>
    BY <1>5, <2>1 DEF ShufflerSend
  <2>5. \A v \in Workers : Elems(channels'[v]) = Elems(channels[v]) \cup (IF v = w THEN {b} ELSE {})
    BY <1>0, <2>2, <2>3, <2>4, BatchesIn
  <2>6. \A c : (\E v \in Workers : c \in Elems(channels'[v]))
                 <=> (\E v \in Workers : c \in Elems(channels[v])) \/ c = b
    BY <2>3, <2>5
  <2>7. Inside' = Inside
    BY <2>1, <2>2, <2>4, <2>6, InInside
  <2> QED BY <2>4, <2>7 DEF Stays
<1>6. ASSUME NEW w \in Workers, WorkerReceive(w) PROVE Stays \/ Takes
  <2>1. UNCHANGED <<confirm, shufflerP, throttleP>> /\ workerP[w] = None
    BY <1>6 DEF WorkerReceive, LifeOK, WorkersOK
  <2>2. CASE Solo
    <3>1. /\ Source # <<>> /\ TakeSource /\ workerP' = [workerP EXCEPT ![w] = Head(Source)]
          /\ UNCHANGED channels
      BY <1>6, <2>2 DEF WorkerReceive
    <3>2. Head(Source) # None
      BY <3>1, SourceType, NoneAssumption
    <3>3. \A b : b # None => ((\E v \in Workers : b = workerP'[v])
                    <=> (\E v \in Workers : b = workerP[v]) \/ b = Head(Source))
      BY <1>0, <2>1, <3>1
    <3>4. CASE throttleOut # <<>> /\ throttleOut' = Tail(throttleOut) /\ in' = in
               /\ Head(Source) = Head(throttleOut)
      <4>1. Elems(throttleOut) = {Head(Source)} \cup Elems(throttleOut')
        BY <1>0, <3>4, ElemsTail
      <4>2. Inside' = Inside
        BY <2>1, <3>1, <3>2, <3>3, <4>1, InInside
      <4> QED BY <2>1, <3>4, <4>2 DEF Stays
    <3>5. CASE in # <<>> /\ in' = Tail(in) /\ throttleOut' = throttleOut /\ Head(Source) = Head(in)
      <4>1. Inside' = Inside \cup {Head(in)}
        BY <2>1, <3>1, <3>2, <3>3, <3>5, InInside
      <4> QED BY <2>1, <3>5, <4>1 DEF Takes
    <3> QED BY <3>1, <3>4, <3>5, SourceHead
  <2>3. CASE ~Solo
    <3>1. PICK h, rest : h = Head(channels[w]) /\ rest = Tail(channels[w])
      OBVIOUS
    <3>2. /\ channels[w] # <<>> /\ workerP' = [workerP EXCEPT ![w] = h]
          /\ channels' = [channels EXCEPT ![w] = rest] /\ UNCHANGED <<in, throttleOut>>
      BY <1>6, <2>3, <3>1 DEF WorkerReceive
    <3>3. Elems(channels[w]) = {h} \cup Elems(rest) /\ h # None
      BY <1>0, <3>1, <3>2, ElemsTail, NoneAssumption
    <3>4. \A b : b # None => ((\E v \in Workers : b = workerP'[v])
                    <=> (\E v \in Workers : b = workerP[v]) \/ b = h)
      BY <1>0, <2>1, <3>2
    <3>5. \A b : (\E v \in Workers : b \in Elems(channels[v]))
                   <=> (\E v \in Workers : b \in Elems(channels'[v])) \/ b = h
      <4>1. \A v \in Workers : Elems(channels[v]) = Elems(channels'[v]) \cup (IF v = w THEN {h} ELSE {})
        BY <1>0, <3>2, <3>3
      <4> QED BY <4>1
    <3>6. ASSUME NEW b PROVE b \in Inside' <=> b \in Inside
      <4>1. b \in Elems(throttleOut') <=> b \in Elems(throttleOut)
        BY <3>2
      <4>2. (b = throttleP' \/ b = shufflerP') <=> (b = throttleP \/ b = shufflerP)
        BY <2>1
      <4>3. CASE b = h
        <5>1. b \in Inside
          BY <3>3, <3>5, <4>3, InInside
        <5>2. b \in Inside'
          BY <3>3, <3>4, <4>3, InInside
        <5> QED BY <5>1, <5>2
      <4>4. CASE b # h
        <5>1. b # None => ((\E v \in Workers : b = workerP'[v]) <=> (\E v \in Workers : b = workerP[v]))
          BY <3>4, <4>4
        <5>2. (\E v \in Workers : b \in Elems(channels[v])) <=> (\E v \in Workers : b \in Elems(channels'[v]))
          BY <3>5, <4>4
        <5> QED BY <4>1, <4>2, <5>1, <5>2, InInside, Zenon
      <4> QED BY <4>3, <4>4
    <3>7. Inside' = Inside
      BY <3>6
    <3> QED BY <2>1, <3>2, <3>7 DEF Stays
  <2> QED BY <2>2, <2>3
<1>7. ASSUME NEW w \in Workers, StoreConfirm(w) PROVE Confirms
  <2>1. PICK b : b = workerP[w]
    OBVIOUS
  <2>2. b \in Batch /\ b # None
    BY <1>7, <2>1 DEF StoreConfirm, LifeOK, WorkersOK, TypeOK
  <2>3. /\ Len(confirm) < ConfirmCap /\ confirm' = Append(confirm, b)
        /\ \A u \in Workers : workerP'[u] = IF u = w THEN None ELSE workerP[u]
        /\ UNCHANGED <<channels, shufflerP, throttleOut, throttleP, in>>
    BY <1>7, <2>1 DEF StoreConfirm, TypeOK
  <2>4. PICK m \in Metric : m = b[1]
    BY <2>2, Parts
  <2>5. w = Home(m)
    BY <2>1, <2>2, <2>4 DEF HomeOK
  <2>6. \A v \in Workers : v # w => workerP[v] # b /\ b \notin Elems(channels[v])
    BY <2>2, <2>4, <2>5 DEF HomeOK
  <2>7. PICK s : s = Stages(w)
    OBVIOUS
  <2>8. /\ s[3] = InSeq(b) /\ s[4] = channels[w] /\ s[5] = InSeq(shufflerP)
        /\ s[6] = throttleOut /\ s[7] = InSeq(throttleP)
    BY <2>1, <2>7, StagesNow
  <2>9. ASSUME NEW k \in 4..7, b \in Elems(s[k]) PROVE FALSE
    <3>1. b \in Elems(s[3])
      BY <2>2, <2>8, Hand
    <3>2. Before(Elems(s[3]), Elems(s[k]), m)
      <4>1. 3 \in 1..8 /\ k \in 1..8 /\ 3 < k
        OBVIOUS
      <4> QED BY <2>5, <2>7, <4>1 DEF Ordered, InOrder
    <3>3. b[2] < b[2]
      BY <2>4, <2>9, <3>1, <3>2 DEF Before
    <3> QED BY <2>2, <3>3, Parts
  <2>10. b \notin Elems(channels[w]) /\ b \notin Elems(throttleOut)
    BY <2>8, <2>9
  <2>11. b # shufflerP /\ b # throttleP
    <3>1. b \notin Elems(InSeq(shufflerP)) /\ b \notin Elems(InSeq(throttleP))
      BY <2>8, <2>9
    <3> QED BY <2>2, <3>1, Hand DEF TypeOK
  <2>12. b \in Inside
    BY <2>1, <2>2, InInside
  <2>13. b \notin Inside'
    BY <2>2, <2>3, <2>6, <2>10, <2>11, InInside
  <2>14. \A c : c # b => (c \in Inside' <=> c \in Inside)
    <3>1. \A c : c # b /\ c # None => ((\E u \in Workers : c = workerP'[u])
                                         <=> (\E u \in Workers : c = workerP[u]))
      BY <2>1, <2>3
    <3> QED BY <2>3, <3>1, InInside
  <2>15. Inside' = Inside \ {b}
    BY <2>12, <2>13, <2>14
  <2> QED BY <2>3, <2>12, <2>15 DEF Confirms
<1>8. \/ UNCHANGED <<in, confirm, throttleP, throttleOut, shufflerP, channels, workerP>>
      \/ ThrottleReceive \/ ThrottleSend \/ ShufflerReceive \/ ShufflerSend
      \/ \E w \in Workers : WorkerReceive(w) \/ StoreConfirm(w)
  BY DEF Goroutines, Throttle, Shuffler, Worker, ThrottleTick, ThrottleEnd, ShufflerEnd, WorkerEnd,
         StoreOpen, StoreFail, StoreUpdate, StorePanic
<1> QED BY <1>1, <1>2, <1>3, <1>4, <1>5, <1>6, <1>7, <1>8

(***************************************************************************)
(* The persister between any two neighbours.                               *)
(***************************************************************************)
\* Ordered after a step.
LEMMA OrderedNext ==
    ASSUME \A m \in Metric : InOrder(Stages(Home(m))', m)
    PROVE  Ordered'
BY DEF Ordered, InOrder, Sorted, Before, Elems

\* Batches in order have some numbers.
LEMMA Numbers ==
    ASSUME NEW s, NEW m, InOrder(s, m)
    PROVE  \E N : InLine(s, m, N) /\ \A i \in N : \E k \in 1..8 : <<m, i>> \in Elems(s[k])
<1>1. PICK N : N = {i \in Nat : \E k \in 1..8 : <<m, i>> \in Elems(s[k])}
  OBVIOUS
<1> QED BY <1>1 DEF InLine

\* A stopped persister has no batch.
LEMMA NothingInside ==
    ASSUME LifeOK, state = "stopped"
    PROVE  Inside = {}
<1>1. throttleP = None /\ shufflerP = None /\ throttleOut = <<>>
  BY DEF LifeOK, StoppedOK, ThrottleOK, ShufflerOK
<1>2. \A w \in Workers : workerP[w] = None /\ channels[w] = <<>>
  BY DEF LifeOK, StoppedOK, WorkersOK
<1>3. Elems(<<>>) = {}
  BY DEF Elems
<1> QED BY <1>1, <1>2, <1>3 DEF Inside

\* Start and Stop move no batch.
LEMMA LifeInside == ASSUME LifeOK, LifeCycle PROVE Stays
<1> USE DEF chanVars, throttleVars, shuffleVars, workVars
<1>1. ASSUME NEW n \in WorkerCounts, NEW t \in Throttling, Start(n, t) PROVE Stays
  <2>1. Inside = {} /\ UNCHANGED <<in, confirm>>
    BY <1>1, NothingInside DEF Start
  <2>2. throttleP' = None /\ shufflerP' = None /\ throttleOut' = <<>>
    BY <1>1 DEF Start
  <2>3. \A w \in Workers : workerP'[w] = None /\ channels'[w] = <<>>
    BY <1>1 DEF Start
  <2>4. Elems(<<>>) = {}
    BY DEF Elems
  <2>5. \A b : b \notin Inside'
    BY <2>2, <2>3, <2>4, InInside
  <2> QED BY <2>1, <2>5 DEF Stays
<1>2. CASE StopBegin \/ StopEnd
  <2>1. UNCHANGED <<in, confirm, throttleP, throttleOut, shufflerP, channels, workerP>>
    BY <1>2 DEF StopBegin, StopEnd
  <2>2. Inside' = Inside
    BY <2>1, InInside
  <2> QED BY <2>1, <2>2 DEF Stays
<1> QED BY <1>1, <1>2 DEF LifeCycle

\* A batch inside the persister stands in the line of its metric.
LEMMA Staged ==
    ASSUME TypeOK, HomeOK, NEW m \in Metric, NEW v \in Workers, v = Home(m), NEW s, s = Stages(v),
           NEW b \in Inside, b[1] = m
    PROVE  b \in Batch /\ \E k \in 3..7 : b \in Elems(s[k])
<1>1. /\ s[3] = InSeq(workerP[v]) /\ s[4] = channels[v]
      /\ s[5] = InSeq(shufflerP) /\ s[6] = throttleOut /\ s[7] = InSeq(throttleP)
  BY StagesNow
<1>2. 3 \in 3..7 /\ 4 \in 3..7 /\ 5 \in 3..7 /\ 6 \in 3..7 /\ 7 \in 3..7
  OBVIOUS
<1>3. ASSUME b # None, b = throttleP PROVE b \in Batch /\ b \in Elems(s[7])
  BY <1>1, <1>3, Hand DEF TypeOK
<1>4. ASSUME b # None, b = shufflerP PROVE b \in Batch /\ b \in Elems(s[5])
  BY <1>1, <1>4, Hand DEF TypeOK
<1>5. ASSUME b # None, NEW w \in Workers, b = workerP[w] PROVE b \in Batch /\ b \in Elems(s[3])
  <2>1. w = v
    BY <1>5 DEF HomeOK
  <2> QED BY <1>1, <1>5, <2>1, Hand DEF TypeOK
<1>6. ASSUME b \in Elems(throttleOut) PROVE b \in Batch /\ b \in Elems(s[6])
  BY <1>1, <1>6, BatchesIn DEF TypeOK
<1>7. ASSUME NEW w \in Workers, b \in Elems(channels[w]) PROVE b \in Batch /\ b \in Elems(s[4])
  <2>1. w = v
    BY <1>7 DEF HomeOK
  <2> QED BY <1>1, <1>7, <2>1, BatchesIn DEF TypeOK
<1> QED BY <1>2, <1>3, <1>4, <1>5, <1>6, <1>7, InInside

\* And what stands in the middle of a line is inside.
LEMMA StagedInside ==
    ASSUME TypeOK, NEW v \in Workers, NEW s, s = Stages(v), NEW k \in 3..7, NEW b \in Elems(s[k])
    PROVE  b \in Inside
<1>1. /\ s[3] = InSeq(workerP[v]) /\ s[4] = channels[v]
      /\ s[5] = InSeq(shufflerP) /\ s[6] = throttleOut /\ s[7] = InSeq(throttleP)
  BY StagesNow
<1>2. \A x \in Batch \cup {None} : b \in Elems(InSeq(x)) => b = x /\ b # None
  BY Hand
<1>3. workerP[v] \in Batch \cup {None} /\ shufflerP \in Batch \cup {None} /\ throttleP \in Batch \cup {None}
  BY DEF TypeOK
<1>4. k = 3 \/ k = 4 \/ k = 5 \/ k = 6 \/ k = 7
  OBVIOUS
<1> QED BY <1>1, <1>2, <1>3, <1>4, InInside

\* The persister's own steps, Start and Stop keep the batches in order.
LEMMA SoundPersist ==
    ASSUME Sound, Goroutines \/ LifeCycle, UNCHANGED <<fed, acked>>
    PROVE  Sound'
<1>1. SystemNext
  BY DEF SystemNext, Persist
<1>2. TypeOK' /\ LifeOK' /\ HomeOK'
  BY <1>1, TypeStep, LifeStep, HomeStep DEF Sound
<1>3. ASSUME NEW m \in Metric PROVE InOrder(Stages(Home(m))', m)
  <2>1. PICK N : InLine(Stages(Home(m)), m, N)
    BY Numbers DEF Sound, Ordered
  <2>2. InLine(Stages(Home(m))', m, N)
    BY <1>2, <2>1, PersistLine DEF Sound
  <2> QED BY <2>2 DEF InLine
<1>4. Ordered'
  BY <1>3, OrderedNext
<1> QED BY <1>2, <1>4 DEF Sound

\* A neighbour's step leaves the persister's own variables alone.
LEMMA Neighbour ==
    ASSUME Sound, UNCHANGED <<ownVars, inClosed, fed, acked>>,
           in' \in Seq(Batch), confirm' \in Seq(Batch)
    PROVE  TypeOK' /\ LifeOK' /\ HomeOK' /\ Inside' = Inside
<1> USE DEF ownVars, lifeVars, throttleVars, shuffleVars, workVars, fileVars
<1>1. TypeOK'
  BY DEF Sound, TypeOK
<1>2. LifeOK'
  BY DEF Sound, LifeOK, ThrottleOK, ShufflerOK, WorkersOK, StoppedOK, Solo
<1>3. HomeOK'
  BY DEF Sound, HomeOK, Home, Solo, Index, Elems
<1>4. Inside' = Inside
  BY DEF Inside, Elems
<1> QED BY <1>1, <1>2, <1>3, <1>4

\* Nothing happens to the persister.
LEMMA SoundQuiet ==
    ASSUME Sound, UNCHANGED <<chanVars, ownVars, fed, acked>>
    PROVE  Sound' /\ Inside' = Inside
<1> USE DEF chanVars, ownVars, lifeVars, throttleVars, shuffleVars, workVars, fileVars
<1>1. TypeOK' /\ LifeOK' /\ HomeOK' /\ Inside' = Inside
  BY Neighbour DEF Sound, TypeOK
<1>2. \A m \in Metric : Stages(Home(m))' = Stages(Home(m))
  BY DEF Stages, Home, Solo, Index, InSeq
<1>3. Ordered'
  BY <1>2, OrderedNext DEF Sound, Ordered
<1> QED BY <1>1, <1>3 DEF Sound

\* A batch that is younger than all of its metric's that are on the way joins
\* in.
LEMMA SoundFeed ==
    ASSUME Sound, UNCHANGED <<ownVars, inClosed, confirm, fed, acked>>,
           NEW b \in Batch, in' = Append(in, b),
           \A c \in Elems(acked) \cup Elems(confirm) \cup Inside \cup Elems(in) :
               c[1] = b[1] => c[2] < b[2]
    PROVE  Sound' /\ Inside' = Inside
<1>1. in' \in Seq(Batch) /\ confirm' \in Seq(Batch)
  BY ElemsAppend DEF Sound, TypeOK
<1>2. TypeOK' /\ LifeOK' /\ HomeOK' /\ Inside' = Inside
  BY <1>1, Neighbour
<1>3. UNCHANGED <<acked, confirm, workerP, channels, shufflerP, throttleOut, throttleP, workersCount>>
  BY DEF ownVars, lifeVars, throttleVars, shuffleVars, workVars
<1>4. ASSUME NEW m \in Metric PROVE InOrder(Stages(Home(m))', m)
  <2>1. PICK N : /\ InLine(Stages(Home(m)), m, N)
                 /\ \A i \in N : \E k \in 1..8 : <<m, i>> \in Elems(Stages(Home(m))[k])
    BY Numbers DEF Sound, Ordered
  <2>2. PICK M : M = IF b[1] = m THEN N \cup {b[2]} ELSE N
    OBVIOUS
  <2>3. ASSUME NEW v \in Workers, NEW s, NEW t, v = Home(m),
               StageStep(s, t, v), InLine(s, m, N)
        PROVE  InLine(t, m, M)
    <3>0. s \in [1..8 -> Seq(Batch)] /\ t \in [1..8 -> Seq(Batch)]
      BY <2>3 DEF StageStep
    <3>1. /\ s[1] = acked /\ s[2] = confirm /\ s[3] = InSeq(workerP[v]) /\ s[4] = channels[v]
          /\ s[5] = InSeq(shufflerP) /\ s[6] = throttleOut /\ s[7] = InSeq(throttleP) /\ s[8] = in
          /\ t[1] = acked' /\ t[2] = confirm' /\ t[3] = InSeq(workerP'[v]) /\ t[4] = channels'[v]
          /\ t[5] = InSeq(shufflerP') /\ t[6] = throttleOut' /\ t[7] = InSeq(throttleP') /\ t[8] = in'
      BY <2>3 DEF StageStep
    <3>2. /\ t[8] = Append(s[8], b)
          /\ t[1] = s[1] /\ t[2] = s[2] /\ t[3] = s[3] /\ t[4] = s[4] /\ t[5] = s[5] /\ t[6] = s[6] /\ t[7] = s[7]
      BY <1>3, <3>1
    <3>3. \A i \in 1..8 : i # 8 => t[i] = s[i]
      BY <3>2
    <3>4. CASE b[1] = m
      <4>1. ASSUME NEW i \in N PROVE i < b[2]
        <5>1. PICK u : u = Stages(v)
          OBVIOUS
        <5>2. PICK k \in 1..8 : <<m, i>> \in Elems(u[k])
          BY <2>1, <2>3, <5>1
        <5>3. k \in 3..7 => <<m, i>> \in Inside
          BY <5>1, <5>2, StagedInside DEF Sound
        <5>4. k = 1 \/ k = 2 \/ k \in 3..7 \/ k = 8
          OBVIOUS
        <5>5. u[1] = acked /\ u[2] = confirm /\ u[8] = in
          BY <5>1, StagesNow DEF Sound
        <5>6. <<m, i>> \in Elems(acked) \cup Elems(confirm) \cup Inside \cup Elems(in)
          BY <5>2, <5>3, <5>4, <5>5
        <5> QED BY <3>4, <5>6
      <4>2. InLine(t, m, N \cup {b[2]})
        BY <2>3, <3>0, <3>2, <3>3, <3>4, <4>1, Join, Zenon
      <4> QED BY <2>2, <3>4, <4>2
    <3>5. CASE b[1] # m
      <4>1. Passes(s, t, m, 8) /\ 8 \in 1..8
        BY <3>2, <3>3, <3>5, SMTT(20) DEF Passes
      <4>2. InLine(t, m, N)
        BY <2>3, <3>0, <4>1, PassBy, Zenon
      <4> QED BY <2>2, <3>5, <4>2
    <3> QED BY <3>4, <3>5
  <2>4. InLine(Stages(Home(m))', m, M)
    BY <1>2, <1>3, <2>1, <2>3, LineKept DEF Sound
  <2> QED BY <2>4 DEF InLine
<1>5. Ordered'
  BY <1>4, OrderedNext
<1> QED BY <1>2, <1>5 DEF Sound

\* A confirmation is read.
LEMMA SoundRead ==
    ASSUME Sound, UNCHANGED <<ownVars, inClosed, in, fed, acked>>,
           confirm # <<>>, confirm' = Tail(confirm)
    PROVE  Sound' /\ Inside' = Inside
<1>0. confirm \in Seq(Batch) /\ in \in Seq(Batch)
  BY DEF Sound, TypeOK
<1>1. confirm' \in Seq(Batch) /\ in' \in Seq(Batch)
  BY <1>0, ElemsTail
<1>2. TypeOK' /\ LifeOK' /\ HomeOK' /\ Inside' = Inside
  BY <1>1, Neighbour
<1>3. UNCHANGED <<acked, in, workerP, channels, shufflerP, throttleOut, throttleP, workersCount>>
  BY DEF ownVars, lifeVars, throttleVars, shuffleVars, workVars
<1>4. ASSUME NEW m \in Metric PROVE InOrder(Stages(Home(m))', m)
  <2>1. PICK v \in Workers : v = Home(m)
    BY WorkerThere DEF Sound, TypeOK
  <2>2. Stages(Home(m))' = Stages(v)'
    BY <1>3, <2>1 DEF Home, Solo, Index, Stages
  <2>3. PICK s, t : s = Stages(v) /\ t = Stages(v)' /\ StageStep(s, t, v)
    BY <1>2, StageFacts DEF Sound
  <2>4. /\ t[2] = Tail(s[2]) /\ s[2] = confirm
        /\ t[1] = s[1] /\ t[3] = s[3] /\ t[4] = s[4] /\ t[5] = s[5] /\ t[6] = s[6] /\ t[7] = s[7] /\ t[8] = s[8]
    BY <1>3, <2>3 DEF StageStep
  <2>5. \A i \in 1..8 : i = 2 \/ t[i] = s[i]
    BY <2>4
  <2>6. InOrder(s, m)
    BY <2>1, <2>3 DEF Sound, Ordered
  <2>7. Sorted(t[2], m)
    <3>1. Sorted(s[2], m)
      BY <2>6 DEF InOrder
    <3> QED BY <1>0, <2>4, <3>1, SortedTail
  <2>8. \A i \in 1..8 : Elems(t[i]) \subseteq Elems(s[i])
    <3>1. Elems(t[2]) \subseteq Elems(s[2])
      BY <1>0, <2>4, ElemsTail
    <3> QED BY <2>5, <3>1
  <2>9. \A k \in 1..8 : Sorted(t[k], m)
    BY <2>5, <2>6, <2>7 DEF InOrder
  <2>10. \A k, l \in 1..8 : k < l => Before(Elems(t[k]), Elems(t[l]), m)
    BY <2>6, <2>8 DEF InOrder, Before
  <2>11. InOrder(t, m)
    BY <2>9, <2>10 DEF InOrder
  <2> QED BY <2>2, <2>3, <2>11
<1>5. Ordered'
  BY <1>4, OrderedNext
<1> QED BY <1>2, <1>5 DEF Sound

(***************************************************************************)
(* Files.                                                                  *)
(***************************************************************************)
\* A later batch joins a file.
LEMMA RisingAppend ==
    ASSUME NEW S, NEW s \in Seq(S), NEW x \in S, Rising(s), \A n \in Elems(s) : n < x
    PROVE  Rising(Append(s, x))
<1>1. /\ Len(Append(s, x)) = Len(s) + 1 /\ Len(s) \in Nat
      /\ \A i \in 1..(Len(s) + 1) : Append(s, x)[i] = IF i = Len(s) + 1 THEN x ELSE s[i]
  OBVIOUS
<1>2. \A i \in 1..Len(s) : s[i] \in Elems(s)
  BY DEF Elems
<1> SUFFICES ASSUME NEW i \in 1..(Len(s) + 1), NEW j \in 1..(Len(s) + 1), i < j
             PROVE  Append(s, x)[i] < Append(s, x)[j]
  BY <1>1 DEF Rising
<1>3. i \in 1..Len(s) /\ Append(s, x)[i] = s[i]
  BY <1>1
<1>4. CASE j = Len(s) + 1
  BY <1>1, <1>2, <1>3, <1>4
<1>5. CASE j # Len(s) + 1
  BY <1>1, <1>3, <1>5 DEF Rising
<1> QED BY <1>4, <1>5

\* A done batch stays done.
LEMMA DoneStep ==
    ASSUME TypeOK, LifeOK, [SystemNext]_allVars, NEW m \in Metric, NEW n, Done(m, n)
    PROVE  Done(m, n)'
<1> USE DEF chanVars, ownVars, lifeVars, throttleVars, shuffleVars, workVars, fileVars,
            unchangedByThrottle, unchangedByShuffler, unchangedByWorker
<1>0. /\ workerP \in [Workers -> Batch \cup {None}] /\ confirm \in Seq(Batch) /\ acked \in Seq(Batch)
      /\ DOMAIN workerPC = Workers
  BY DEF TypeOK
<1>1. Done(m, n)' <=> \/ <<m, n>> \in Elems(acked') \cup Elems(confirm')
                      \/ \E w \in Workers : workerPC'[w] = "confirm" /\ workerP'[w] = <<m, n>>
  BY DEF Done, Elems
<1>2. CASE /\ UNCHANGED <<acked, confirm>>
           /\ \A w \in Workers : workerPC[w] = "confirm" => workerPC'[w] = "confirm" /\ workerP'[w] = workerP[w]
  BY <1>1, <1>2 DEF Done
<1>3. ASSUME NEW w \in Workers, StoreConfirm(w), UNCHANGED acked PROVE Done(m, n)'
  <2>1. PICK b : b = workerP[w]
    OBVIOUS
  <2>2. b \in Batch
    BY <1>0, <1>3, <2>1 DEF StoreConfirm, LifeOK, WorkersOK
  <2>3. Elems(confirm') = Elems(confirm) \cup {b}
    <3>1. confirm' = Append(confirm, b)
      BY <1>3, <2>1 DEF StoreConfirm
    <3> QED BY <1>0, <2>2, <3>1, BatchesIn
  <2>4. \A u \in Workers : u # w => workerPC'[u] = workerPC[u] /\ workerP'[u] = workerP[u]
    BY <1>0, <1>3 DEF StoreConfirm
  <2>5. Elems(acked') = Elems(acked)
    BY <1>3
  <2> QED BY <1>1, <2>1, <2>3, <2>4, <2>5 DEF Done
<1>4. ASSUME ReadConfirm PROVE Done(m, n)'
  <2>1. /\ confirm # <<>> /\ acked' = Append(acked, Head(confirm)) /\ confirm' = Tail(confirm)
        /\ workerPC' = workerPC /\ workerP' = workerP
    BY <1>4 DEF ReadConfirm
  <2>2. Head(confirm) \in Batch /\ Elems(confirm) = {Head(confirm)} \cup Elems(confirm')
    BY <1>0, <2>1, ElemsTail
  <2>3. Elems(acked') = Elems(acked) \cup {Head(confirm)}
    BY <1>0, <2>1, <2>2, BatchesIn
  <2> QED BY <1>1, <2>1, <2>2, <2>3 DEF Done
<1>5. ASSUME NEW c \in WorkerCounts, NEW t \in Throttling, Start(c, t), UNCHANGED acked PROVE Done(m, n)'
  <2>1. UNCHANGED <<acked, confirm>> /\ \A w \in Workers : workerPC[w] # "confirm"
    BY <1>5 DEF Start, LifeOK, StoppedOK
  <2> QED BY <1>2, <2>1
<1>6. ASSUME NEW w \in Workers, UNCHANGED <<acked, confirm>>, workerPC[w] # "confirm",
             \A u \in Workers : u # w => workerPC'[u] = workerPC[u] /\ workerP'[u] = workerP[u]
      PROVE  Done(m, n)'
  BY <1>2, <1>6
<1>7. ASSUME NEW w \in Workers, UNCHANGED acked,
             \/ WorkerReceive(w) \/ WorkerEnd(w) \/ StoreOpen(w) \/ StoreFail(w) \/ StoreUpdate(w)
             \/ StorePanic(w)
      PROVE  Done(m, n)'
  <2>1. UNCHANGED <<acked, confirm>> /\ workerPC[w] # "confirm"
    BY <1>7 DEF WorkerReceive, WorkerEnd, StoreOpen, StoreFail, StoreUpdate, StorePanic
  <2>2. \A u \in Workers : u # w => workerPC'[u] = workerPC[u] /\ workerP'[u] = workerP[u]
    BY <1>0, <1>7 DEF WorkerReceive, WorkerEnd, StoreOpen, StoreFail, StoreUpdate, StorePanic
  <2> QED BY <1>6, <2>1, <2>2
<1>8. CASE UNCHANGED <<acked, confirm, workerPC, workerP>>
  BY <1>2, <1>8
<1>9. \/ UNCHANGED <<acked, confirm, workerPC, workerP>>
      \/ /\ UNCHANGED acked
         /\ \/ \E c \in WorkerCounts, t \in Throttling : Start(c, t)
            \/ \E w \in Workers : \/ WorkerReceive(w) \/ WorkerEnd(w) \/ StoreOpen(w) \/ StoreFail(w)
                                  \/ StoreUpdate(w) \/ StorePanic(w) \/ StoreConfirm(w)
      \/ ReadConfirm
  BY DEF SystemNext, Persist, Goroutines, LifeCycle, Throttle, Shuffler, Worker, CloseIn, allVars, Feed,
         StopBegin, StopEnd, ThrottleTick, ThrottleReceive, ThrottleSend, ThrottleEnd,
         ShufflerReceive, ShufflerSend, ShufflerEnd
<1> QED BY <1>3, <1>4, <1>5, <1>7, <1>8, <1>9

\* A worker that writes a batch has everything older of its metric behind it.
LEMMA OlderDone ==
    ASSUME TypeOK, LifeOK, HomeOK, LineOK, NEW w \in Workers, NEW b \in Batch, workerP[w] = b,
           workerPC[w] = "update", NEW n, Done(b[1], n)
    PROVE  n < b[2]
<1>1. PICK m \in Metric : m = b[1]
  BY Parts
<1>2. w = Home(m)
  BY <1>1, NoneAssumption DEF HomeOK
<1>3. <<m, n>> \in Elems(acked) \cup Elems(confirm)
  <2>1. ASSUME NEW u \in Workers, workerPC[u] = "confirm", workerP[u] = <<m, n>> PROVE FALSE
    <3>1. workerP[u] # None
      BY <2>1 DEF LifeOK, WorkersOK
    <3>2. u = Home(workerP[u][1])
      BY <3>1 DEF HomeOK
    <3>3. workerP[u][1] = m
      BY <2>1
    <3> QED BY <1>2, <2>1, <3>2, <3>3
  <2> QED BY <1>1, <2>1 DEF Done
<1>4. InLine(Stages(w), m, 1..fed[m])
  BY <1>2 DEF LineOK
<1>5. Stages(w)[1] = acked /\ Stages(w)[2] = confirm /\ Stages(w)[3] = InSeq(b)
  BY DEF Stages
<1>6. b \in Elems(InSeq(b))
  BY NoneAssumption DEF InSeq, Elems
<1>7. Before(Elems(acked), Elems(InSeq(b)), m) /\ Before(Elems(confirm), Elems(InSeq(b)), m)
  BY <1>4, <1>5 DEF InLine, InOrder
<1> QED BY <1>1, <1>3, <1>6, <1>7 DEF Before

\* A file keeps its order.
LEMMA FileStep ==
    ASSUME TypeOK, LifeOK, HomeOK, LineOK, FileOK, [SystemNext]_allVars
    PROVE  FileOK'
<1> USE DEF chanVars, ownVars, lifeVars, throttleVars, shuffleVars, workVars, fileVars,
            unchangedByThrottle, unchangedByShuffler, unchangedByWorker
<1>0. FileOK' <=> \A m \in Metric : Rising(file'[m]) /\ \A n \in Elems(file'[m]) : Done(m, n)'
  BY DEF FileOK, Rising, Elems
<1>1. CASE UNCHANGED file
  BY <1>0, <1>1, DoneStep DEF FileOK
<1>2. ASSUME NEW w \in Workers, StoreUpdate(w) PROVE FileOK'
  <2>1. PICK b : b = workerP[w]
    OBVIOUS
  <2>2. b \in Batch /\ b[1] \in Metric /\ b[2] \in 1..MaxBatches /\ b = <<b[1], b[2]>>
    BY <1>2, <2>1 DEF StoreUpdate, LifeOK, WorkersOK, TypeOK, Batch
  <2>3. /\ workerPC[w] = "update" /\ workerPC'[w] = "confirm" /\ workerP'[w] = b
        /\ file' = [file EXCEPT ![b[1]] = Append(@, b[2])]
    BY <1>2, <2>1 DEF StoreUpdate, TypeOK
  <2>4. Done(b[1], b[2])'
    BY <2>2, <2>3 DEF Done
  <2>5. file[b[1]] \in Seq(1..MaxBatches)
    BY <2>2 DEF TypeOK
  <2>6. Rising(file[b[1]]) /\ \A n \in Elems(file[b[1]]) : Done(b[1], n)
    BY <2>2 DEF FileOK
  <2>7. \A n \in Elems(file[b[1]]) : n < b[2]
    BY <2>1, <2>2, <2>3, <2>6, OlderDone
  <2>8. Rising(Append(file[b[1]], b[2]))
    BY <2>2, <2>5, <2>6, <2>7, RisingAppend
  <2>9. Elems(Append(file[b[1]], b[2])) = Elems(file[b[1]]) \cup {b[2]}
    <3>1. PICK S, s, x : S = 1..MaxBatches /\ s = file[b[1]] /\ x = b[2]
      OBVIOUS
    <3>2. s \in Seq(S) /\ x \in S
      BY <2>2, <2>5, <3>1
    <3>3. Elems(Append(s, x)) = Elems(s) \cup {x}
      BY <3>2, ElemsAppend
    <3> QED BY <3>1, <3>3
  <2>10. ASSUME NEW m \in Metric PROVE Rising(file'[m]) /\ \A n \in Elems(file'[m]) : Done(m, n)'
    <3>1. CASE m = b[1]
      <4>1. file'[m] = Append(file[b[1]], b[2])
        BY <2>2, <2>3, <3>1 DEF TypeOK
      <4>2. \A n \in Elems(file[b[1]]) : Done(b[1], n)'
        BY <2>2, <2>6, DoneStep
      <4> QED BY <2>4, <2>8, <2>9, <3>1, <4>1, <4>2
    <3>2. CASE m # b[1]
      <4>1. file'[m] = file[m]
        BY <2>3, <3>2 DEF TypeOK
      <4> QED BY <4>1, DoneStep DEF FileOK
    <3> QED BY <3>1, <3>2
  <2> QED BY <1>0, <2>10
<1>3. UNCHANGED file \/ \E w \in Workers : StoreUpdate(w)
  BY DEF SystemNext, Persist, Goroutines, LifeCycle, Throttle, Shuffler, Worker, CloseIn, allVars, Feed,
         ReadConfirm, Start, StopBegin, StopEnd, ThrottleTick, ThrottleReceive, ThrottleSend, ThrottleEnd,
         ShufflerReceive, ShufflerSend, ShufflerEnd, WorkerReceive, WorkerEnd, StoreOpen, StoreFail,
         StorePanic, StoreConfirm
<1> QED BY <1>1, <1>2, <1>3
(***************************************************************************)
(* The theorems.                                                           *)
(***************************************************************************)
\* The invariant holds before the first start.
LEMMA InitInv == ASSUME SystemInit PROVE PInv
<1> USE DEF SystemInit, Init
<1>1. TypeOK
  <2>1. <<>> \in Seq(Batch) /\ <<>> \in Seq(1..MaxBatches)
    OBVIOUS
  <2>2. channels \in [Workers -> Seq(Batch)] /\ workerP \in [Workers -> Batch \cup {None}]
    BY <2>1
  <2>3. workerPC \in [Workers -> {"off", "select", "open", "update", "confirm", "done"}]
    OBVIOUS
  <2>4. file \in [Metric -> Seq(1..MaxBatches)] /\ fed \in [Metric -> 0..MaxBatches]
    BY <2>1, BoundsAssumption
  <2>5. starts \in 0..MaxStarts /\ ticks \in 0..Chunk /\ throttled \in BOOLEAN
    BY BoundsAssumption, ThrottleAssumption
  <2> QED BY <2>1, <2>2, <2>3, <2>4, <2>5 DEF TypeOK
<1>2. ThrottleOK /\ ShufflerOK /\ StoppedOK
  BY DEF ThrottleOK, ShufflerOK, StoppedOK
<1>3. WorkersOK
  BY DEF WorkersOK
<1>4. Elems(<<>>) = {} /\ InSeq(None) = <<>>
  BY DEF Elems, InSeq
<1>5. HomeOK
  BY <1>4 DEF HomeOK
<1>6. LineOK
  <2> SUFFICES ASSUME NEW m \in Metric PROVE InLine(Stages(Home(m)), m, 1..fed[m])
    BY DEF LineOK
  <2>1. PICK v \in Workers : v = Home(m)
    BY <1>1, WorkerThere DEF TypeOK
  <2>2. fed[m] = 0 /\ Stages(v) = << <<>>, <<>>, <<>>, <<>>, <<>>, <<>>, <<>>, <<>> >>
    BY <1>4, <2>1 DEF Stages
  <2>3. PICK s : s = Stages(v)
    OBVIOUS
  <2>4. \A k \in 1..8 : s[k] = <<>>
    BY <2>2, <2>3
  <2>5. \A k \in 1..8 : Elems(s[k]) = {}
    BY <1>4, <2>4
  <2>6. \A k \in 1..8 : Sorted(s[k], m)
    BY <2>4 DEF Sorted
  <2>7. InLine(s, m, 1..0)
    BY <2>5, <2>6 DEF InLine, InOrder, Before
  <2> QED BY <2>1, <2>2, <2>3, <2>7
<1>7. FileOK
  BY <1>4 DEF FileOK, Rising
<1> QED BY <1>1, <1>2, <1>3, <1>5, <1>6, <1>7 DEF PInv, LifeOK

\* Between other neighbours, too, it starts sound.
LEMMA InitSound == ASSUME SystemInit PROVE Sound
BY InitInv DEF PInv, LineOK, InLine, Sound, Ordered

\* The invariant holds throughout, for any number of metrics, workers, batches
\* and starts and any capacity of the channels.
THEOREM PersisterInvariance == SystemSpec => []PInv
<1>1. SystemInit => PInv
  BY InitInv
<1>2. PInv /\ [SystemNext]_allVars => PInv'
  BY TypeStep, LifeStep, HomeStep, LineStep, FileStep DEF PInv
<1> QED BY <1>1, <1>2, PTL DEF SystemSpec

\* Every variable keeps its type.
THEOREM PersisterTypes == SystemSpec => []TypeOK
<1>1. PInv => TypeOK
  BY DEF PInv
<1> QED BY <1>1, PersisterInvariance, PTL

\* When Stop has returned, no batch is left between in and the confirmations.
THEOREM StopLeavesNothing == SystemSpec => []StoppedEmpty
<1>1. PInv => StoppedEmpty
  <2> SUFFICES ASSUME PInv, state = "stopped" PROVE Inside = {}
    BY DEF StoppedEmpty
  <2> QED BY NothingInside DEF PInv
<1> QED BY <1>1, PersisterInvariance, PTL

\* Two workers never have the same whisper file open, and a file gets its batches
\* oldest first, whatever the number of workers before and after a restart.
THEOREM OneWriterPerFile == SystemSpec => []FileExclusive
<1>1. PInv => FileExclusive
  <2> SUFFICES ASSUME PInv PROVE FileExclusive
    OBVIOUS
  <2>1. ASSUME NEW v \in Workers, NEW w \in Workers, v # w,
               workerPC[v] \in {"open", "update"}, workerPC[w] \in {"open", "update"}
        PROVE  workerP[v][1] # workerP[w][1]
    <3>1. workerP[v] # None /\ workerP[w] # None
      BY <2>1 DEF PInv, LifeOK, WorkersOK
    <3>2. v = Home(workerP[v][1]) /\ w = Home(workerP[w][1])
      BY <3>1 DEF PInv, HomeOK
    <3> QED BY <2>1, <3>2
  <2>2. \A m \in Metric : \A i, j \in 1..Len(file[m]) : i < j => file[m][i] < file[m][j]
    BY DEF PInv, FileOK, Rising
  <2> QED BY <2>1, <2>2 DEF FileExclusive
<1> QED BY <1>1, PersisterInvariance, PTL
\* Two parts of the line, one behind the other.
LEMMA Concat ==
    ASSUME NEW s \in Seq(Batch), NEW t \in Seq(Batch), NEW m,
           Sorted(s, m), Sorted(t, m), Before(Elems(s), Elems(t), m)
    PROVE  /\ s \o t \in Seq(Batch) /\ Sorted(s \o t, m)
           /\ Elems(s \o t) = Elems(s) \cup Elems(t)
<1>1. /\ s \o t \in Seq(Batch) /\ Len(s) \in Nat /\ Len(t) \in Nat
      /\ Len(s \o t) = Len(s) + Len(t)
      /\ \A i \in 1..(Len(s) + Len(t)) : (s \o t)[i] = IF i <= Len(s) THEN s[i] ELSE t[i - Len(s)]
  OBVIOUS
<1>2. \A i \in 1..Len(s) : i \in 1..(Len(s) + Len(t)) /\ (s \o t)[i] = s[i]
  BY <1>1
<1>3. \A i \in 1..Len(t) : Len(s) + i \in 1..(Len(s) + Len(t)) /\ (s \o t)[Len(s) + i] = t[i]
  BY <1>1
<1>4. \A i \in 1..(Len(s) + Len(t)) :
         \/ i \in 1..Len(s) /\ (s \o t)[i] = s[i]
         \/ Len(s) < i /\ i - Len(s) \in 1..Len(t) /\ (s \o t)[i] = t[i - Len(s)]
  BY <1>1
<1>5. Elems(s \o t) = Elems(s) \cup Elems(t)
  <2>1. Elems(s \o t) \subseteq Elems(s) \cup Elems(t)
    BY <1>1, <1>4 DEF Elems
  <2>2. Elems(s) \subseteq Elems(s \o t)
    BY <1>1, <1>2 DEF Elems
  <2>3. Elems(t) \subseteq Elems(s \o t)
    BY <1>1, <1>3 DEF Elems
  <2> QED BY <2>1, <2>2, <2>3
<1>6. Sorted(s \o t, m)
  <2> SUFFICES ASSUME NEW i \in 1..(Len(s) + Len(t)), NEW j \in 1..(Len(s) + Len(t)), i < j,
                      (s \o t)[i][1] = m, (s \o t)[j][1] = m
               PROVE  (s \o t)[i][2] < (s \o t)[j][2]
    BY <1>1 DEF Sorted
  <2>1. CASE j \in 1..Len(s) /\ (s \o t)[j] = s[j]
    <3>1. i \in 1..Len(s) /\ (s \o t)[i] = s[i]
      BY <1>1, <1>2, <2>1
    <3> QED BY <2>1, <3>1 DEF Sorted
  <2>2. CASE /\ j - Len(s) \in 1..Len(t) /\ (s \o t)[j] = t[j - Len(s)]
             /\ i \in 1..Len(s) /\ (s \o t)[i] = s[i]
    <3>1. (s \o t)[i] \in Elems(s) /\ (s \o t)[j] \in Elems(t)
      BY <2>2 DEF Elems
    <3> QED BY <3>1 DEF Before
  <2>3. CASE /\ j - Len(s) \in 1..Len(t) /\ (s \o t)[j] = t[j - Len(s)]
             /\ i - Len(s) \in 1..Len(t) /\ (s \o t)[i] = t[i - Len(s)]
    <3>1. i - Len(s) < j - Len(s)
      BY <1>1
    <3> QED BY <2>3, <3>1 DEF Sorted
  <2> QED BY <1>4, <2>1, <2>2, <2>3
<1> QED BY <1>1, <1>5, <1>6

\* p is a stretch of the line, and its batches are those in S.
Stretch(p, S, m) == p \in Seq(Batch) /\ Sorted(p, m) /\ Elems(p) = S

\* The next stretch joins it.
LEMMA NextStretch ==
    ASSUME NEW m, NEW p, NEW S, Stretch(p, S, m), NEW t, NEW T, Stretch(t, T, m), Before(S, T, m)
    PROVE  Stretch(p \o t, S \cup T, m)
BY Concat DEF Stretch

\* The whole line.
LEMMA WholeLine ==
    ASSUME NEW s \in [1..8 -> Seq(Batch)], NEW m, NEW N, InLine(s, m, N), NEW p,
           p = s[1] \o s[2] \o s[3] \o s[4] \o s[5] \o s[6] \o s[7] \o s[8]
    PROVE  /\ p \in Seq(Batch) /\ Sorted(p, m)
           /\ \A b : b \in Elems(p) <=> \E i \in 1..8 : b \in Elems(s[i])
<1>0. \A i \in 1..8 : Stretch(s[i], Elems(s[i]), m)
  BY DEF InLine, InOrder, Stretch
<1>1. \A i, j \in 1..8 : i < j => Before(Elems(s[i]), Elems(s[j]), m)
  BY DEF InLine, InOrder
<1>2. PICK q2, S2 : q2 = s[1] \o s[2] /\ S2 = Elems(s[1]) \cup Elems(s[2])
  OBVIOUS
<1>3. Stretch(q2, S2, m)
  <2>1. Before(Elems(s[1]), Elems(s[2]), m) /\ Stretch(s[1], Elems(s[1]), m) /\ Stretch(s[2], Elems(s[2]), m)
    BY <1>0, <1>1
  <2> QED BY <1>2, <2>1, NextStretch
<1>4. PICK q3, S3 : q3 = q2 \o s[3] /\ S3 = S2 \cup Elems(s[3])
  OBVIOUS
<1>5. Stretch(q3, S3, m)
  <2>1. Stretch(s[3], Elems(s[3]), m)
    BY <1>0
  <2>2. /\ Before(Elems(s[1]), Elems(s[3]), m) /\ Before(Elems(s[2]), Elems(s[3]), m)
    BY <1>1
  <2>3. Before(S2, Elems(s[3]), m)
    BY <2>2, <1>2 DEF Before
  <2> QED BY <1>4, <1>3, <2>1, <2>3, NextStretch
<1>6. PICK q4, S4 : q4 = q3 \o s[4] /\ S4 = S3 \cup Elems(s[4])
  OBVIOUS
<1>7. Stretch(q4, S4, m)
  <2>1. Stretch(s[4], Elems(s[4]), m)
    BY <1>0
  <2>2. /\ Before(Elems(s[1]), Elems(s[4]), m) /\ Before(Elems(s[2]), Elems(s[4]), m) /\ Before(Elems(s[3]), Elems(s[4]), m)
    BY <1>1
  <2>3. Before(S3, Elems(s[4]), m)
    BY <2>2, <1>2, <1>4 DEF Before
  <2> QED BY <1>6, <1>5, <2>1, <2>3, NextStretch
<1>8. PICK q5, S5 : q5 = q4 \o s[5] /\ S5 = S4 \cup Elems(s[5])
  OBVIOUS
<1>9. Stretch(q5, S5, m)
  <2>1. Stretch(s[5], Elems(s[5]), m)
    BY <1>0
  <2>2. /\ Before(Elems(s[1]), Elems(s[5]), m) /\ Before(Elems(s[2]), Elems(s[5]), m) /\ Before(Elems(s[3]), Elems(s[5]), m)
        /\ Before(Elems(s[4]), Elems(s[5]), m)
    BY <1>1
  <2>3. Before(S4, Elems(s[5]), m)
    BY <2>2, <1>2, <1>4, <1>6 DEF Before
  <2> QED BY <1>8, <1>7, <2>1, <2>3, NextStretch
<1>10. PICK q6, S6 : q6 = q5 \o s[6] /\ S6 = S5 \cup Elems(s[6])
  OBVIOUS
<1>11. Stretch(q6, S6, m)
  <2>1. Stretch(s[6], Elems(s[6]), m)
    BY <1>0
  <2>2. /\ Before(Elems(s[1]), Elems(s[6]), m) /\ Before(Elems(s[2]), Elems(s[6]), m) /\ Before(Elems(s[3]), Elems(s[6]), m)
        /\ Before(Elems(s[4]), Elems(s[6]), m) /\ Before(Elems(s[5]), Elems(s[6]), m)
    BY <1>1
  <2>3. Before(S5, Elems(s[6]), m)
    BY <2>2, <1>2, <1>4, <1>6, <1>8 DEF Before
  <2> QED BY <1>10, <1>9, <2>1, <2>3, NextStretch
<1>12. PICK q7, S7 : q7 = q6 \o s[7] /\ S7 = S6 \cup Elems(s[7])
  OBVIOUS
<1>13. Stretch(q7, S7, m)
  <2>1. Stretch(s[7], Elems(s[7]), m)
    BY <1>0
  <2>2. /\ Before(Elems(s[1]), Elems(s[7]), m) /\ Before(Elems(s[2]), Elems(s[7]), m) /\ Before(Elems(s[3]), Elems(s[7]), m)
        /\ Before(Elems(s[4]), Elems(s[7]), m) /\ Before(Elems(s[5]), Elems(s[7]), m) /\ Before(Elems(s[6]), Elems(s[7]), m)
    BY <1>1
  <2>3. Before(S6, Elems(s[7]), m)
    BY <2>2, <1>2, <1>4, <1>6, <1>8, <1>10 DEF Before
  <2> QED BY <1>12, <1>11, <2>1, <2>3, NextStretch
<1>14. PICK q8, S8 : q8 = q7 \o s[8] /\ S8 = S7 \cup Elems(s[8])
  OBVIOUS
<1>15. Stretch(q8, S8, m)
  <2>1. Stretch(s[8], Elems(s[8]), m)
    BY <1>0
  <2>2. /\ Before(Elems(s[1]), Elems(s[8]), m) /\ Before(Elems(s[2]), Elems(s[8]), m) /\ Before(Elems(s[3]), Elems(s[8]), m)
        /\ Before(Elems(s[4]), Elems(s[8]), m) /\ Before(Elems(s[5]), Elems(s[8]), m) /\ Before(Elems(s[6]), Elems(s[8]), m)
        /\ Before(Elems(s[7]), Elems(s[8]), m)
    BY <1>1
  <2>3. Before(S7, Elems(s[8]), m)
    BY <2>2, <1>2, <1>4, <1>6, <1>8, <1>10, <1>12 DEF Before
  <2> QED BY <1>14, <1>13, <2>1, <2>3, NextStretch
<1>16. p = q8
  BY <1>2, <1>4, <1>6, <1>8, <1>10, <1>12, <1>14
<1>17. \A b : b \in S8 <=> \E i \in 1..8 : b \in Elems(s[i])
  <2>1. \A b : b \in S8 <=> \/ b \in Elems(s[1]) \/ b \in Elems(s[2]) \/ b \in Elems(s[3])
                            \/ b \in Elems(s[4]) \/ b \in Elems(s[5]) \/ b \in Elems(s[6])
                            \/ b \in Elems(s[7]) \/ b \in Elems(s[8])
    BY <1>2, <1>4, <1>6, <1>8, <1>10, <1>12, <1>14
  <2> QED BY <2>1
<1> QED BY <1>15, <1>16, <1>17 DEF Stretch

\* No batch is lost, doubled or overtaken by a later one of its metric between in
\* and the confirmations, across Stop and Start with another number of workers,
\* with or without a throttle, and whether or not a store failed.
THEOREM NothingLostOrReordered == SystemSpec => []InOrderOnce
<1>1. PInv => InOrderOnce
  <2> SUFFICES ASSUME PInv, NEW m \in Metric, NEW p, p = Path(Home(m))
               PROVE  /\ {b \in Elems(p) : b[1] = m} = {<<m, n>> : n \in 1..fed[m]}
                      /\ Sorted(p, m)
    BY DEF InOrderOnce, Sorted
  <2>1. PICK v \in Workers : v = Home(m)
    BY WorkerThere DEF PInv, TypeOK
  <2>2. PICK s : s = Stages(v)
    OBVIOUS
  <2>3. InLine(s, m, 1..fed[m])
    BY <2>1, <2>2 DEF PInv, LineOK
  <2>4. /\ s \in [1..8 -> Seq(Batch)]
        /\ s[1] = acked /\ s[2] = confirm /\ s[3] = InSeq(workerP[v]) /\ s[4] = channels[v]
        /\ s[5] = InSeq(shufflerP) /\ s[6] = throttleOut /\ s[7] = InSeq(throttleP) /\ s[8] = in
    BY <2>2, StagesNow DEF PInv
  <2>5. p = s[1] \o s[2] \o s[3] \o s[4] \o s[5] \o s[6] \o s[7] \o s[8]
    BY <2>1, <2>4 DEF Path
  <2>7. p \in Seq(Batch) /\ Sorted(p, m) /\ \A b : b \in Elems(p) <=> \E i \in 1..8 : b \in Elems(s[i])
    BY <2>3, <2>4, <2>5, WholeLine
  <2>8. \A i \in Nat : <<m, i>> \in Elems(p) <=> i \in 1..fed[m]
    BY <2>3, <2>7 DEF InLine, InOrder
  <2>9. ASSUME NEW b \in Elems(p), b[1] = m PROVE b \in {<<m, n>> : n \in 1..fed[m]}
    <3>1. b \in Batch
      BY <2>7, BatchesIn
    <3>2. b = <<m, b[2]>> /\ b[2] \in Nat
      BY <2>9, <3>1, Parts
    <3> QED BY <2>8, <3>2
  <2>10. ASSUME NEW n \in 1..fed[m] PROVE <<m, n>> \in Elems(p) /\ <<m, n>>[1] = m
    <3>1. n \in Nat
      BY DEF PInv, TypeOK
    <3> QED BY <2>8, <3>1
  <2> QED BY <2>7, <2>9, <2>10
<1> QED BY <1>1, PersisterInvariance, PTL
=============================================================================

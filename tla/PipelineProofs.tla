--------------------------- MODULE PipelineProofs ---------------------------
(***************************************************************************)
(* Proofs about cache and persister together: the persister does what the  *)
(* cache expects of it, so that the properties of Cache hold for the       *)
(* composition, and confirmations come back in the order of the batches.   *)
(***************************************************************************)
EXTENDS Pipeline, CacheProofs

\* The persister's proofs, without the neighbours that PersisterSystem gives it.
S == INSTANCE PersisterProofs WITH
        MaxBatches <- MaxSerial, InCap <- OutputCap, ThrottleCap <- OutputCap,
        None <- Nil, in <- outputChan, inClosed <- outputClosed,
        confirm <- confirmChan, exit <- persisterExit,
        workerPC <- storePC, workerP <- storeP,
        fed <- [m \in Metric |-> 0], acked <- <<>>

(***************************************************************************)
(* The invariant.                                                          *)
(***************************************************************************)
\* The batches of A were made before those of B of the same metric.
Elder(A, B) == \A a \in A, b \in B : a[1] = b[1] => a[2] < b[2]

\* The messages of a metric stand in the input channel in the order in which
\* they were made.
MessageOrder ==
    \A i, j \in 1..Len(inputChan) : i < j => Elder({inputChan[i]}, {inputChan[j]})

\* What is further on is older: the tracker's batches, then the worker's, then
\* the map's, then those of the input channel.
PlaceOrder ==
    /\ Elder(InFlightAddrs, HeldAddrs \cup CachedAddrs \cup Elems(inputChan))
    /\ Elder(HeldAddrs, CachedAddrs \cup Elems(inputChan))
    /\ Elder(CachedAddrs, Elems(inputChan))

\* The tracker has a metric's batches in the order in which they were made.
TrackOrder ==
    \A m \in Metric : \A i, j \in 1..Len(notConfirmed[m]) :
        i < j => notConfirmed[m][i][2] < notConfirmed[m][j][2]

\* The batches behind the tracker are older than the one in its hand.
Passed    == Elems(outputChan) \cup taken \cup Elems(confirmChan)
HandOrder == Elder(Passed, {p} \ {Nil})

BatchOrder == MessageOrder /\ PlaceOrder /\ TrackOrder /\ HandOrder

\* With the persister's part: it is sound (PersisterProofs), and the batches it
\* has taken, as the cache sees it, are those it has inside.
PipeInv == TInv /\ S!Sound /\ taken = Inside /\ BatchOrder

(***************************************************************************)
(* The two instances of the persister are the same.                        *)
(***************************************************************************)
\* What PersisterProofs assumes of its constants.
LEMMA PersisterConstants ==
    /\ S!BoundsAssumption /\ S!WorkersAssumption /\ S!HashAssumption /\ S!ThrottleAssumption
    /\ S!ChannelAssumption /\ S!NoneAssumption
BY PersisterAssumption, SerialAssumption, CapAssumption, NilAssumption
   DEF S!Batch, Addr, Point, Serial

LEMMA SameWorkers == P!Workers = S!Workers
BY DEF P!Workers, S!Workers, P!MaxWorkers, S!MaxWorkers

LEMMA SameElems == (\A s : S!Elems(s) = Elems(s)) /\ S!Batch = Addr
BY DEF S!Elems, Elems, S!Batch, Addr, Point, Serial

LEMMA SameInside == Inside = S!Inside /\ Inside' = S!Inside'
BY SameWorkers, SameElems DEF Inside, S!Inside, S!Elems, Elems

\* The persister of Pipeline takes the steps that PersisterProofs is about.
LEMMA SameThrottle == P!Throttle <=> S!Throttle
BY DEF P!Throttle, P!ThrottleTick, P!ThrottleReceive, P!ThrottleSend, P!ThrottleEnd,
       P!unchangedByThrottle, P!lifeVars, P!shuffleVars, P!workVars, P!fileVars,
       S!Throttle, S!ThrottleTick, S!ThrottleReceive, S!ThrottleSend, S!ThrottleEnd,
       S!unchangedByThrottle, S!lifeVars, S!shuffleVars, S!workVars, S!fileVars

LEMMA SameShuffler == P!Shuffler <=> S!Shuffler
BY DEF P!Shuffler, P!ShufflerReceive, P!ShufflerSend, P!ShufflerEnd, P!Source, P!TakeSource,
       P!SourceClosed, P!ReaderEnds, P!ReaderExit, P!Index,
       P!unchangedByShuffler, P!lifeVars, P!workVars, P!fileVars,
       S!Shuffler, S!ShufflerReceive, S!ShufflerSend, S!ShufflerEnd, S!Source, S!TakeSource,
       S!SourceClosed, S!ReaderEnds, S!ReaderExit, S!Index,
       S!unchangedByShuffler, S!lifeVars, S!workVars, S!fileVars

LEMMA SameWorker == ASSUME NEW w PROVE P!Worker(w) <=> S!Worker(w)
BY DEF P!Worker, P!WorkerReceive, P!WorkerEnd, P!StoreOpen, P!StoreFail, P!StoreUpdate,
       P!StorePanic, P!StoreConfirm, P!Source, P!TakeSource, P!SourceClosed, P!ReaderEnds,
       P!ReaderExit, P!Solo, P!unchangedByWorker, P!lifeVars, P!shuffleVars, P!fileVars,
       S!Worker, S!WorkerReceive, S!WorkerEnd, S!StoreOpen, S!StoreFail, S!StoreUpdate,
       S!StorePanic, S!StoreConfirm, S!Source, S!TakeSource, S!SourceClosed, S!ReaderEnds,
       S!ReaderExit, S!Solo, S!unchangedByWorker, S!lifeVars, S!shuffleVars, S!fileVars

LEMMA SameGoroutines == P!Goroutines <=> S!Goroutines
BY SameThrottle, SameShuffler, SameWorker, SameWorkers DEF P!Goroutines, S!Goroutines

LEMMA SameLife ==
    /\ \A n \in WorkerCounts, t \in Throttling : P!Start(n, t) => S!LifeCycle
    /\ P!StopBegin => S!LifeCycle
    /\ P!StopEnd => S!LifeCycle
<1>1. \A n, t : P!Start(n, t) => S!Start(n, t)
  BY SameWorkers DEF P!Start, S!Start, P!chanVars, S!chanVars, P!fileVars, S!fileVars
<1>2. P!StopBegin => S!StopBegin
  BY DEF P!StopBegin, S!StopBegin, P!chanVars, S!chanVars, P!fileVars, S!fileVars,
         P!throttleVars, S!throttleVars, P!shuffleVars, S!shuffleVars, P!workVars, S!workVars
<1>3. P!StopEnd => S!StopEnd
  BY SameWorkers
     DEF P!StopEnd, S!StopEnd, P!chanVars, S!chanVars, P!fileVars, S!fileVars,
         P!throttleVars, S!throttleVars, P!shuffleVars, S!shuffleVars, P!workVars, S!workVars
<1> QED BY <1>1, <1>2, <1>3 DEF S!LifeCycle

(***************************************************************************)
(* What a step of the persister is for the cache.                          *)
(***************************************************************************)
\* The lemmas of PersisterProofs that are used here, with its assumptions
\* discharged.
LEMMA PersisterLemmas ==
    /\ S!Sound /\ (S!Goroutines \/ S!LifeCycle) => S!Sound'
    /\ S!Sound /\ S!Goroutines => S!Stays \/ S!Takes \/ S!Confirms
    /\ S!Sound /\ S!LifeCycle => S!Stays
    /\ S!Sound /\ UNCHANGED <<S!chanVars, S!ownVars>> => S!Sound' /\ S!Inside' = S!Inside
<1> USE PersisterConstants
    DEF S!BoundsAssumption, S!WorkersAssumption, S!HashAssumption, S!ThrottleAssumption,
        S!ChannelAssumption, S!NoneAssumption
<1>1. ASSUME S!Sound, S!Goroutines \/ S!LifeCycle PROVE S!Sound'
  BY <1>1, S!SoundPersist
<1>2. ASSUME S!Sound, S!Goroutines PROVE S!Stays \/ S!Takes \/ S!Confirms
  BY <1>2, S!InsideStep
<1>3. ASSUME S!Sound, S!LifeCycle PROVE S!Stays
  BY <1>3, S!LifeInside DEF S!Sound
<1>4. ASSUME S!Sound, UNCHANGED <<S!chanVars, S!ownVars>> PROVE S!Sound' /\ S!Inside' = S!Inside
  BY <1>4, S!SoundQuiet
<1> QED BY <1>1, <1>2, <1>3, <1>4

\* A step of its goroutines takes a batch, confirms one that it has taken, or is
\* nothing to the cache.
LEMMA PersisterSteps ==
    ASSUME PipeInv, PersisterStep
    PROVE  /\ Take \/ (\E a \in Addr : Confirm(a)) \/ UNCHANGED vars
           /\ S!Sound' /\ taken' = Inside'
<1> USE DEF vars, cacheVars, inVars, storeVars, workerVars, trackVars, queryVars, persistVars, fixedVars
<1>1. S!Sound /\ S!Goroutines
  BY SameGoroutines DEF PipeInv, PersisterStep
<1>2. /\ taken' = Inside' /\ taken = Inside /\ Inside = S!Inside /\ Inside' = S!Inside'
      /\ written' = IF Len(confirmChan') > Len(confirmChan)
                    THEN written \cup PointsOf(confirmChan'[Len(confirmChan')])
                    ELSE written
      /\ UNCHANGED cacheVars
  BY SameInside DEF PipeInv, PersisterStep, Bookkeeping
<1>3. S!Sound'
  BY <1>1, PersisterLemmas
<1>4. confirmChan \in Seq(Addr) /\ taken \subseteq Addr
  BY DEF PipeInv, TInv, IInv, ShapeOK
<1>5. CASE S!Stays
  <2>1. UNCHANGED <<outputChan, confirmChan>> /\ taken' = taken
    BY <1>2, <1>5 DEF S!Stays
  <2>2. ~(Len(confirmChan') > Len(confirmChan))
    BY <1>4, <2>1
  <2>3. UNCHANGED vars
    BY <1>2, <2>1, <2>2
  <2> QED BY <1>2, <1>3, <2>3
<1>6. CASE S!Takes
  <2>1. /\ outputChan # Empty /\ outputChan' = Tail(outputChan) /\ confirmChan' = confirmChan
        /\ taken' = taken \cup {Head(outputChan)}
    BY <1>2, <1>6 DEF S!Takes, Empty
  <2>2. ~(Len(confirmChan') > Len(confirmChan))
    BY <1>4, <2>1
  <2>3. Take
    BY <1>2, <2>1, <2>2 DEF Take
  <2> QED BY <1>2, <1>3, <2>3
<1>7. CASE S!Confirms
  <2>1. PICK b \in taken : /\ Len(confirmChan) < ConfirmCap /\ confirmChan' = Append(confirmChan, b)
                           /\ taken' = taken \ {b} /\ outputChan' = outputChan
    BY <1>2, <1>7 DEF S!Confirms
  <2>2. b \in Addr
    BY <1>4, <2>1
  <2>3. Len(confirmChan') > Len(confirmChan) /\ confirmChan'[Len(confirmChan')] = b
    BY <1>4, <2>1, <2>2
  <2>4. Confirm(b)
    BY <1>2, <2>1, <2>3 DEF Confirm
  <2> QED BY <1>2, <1>3, <2>2, <2>4
<1> QED BY <1>1, <1>5, <1>6, <1>7, PersisterLemmas

\* The application starts and stops the persister without moving a batch, and
\* of the cache it moves nothing but the exit.
LEMMA ApplicationSteps ==
    ASSUME PipeInv, Application
    PROVE  Stop \/ UNCHANGED vars
<1> USE DEF vars, cacheVars, inVars, storeVars, workerVars, trackVars, queryVars, persistVars, fixedVars
<1>1. CASE StartPersister \/ StopPersister \/ PersisterStopped
  <2>1. UNCHANGED <<outputChan, confirmChan>>
    BY <1>1 DEF StartPersister, StopPersister, PersisterStopped, P!Start, P!StopBegin, P!StopEnd, P!chanVars
  <2>2. UNCHANGED <<cacheVars, taken, written>>
    BY <1>1 DEF StartPersister, StopPersister, PersisterStopped, quietCache
  <2> QED BY <2>1, <2>2
<1>2. CASE StopCache
  BY <1>2 DEF StopCache
<1>3. ASSUME NEW op \in AppOps, Begin(op) PROVE UNCHANGED vars
  BY <1>3 DEF Begin, quiet
<1>4. CASE Listen \/ Started \/ ListenFails \/ FlushReadSize \/ FlushReadLen \/ CacheStopped
  BY <1>4 DEF Listen, Started, ListenFails, FlushReadSize, FlushReadLen, CacheStopped, quiet
<1> QED BY <1>1, <1>2, <1>3, <1>4 DEF Application

\* So every step of the composition is one of Cache's.
LEMMA CacheSteps ==
    ASSUME PipeInv, [PipelineNext]_pipelineVars
    PROVE  [Next]_vars
<1>1. CASE CacheStep
  BY <1>1 DEF CacheStep, Next, Environment
<1>2. CASE PersisterStep
  BY <1>2, PersisterSteps DEF Next, Environment
<1>3. CASE Application
  BY <1>3, ApplicationSteps DEF Next, Environment
<1>4. CASE UNCHANGED pipelineVars
  BY <1>4 DEF pipelineVars
<1> QED BY <1>1, <1>2, <1>3, <1>4 DEF PipelineNext

(***************************************************************************)
(* Confirmations come in order.                                            *)
(***************************************************************************)
\* Where the batches behind the tracker stand: the first confirmation is older
\* than every other batch of its metric there.
LEMMA FirstConfirmed ==
    ASSUME PipeInv, confirmChan # Empty, NEW a, a = Head(confirmChan),
           NEW b \in BehindAddrs, b[1] = a[1], b # a
    PROVE  a[2] < b[2]
<1> USE DEF Empty
<1>0. /\ confirmChan \in Seq(Addr) /\ a \in Addr /\ a \in Elems(confirmChan)
      /\ a[1] \in Metric
  BY ElemsTail DEF PipeInv, TInv, IInv, ShapeOK, Addr, Point
<1>1. PICK m \in Metric : m = a[1]
  BY <1>0
<1>2. PICK v, s : v = S!Home(m) /\ s = S!Stages(v)
  OBVIOUS
<1>3. v \in S!Workers
  BY <1>2, PersisterConstants, S!WorkerThere
     DEF PipeInv, S!Sound, S!TypeOK, S!BoundsAssumption, S!WorkersAssumption, S!HashAssumption,
         S!ThrottleAssumption, S!ChannelAssumption, S!NoneAssumption
<1>4. s[2] = confirmChan /\ s[8] = outputChan
  BY <1>2 DEF S!Stages
<1>5. /\ \A k \in 1..8 : S!Sorted(s[k], m)
      /\ \A k, l \in 1..8 : k < l => S!Before(S!Elems(s[k]), S!Elems(s[l]), m)
  BY <1>2 DEF PipeInv, S!Sound, S!Ordered, S!InOrder
<1>6. a \in S!Elems(s[2])
  BY <1>0, <1>4, SameElems
<1>7. ASSUME NEW k \in 3..8, b \in S!Elems(s[k]) PROVE a[2] < b[2]
  <2>1. 2 \in 1..8 /\ k \in 1..8 /\ 2 < k
    OBVIOUS
  <2>2. S!Before(S!Elems(s[2]), S!Elems(s[k]), m)
    BY <1>5, <2>1
  <2> QED BY <1>1, <1>6, <1>7, <2>2 DEF S!Before
<1>8. CASE b \in Elems(outputChan)
  <2>1. b \in S!Elems(s[8]) /\ 8 \in 3..8
    BY <1>4, <1>8, SameElems
  <2> QED BY <1>7, <2>1
<1>9. CASE b \in taken
  <2>1. b \in S!Inside
    BY <1>9, SameInside DEF PipeInv
  <2>2. \E k \in 3..7 : b \in S!Elems(s[k])
    BY <1>1, <1>2, <1>3, <2>1, PersisterConstants, S!Staged
       DEF PipeInv, S!Sound, S!BoundsAssumption, S!WorkersAssumption, S!HashAssumption,
           S!ThrottleAssumption, S!ChannelAssumption, S!NoneAssumption
  <2>3. \A k \in 3..7 : k \in 3..8
    OBVIOUS
  <2> QED BY <1>7, <2>2, <2>3
<1>10. CASE b \in Elems(confirmChan)
  <2>1. S!Sorted(confirmChan, m)
    BY <1>4, <1>5
  <2>2. PICK j \in 1..Len(confirmChan) : confirmChan[j] = b
    BY <1>10 DEF Elems
  <2>3. Len(confirmChan) \in Nat /\ 1 \in 1..Len(confirmChan) /\ a = confirmChan[1]
    BY <1>0, ElemsTail
  <2>4. 1 < j
    BY <2>2, <2>3
  <2> QED BY <1>1, <2>1, <2>2, <2>3, <2>4 DEF S!Sorted
<1>11. CASE b \in {p} \ {Nil}
  BY <1>0, <1>11 DEF PipeInv, BatchOrder, HandOrder, Passed, Elder
<1> QED BY <1>8, <1>9, <1>10, <1>11 DEF BehindAddrs

\* The confirmation that the tracker reads next is of the first batch that it
\* has for the metric.
LEMMA HeadConfirmed == ASSUME PipeInv PROVE ConfirmsHead
<1> SUFFICES ASSUME confirmChan # Empty, NEW a, a = Head(confirmChan)
             PROVE  notConfirmed[MetricOf(a)] # Empty /\ Head(notConfirmed[MetricOf(a)]) = a
  BY DEF ConfirmsHead
<1>0. ShapeOK /\ FiledOK /\ TrackerExact /\ TrackOrder
  BY DEF PipeInv, TInv, IInv, HandOverOK, BatchOrder
<1>1. a \in Addr /\ a \in Elems(confirmChan)
  BY <1>0, ElemsTail DEF ShapeOK
<1>2. a \in InFlightAddrs
  BY <1>0, <1>1 DEF TrackerExact, BehindAddrs
<1>3. PICK m \in Metric : a \in Elems(notConfirmed[m])
  BY <1>2 DEF InFlightAddrs
<1>4. MetricOf(a) = m
  BY <1>0, <1>3 DEF FiledOK
<1>5. PICK s : s = notConfirmed[m]
  OBVIOUS
<1>6. s \in Seq(Addr) /\ Len(s) \in Nat
  BY <1>0, <1>5 DEF ShapeOK
<1>7. PICK i \in 1..Len(s) : s[i] = a
  BY <1>3, <1>5 DEF Elems
<1>8. s # Empty /\ 1 \in 1..Len(s) /\ Head(s) = s[1] /\ s[1] \in Addr
  BY <1>6, <1>7 DEF Empty
<1>9. ASSUME s[1] # a PROVE FALSE
  <2>1. 1 < i
    BY <1>6, <1>7, <1>9
  <2>2. s[1][2] < a[2]
    BY <1>0, <1>5, <1>7, <1>8, <2>1 DEF TrackOrder
  <2>3. s[1] \in Elems(notConfirmed[m])
    BY <1>5, <1>8 DEF Elems
  <2>4. s[1] \in BehindAddrs
    BY <1>0, <2>3 DEF TrackerExact, InFlightAddrs
  <2>5. s[1][1] = m /\ a[1] = m
    BY <1>0, <1>4, <2>3 DEF FiledOK, MetricOf
  <2>6. a[2] < s[1][2]
    BY <1>9, <2>4, <2>5, FirstConfirmed
  <2>7. a[2] \in Nat /\ s[1][2] \in Nat
    BY <1>1, <1>8 DEF Addr, Point, Serial
  <2> QED BY <2>2, <2>6, <2>7
<1> QED BY <1>4, <1>5, <1>8, <1>9

(***************************************************************************)
(* The persister's part of the invariant.                                  *)
(***************************************************************************)
\* A batch enters outputChan, or a confirmation is read.
LEMMA TrackerSound ==
    ASSUME PipeInv, TrackerSend \/ TrackerConfirm, UNCHANGED <<outputClosed, persisterVars>>
    PROVE  S!Sound' /\ S!Inside' = S!Inside
<1> USE PersisterConstants
    DEF S!BoundsAssumption, S!WorkersAssumption, S!HashAssumption, S!ThrottleAssumption,
        S!ChannelAssumption, S!NoneAssumption
<1>1. S!Sound /\ UNCHANGED S!ownVars /\ outputClosed' = outputClosed
  BY DEF PipeInv, persisterVars, S!ownVars, S!lifeVars, S!throttleVars, S!shuffleVars, S!workVars,
         S!fileVars
<1>2. CASE TrackerSend
  <2>1. PICK b : b = p
    OBVIOUS
  <2>2. b \in S!Batch /\ outputChan' = Append(outputChan, b) /\ confirmChan' = confirmChan
    BY <1>2, <2>1, SameElems DEF TrackerSend, PipeInv, TInv, IInv, ShapeOK
  <2>3. Elder(Passed, {b})
    BY <1>2, <2>1 DEF TrackerSend, PipeInv, BatchOrder, HandOrder
  <2>4. S!Elems(<<>>) = {}
    BY DEF S!Elems
  <2>5. Passed = S!Elems(<<>>) \cup S!Elems(confirmChan) \cup S!Inside \cup S!Elems(outputChan)
    BY <2>4, SameElems, SameInside DEF Passed, PipeInv
  <2>6. \A c \in S!Elems(<<>>) \cup S!Elems(confirmChan) \cup S!Inside \cup S!Elems(outputChan) :
            c[1] = b[1] => c[2] < b[2]
    BY <2>3, <2>5 DEF Elder
  <2> QED BY <1>1, <2>2, <2>6, S!SoundFeed
<1>3. CASE TrackerConfirm
  <2>1. outputChan' = outputChan /\ confirmChan # <<>> /\ confirmChan' = Tail(confirmChan)
    BY <1>3 DEF TrackerConfirm, Empty
  <2> QED BY <1>1, <2>1, S!SoundRead
<1> QED BY <1>2, <1>3

\* Every step keeps the persister sound, and the cache's view of it right.
LEMMA SoundStep ==
    ASSUME PipeInv, [PipelineNext]_pipelineVars
    PROVE  S!Sound' /\ taken' = Inside'
<1>0. S!Sound /\ taken = S!Inside
  BY SameInside DEF PipeInv
<1>1. ASSUME UNCHANGED <<outputChan, confirmChan, taken, outputClosed, persisterVars>>
      PROVE  S!Sound' /\ taken' = Inside'
  <2>1. UNCHANGED <<S!chanVars, S!ownVars>>
    BY <1>1 DEF persisterVars, S!chanVars, S!ownVars, S!lifeVars, S!throttleVars, S!shuffleVars,
                S!workVars, S!fileVars
  <2> QED BY <1>0, <1>1, <2>1, PersisterLemmas, SameInside
<1>2. CASE CacheStep
  <2>1. UNCHANGED <<outputClosed, persisterVars>>
    BY <1>2 DEF CacheStep
  <2>2. CASE TrackerSend \/ TrackerConfirm
    <3>1. taken' = taken
      BY <2>2 DEF TrackerSend, TrackerConfirm
    <3> QED BY <1>0, <2>1, <2>2, <3>1, TrackerSound, SameInside
  <2>3. CASE ~(TrackerSend \/ TrackerConfirm)
    <3>1. UNCHANGED <<outputChan, confirmChan, taken>>
      BY <1>2, <2>3
         DEF CacheStep, Worker, Tracker, LoopKeep, LoopPopQueued, LoopRebuild, LoopEmpty, SelectQuery,
             ForwardQuery, SelectSend, SelectReceive, SelectOverflow, SelectExit, TrackerQuery,
             TrackerExit, Receive, Ask, persistVars, unchangedByLoop, unchangedByTracker
    <3> QED BY <1>1, <2>1, <3>1
  <2> QED BY <2>2, <2>3
<1>3. CASE PersisterStep
  BY <1>3, PersisterSteps
<1>4. CASE StartPersister \/ StopPersister \/ PersisterStopped
  <2>1. S!LifeCycle
    BY <1>4, SameLife DEF StartPersister, StopPersister, PersisterStopped
  <2>2. taken' = taken
    BY <1>4 DEF StartPersister, StopPersister, PersisterStopped, quietCache
  <2> QED BY <1>0, <2>1, <2>2, PersisterLemmas, SameInside DEF S!Stays
<1>5. CASE Application /\ ~(StartPersister \/ StopPersister \/ PersisterStopped)
  <2>1. UNCHANGED <<outputChan, confirmChan, taken, outputClosed, persisterVars>>
    BY <1>5 DEF Application, Listen, Started, ListenFails, FlushReadSize, FlushReadLen, StopCache,
                CacheStopped, Begin, quiet, Stop, vars, persistVars
  <2> QED BY <1>1, <2>1
<1>6. CASE UNCHANGED pipelineVars
  BY <1>1, <1>6 DEF pipelineVars, vars, persistVars
<1> QED BY <1>2, <1>3, <1>4, <1>5, <1>6 DEF PipelineNext

(***************************************************************************)
(* The order in which the cache keeps its batches.                         *)
(***************************************************************************)
\* Steps that leave the input channel alone.
LEMMA InputKept == ASSUME MessageOrder, UNCHANGED inputChan PROVE MessageOrder'
BY DEF MessageOrder, Elder

\* Steps in which no message moves into or within the cache.
LEMMA OrderKept ==
    ASSUME BatchOrder, UNCHANGED <<inputChan, notConfirmed, data, values>>, HandOrder'
    PROVE  BatchOrder'
<1>1. /\ Elems(inputChan)' = Elems(inputChan) /\ InFlightAddrs' = InFlightAddrs
      /\ HeldAddrs' = HeldAddrs /\ CachedAddrs' = CachedAddrs
  BY DEF Elems, InFlightAddrs, HeldAddrs, CachedAddrs
<1>2. MessageOrder'
  BY InputKept DEF BatchOrder
<1>3. PlaceOrder'
  BY <1>1 DEF BatchOrder, PlaceOrder, Elder
<1>4. TrackOrder'
  BY DEF BatchOrder, TrackOrder
<1> QED BY <1>2, <1>3, <1>4 DEF BatchOrder

\* Steps that do not move a batch behind the worker.
LEMMA BehindKept ==
    ASSUME BatchOrder, UNCHANGED <<notConfirmed, p, outputChan, taken, confirmChan>>
    PROVE  TrackOrder' /\ HandOrder' /\ InFlightAddrs' = InFlightAddrs
<1>1. Passed' = Passed /\ InFlightAddrs' = InFlightAddrs
  BY DEF Passed, InFlightAddrs, Elems
<1> QED BY <1>1 DEF BatchOrder, TrackOrder, HandOrder, Elder

\* The batch that Pop takes is the only one of its metric in the map.
LEMMA PopOrder ==
    ASSUME IInv, BatchOrder, NEW q \in Seq(Addr), q # Empty, PopFrom(q), values = Nil,
           \A i \in 1..Len(q) : data[MetricOf(q[i])] = q[i],
           UNCHANGED <<inputChan, p, notConfirmed, outputChan, taken, confirmChan>>
    PROVE  BatchOrder'
<1>1. ShapeOK /\ MapOK
  BY DEF IInv, Account
<1>2. PICK a : a = q[Len(q)]
  OBVIOUS
<1>3. a \in Addr /\ MetricOf(a) \in Metric /\ data[MetricOf(a)] = a
  <2>1. Len(q) \in Nat \ {0}
    BY DEF Empty
  <2>2. a \in Addr /\ data[MetricOf(a)] = a
    BY <1>2, <2>1
  <2> QED BY <2>2 DEF MetricOf, Addr, Point
<1>4. values' = a /\ data' = [data EXCEPT ![MetricOf(a)] = Nil]
  BY <1>2 DEF PopFrom, Last1, Remove
<1>5. data \in [Metric -> Addr \cup {Nil}] /\ Nil \notin Addr
  BY <1>1, NilAssumption DEF ShapeOK
<1>6. /\ \A m \in Metric : m # MetricOf(a) => data'[m] = data[m]
      /\ data'[MetricOf(a)] = Nil
  BY <1>3, <1>4, <1>5
<1>7. a \in CachedAddrs /\ HeldAddrs' = {a} /\ Elems(inputChan)' = Elems(inputChan)
  BY <1>3, <1>4, <1>5 DEF CachedAddrs, HeldAddrs, Elems
<1>8. CachedAddrs' \subseteq CachedAddrs
  BY <1>5, <1>6 DEF CachedAddrs
<1>9. \A b \in CachedAddrs' : b[1] # a[1]
  BY <1>1, <1>5, <1>6 DEF CachedAddrs, MapOK, MetricOf
<1>10. TrackOrder' /\ HandOrder' /\ InFlightAddrs' = InFlightAddrs
  BY BehindKept
<1>11. MessageOrder'
  BY InputKept DEF BatchOrder
<1>12. PlaceOrder'
  <2>1. Elder(InFlightAddrs, CachedAddrs \cup Elems(inputChan)) /\ Elder(CachedAddrs, Elems(inputChan))
    BY DEF BatchOrder, PlaceOrder, Elder
  <2>2. Elder(InFlightAddrs', HeldAddrs' \cup CachedAddrs' \cup Elems(inputChan'))
    BY <1>7, <1>8, <1>10, <2>1 DEF Elder
  <2>3. Elder(HeldAddrs', CachedAddrs' \cup Elems(inputChan'))
    BY <1>7, <1>9, <2>1 DEF Elder
  <2>4. Elder(CachedAddrs', Elems(inputChan'))
    BY <1>7, <1>8, <2>1 DEF Elder
  <2> QED BY <2>2, <2>3, <2>4 DEF PlaceOrder, Elder
<1> QED BY <1>10, <1>11, <1>12 DEF BatchOrder

\* The worker receives a message: it is the oldest in the input channel, and
\* goes into the map, into an object that is there, or away.
LEMMA ReceiveOrder ==
    ASSUME IInv, BatchOrder, SelectReceive \/ SelectOverflow
    PROVE  BatchOrder'
<1>1. ShapeOK
  BY DEF IInv
<1>2. PICK h : h = Head(inputChan)
  OBVIOUS
<1>3. /\ inputChan \in Seq(Addr) /\ inputChan # Empty /\ inputChan' = Tail(inputChan)
      /\ UNCHANGED <<values, p, notConfirmed, outputChan, taken, confirmChan>>
  BY <1>1 DEF SelectReceive, SelectOverflow, ShapeOK, trackVars, persistVars
<1>4. /\ h \in Addr /\ h = inputChan[1] /\ Len(inputChan) \in Nat \ {0}
      /\ Elems(inputChan) = {h} \cup Elems(inputChan')
      /\ \A i \in 1..Len(inputChan') : i + 1 \in 1..Len(inputChan) /\ inputChan'[i] = inputChan[i + 1]
  BY <1>2, <1>3, ElemsTail
<1>5. CachedAddrs' \subseteq CachedAddrs \cup {h}
  <2>1. CASE UNCHANGED data
    BY <2>1 DEF CachedAddrs
  <2>2. CASE ~UNCHANGED data
    <3>1. data' = [data EXCEPT ![MetricOf(h)] = h]
      BY <1>2, <2>2 DEF SelectReceive, SelectOverflow, Add, storeVars
    <3>2. data \in [Metric -> Addr \cup {Nil}]
      BY <1>1 DEF ShapeOK
    <3> QED BY <3>1, <3>2 DEF CachedAddrs
  <2> QED BY <2>1, <2>2
<1>6. Elder({h}, Elems(inputChan'))
  <2> SUFFICES ASSUME NEW i \in 1..Len(inputChan') PROVE Elder({h}, {inputChan'[i]})
    BY DEF Elder, Elems
  <2>1. 1 \in 1..Len(inputChan) /\ i + 1 \in 1..Len(inputChan) /\ 1 < i + 1
    BY <1>4
  <2> QED BY <1>4, <2>1 DEF BatchOrder, MessageOrder
<1>7. TrackOrder' /\ HandOrder' /\ InFlightAddrs' = InFlightAddrs
  BY <1>3, BehindKept
<1>8. HeldAddrs' = HeldAddrs
  BY <1>3 DEF HeldAddrs
<1>9. MessageOrder'
  <2> SUFFICES ASSUME NEW i \in 1..Len(inputChan'), NEW j \in 1..Len(inputChan'), i < j
               PROVE  Elder({inputChan'[i]}, {inputChan'[j]})
    BY DEF MessageOrder, Elder
  <2>1. i + 1 < j + 1
    OBVIOUS
  <2> QED BY <1>4, <2>1 DEF BatchOrder, MessageOrder
<1>10. PlaceOrder'
  <2>1. /\ Elder(InFlightAddrs, HeldAddrs \cup CachedAddrs \cup Elems(inputChan))
        /\ Elder(HeldAddrs, CachedAddrs \cup Elems(inputChan))
        /\ Elder(CachedAddrs, Elems(inputChan))
    BY DEF BatchOrder, PlaceOrder
  <2>2. Elder(InFlightAddrs', HeldAddrs' \cup CachedAddrs' \cup Elems(inputChan'))
    BY <1>4, <1>5, <1>7, <1>8, <2>1 DEF Elder
  <2>3. Elder(HeldAddrs', CachedAddrs' \cup Elems(inputChan'))
    BY <1>4, <1>5, <1>8, <2>1 DEF Elder
  <2>4. Elder(CachedAddrs', Elems(inputChan'))
    BY <1>4, <1>5, <1>6, <2>1 DEF Elder
  <2> QED BY <2>2, <2>3, <2>4 DEF PlaceOrder, Elder, Elems
<1> QED BY <1>7, <1>9, <1>10 DEF BatchOrder

\* A receiver's message is younger than everything there is of its metric.
LEMMA EnterOrder ==
    ASSUME IInv, BatchOrder, NEW m \in Metric, NEW k \in 1..MaxBatch, Receive(m, k)
    PROVE  BatchOrder'
<1>1. ShapeOK /\ ObjectsOK
  BY DEF IInv, Account
<1>2. PICK a : a = <<m, next[m]>>
  OBVIOUS
<1>3. next[m] \in Nat \ {0} /\ a[1] = m /\ a[2] = next[m] /\ a \in Addr
  <2>1. next[m] \in Nat \ {0}
    BY <1>1 DEF ShapeOK
  <2>2. next[m] \in Serial
    BY <2>1, SerialAssumption DEF Receive, Serial
  <2> QED BY <1>2, <2>1, <2>2 DEF Addr, Point
<1>4. /\ inputChan \in Seq(Addr) /\ inputChan' = Append(inputChan, a)
      /\ UNCHANGED <<data, values, p, notConfirmed, outputChan, taken, confirmChan>>
  BY <1>1, <1>2 DEF Receive, ShapeOK, storeVars, workerVars, trackVars, persistVars
<1>5. Elder(LiveAddrs, {a})
  BY <1>1, <1>3 DEF ObjectsOK, Elder
<1>6. /\ Len(inputChan) \in Nat /\ Len(inputChan') = Len(inputChan) + 1
      /\ \A i \in 1..(Len(inputChan) + 1) :
            inputChan'[i] = IF i = Len(inputChan) + 1 THEN a ELSE inputChan[i]
  BY <1>3, <1>4
<1>7. Elems(inputChan') = Elems(inputChan) \cup {a}
  BY <1>3, <1>4, ElemsAppend
<1>8. TrackOrder' /\ HandOrder' /\ InFlightAddrs' = InFlightAddrs
  BY <1>4, BehindKept
<1>9. HeldAddrs' = HeldAddrs /\ CachedAddrs' = CachedAddrs
  BY <1>4 DEF HeldAddrs, CachedAddrs
<1>10. MessageOrder'
  <2> SUFFICES ASSUME NEW i \in 1..(Len(inputChan) + 1), NEW j \in 1..(Len(inputChan) + 1), i < j
               PROVE  Elder({inputChan'[i]}, {inputChan'[j]})
    BY <1>6 DEF MessageOrder, Elder
  <2>1. i \in 1..Len(inputChan) /\ inputChan'[i] = inputChan[i]
    BY <1>6
  <2>2. CASE j = Len(inputChan) + 1
    <3>1. inputChan[i] \in LiveAddrs
      BY <2>1 DEF LiveAddrs, Elems
    <3> QED BY <1>5, <1>6, <2>1, <2>2, <3>1 DEF Elder
  <2>3. CASE j # Len(inputChan) + 1
    <3>1. j \in 1..Len(inputChan) /\ inputChan'[j] = inputChan[j]
      BY <1>6, <2>3
    <3> QED BY <2>1, <3>1 DEF BatchOrder, MessageOrder
  <2> QED BY <2>2, <2>3
<1>11. PlaceOrder'
  <2>1. /\ Elder(InFlightAddrs, HeldAddrs \cup CachedAddrs \cup Elems(inputChan))
        /\ Elder(HeldAddrs, CachedAddrs \cup Elems(inputChan))
        /\ Elder(CachedAddrs, Elems(inputChan))
    BY DEF BatchOrder, PlaceOrder
  <2>2. Elder(InFlightAddrs, {a}) /\ Elder(HeldAddrs, {a}) /\ Elder(CachedAddrs, {a})
    BY <1>5 DEF Elder, LiveAddrs
  <2>3. Elder(InFlightAddrs', HeldAddrs' \cup CachedAddrs' \cup Elems(inputChan'))
    BY <1>7, <1>8, <1>9, <2>1, <2>2 DEF Elder
  <2>4. Elder(HeldAddrs', CachedAddrs' \cup Elems(inputChan'))
    BY <1>7, <1>9, <2>1, <2>2 DEF Elder
  <2>5. Elder(CachedAddrs', Elems(inputChan'))
    BY <1>7, <1>9, <2>1, <2>2 DEF Elder
  <2> QED BY <2>3, <2>4, <2>5 DEF PlaceOrder, Elder, Elems
<1> QED BY <1>8, <1>10, <1>11 DEF BatchOrder

\* The worker's batch, younger than all of its metric's that the tracker has,
\* goes to the end of the tracker's list and into its hand.
LEMMA SendOrder ==
    ASSUME TInv, BatchOrder, SelectSend
    PROVE  BatchOrder'
<1>1. ShapeOK /\ TrackerExact /\ FiledOK
  BY DEF TInv, IInv, HandOverOK
<1>2. PICK a, m : a = values /\ m = MetricOf(a)
  OBVIOUS
<1>3. /\ a \in Addr /\ m \in Metric /\ p' = a /\ values' = Nil
      /\ notConfirmed' = [notConfirmed EXCEPT ![m] = Append(@, a)]
      /\ notConfirmed \in [Metric -> Seq(Addr)]
      /\ UNCHANGED <<data, inputChan, outputChan, taken, confirmChan>>
  BY <1>1, <1>2
     DEF SelectSend, AddNotConfirmed, ShapeOK, MetricOf, Addr, Point, persistVars, inVars, storeVars
<1>4. HeldAddrs = {a} /\ HeldAddrs' = {}
  BY <1>2, <1>3, NilAssumption DEF HeldAddrs
<1>5. /\ \A n \in Metric : n # m => notConfirmed'[n] = notConfirmed[n]
      /\ notConfirmed'[m] = Append(notConfirmed[m], a)
  BY <1>3
<1>6. \A n \in Metric : Elems(notConfirmed'[n]) \subseteq Elems(notConfirmed[n]) \cup {a}
  BY <1>3, <1>5, ElemsAppend
<1>7. InFlightAddrs' \subseteq InFlightAddrs \cup {a}
  BY <1>6 DEF InFlightAddrs, Elems
<1>8. CachedAddrs' = CachedAddrs /\ Elems(inputChan)' = Elems(inputChan) /\ Passed' = Passed
  BY <1>3 DEF CachedAddrs, Passed, Elems
<1>9. /\ Elder(InFlightAddrs, {a}) /\ Elder({a}, CachedAddrs \cup Elems(inputChan))
      /\ Elder(InFlightAddrs, CachedAddrs \cup Elems(inputChan))
      /\ Elder(CachedAddrs, Elems(inputChan))
  BY <1>4 DEF BatchOrder, PlaceOrder, Elder
<1>10. MessageOrder'
  BY <1>3, InputKept DEF BatchOrder
<1>11. PlaceOrder'
  <2>1. Elder(InFlightAddrs', HeldAddrs' \cup CachedAddrs' \cup Elems(inputChan'))
    BY <1>4, <1>7, <1>8, <1>9 DEF Elder
  <2>2. Elder(HeldAddrs', CachedAddrs' \cup Elems(inputChan'))
    BY <1>4 DEF Elder
  <2>3. Elder(CachedAddrs', Elems(inputChan'))
    BY <1>8, <1>9
  <2> QED BY <2>1, <2>2, <2>3 DEF PlaceOrder, Elder, Elems
<1>12. TrackOrder'
  <2>1. PICK s : s = notConfirmed[m]
    OBVIOUS
  <2>2. /\ s \in Seq(Addr) /\ Len(s) \in Nat /\ Len(notConfirmed'[m]) = Len(s) + 1
        /\ \A i \in 1..(Len(s) + 1) : notConfirmed'[m][i] = IF i = Len(s) + 1 THEN a ELSE s[i]
    BY <1>3, <1>5, <2>1
  <2>3. ASSUME NEW i \in 1..Len(s) PROVE s[i][2] < a[2]
    <3>1. s[i] \in Elems(notConfirmed[m])
      BY <2>1 DEF Elems
    <3>2. s[i] \in InFlightAddrs /\ s[i][1] = a[1]
      BY <1>1, <1>2, <1>3, <3>1 DEF InFlightAddrs, FiledOK, MetricOf
    <3> QED BY <1>9, <3>2 DEF Elder
  <2>4. ASSUME NEW i \in 1..(Len(s) + 1), NEW j \in 1..(Len(s) + 1), i < j
        PROVE  notConfirmed'[m][i][2] < notConfirmed'[m][j][2]
    <3>1. i \in 1..Len(s) /\ notConfirmed'[m][i] = s[i]
      BY <2>2, <2>4
    <3>2. CASE j = Len(s) + 1
      BY <2>2, <2>3, <3>1, <3>2
    <3>3. CASE j # Len(s) + 1
      <4>1. j \in 1..Len(s) /\ notConfirmed'[m][j] = s[j]
        BY <2>2, <3>3
      <4> QED BY <1>3, <2>1, <2>4, <3>1, <4>1 DEF BatchOrder, TrackOrder
    <3> QED BY <3>2, <3>3
  <2>5. ASSUME NEW n \in Metric, NEW i \in 1..Len(notConfirmed'[n]), NEW j \in 1..Len(notConfirmed'[n]),
               i < j
        PROVE  notConfirmed'[n][i][2] < notConfirmed'[n][j][2]
    <3>1. CASE n = m
      BY <2>2, <2>4, <2>5, <3>1
    <3>2. CASE n # m
      BY <1>5, <2>5, <3>2 DEF BatchOrder, TrackOrder
    <3> QED BY <3>1, <3>2
  <2> QED BY <2>5 DEF TrackOrder
<1>13. HandOrder'
  <2>1. Passed \subseteq InFlightAddrs
    BY <1>1 DEF TrackerExact, BehindAddrs, Passed
  <2>2. Elder(Passed', {p'} \ {Nil})
    BY <1>3, <1>8, <1>9, <2>1 DEF Elder
  <2> QED BY <2>2 DEF HandOrder, Elder
<1> QED BY <1>10, <1>11, <1>12, <1>13 DEF BatchOrder

\* The batch that is confirmed is the first in the tracker's list: the rest of
\* the list moves up.
LEMMA ConfirmOrder ==
    ASSUME TInv, BatchOrder, ConfirmsHead, TrackerConfirm
    PROVE  BatchOrder'
<1>1. ShapeOK /\ TrackerExact
  BY DEF TInv, IInv, HandOverOK
<1>2. PICK a, m : a = Head(confirmChan) /\ m = MetricOf(a)
  OBVIOUS
<1>3. /\ confirmChan \in Seq(Addr) /\ confirmChan # Empty /\ a \in Addr /\ m \in Metric
      /\ Elems(confirmChan) = {a} \cup Elems(confirmChan')
  <2>1. confirmChan \in Seq(Addr) /\ confirmChan # Empty /\ confirmChan' = Tail(confirmChan)
    BY <1>1 DEF TrackerConfirm, ShapeOK
  <2>2. a \in Addr /\ Elems(confirmChan) = {a} \cup Elems(confirmChan')
    BY <1>2, <2>1, ElemsTail
  <2> QED BY <1>2, <2>1, <2>2 DEF MetricOf, Addr, Point
<1>4. /\ notConfirmed' = [notConfirmed EXCEPT ![m] = Forget(@, a)]
      /\ notConfirmed \in [Metric -> Seq(Addr)]
      /\ UNCHANGED <<data, values, p, inputChan, outputChan, taken>>
  BY <1>1, <1>2 DEF TrackerConfirm, ShapeOK, unchangedByTracker, inVars, storeVars, workerVars
<1>5. PICK s : s = notConfirmed[m]
  OBVIOUS
<1>6. s \in Seq(Addr) /\ s # Empty /\ Head(s) = a /\ Once(s)
  BY <1>1, <1>2, <1>3, <1>4, <1>5 DEF ConfirmsHead, TrackerExact, Once
<1>7. Forget(s, a) = Tail(s)
  <2>1. /\ Len(s) \in Nat \ {0} /\ s[1] = a /\ 1 \in 1..Len(s) /\ 1 - 1 = 0 /\ 1 + 1 = 2
    BY <1>6 DEF Empty
  <2>2. Forget(s, a) = SubSeq(s, 1, 0) \o SubSeq(s, 2, Len(s))
    BY <1>6, <2>1, ForgetOnce
  <2>3. SubSeq(s, 1, 0) = <<>> /\ SubSeq(s, 2, Len(s)) = Tail(s) /\ Tail(s) \in Seq(Addr)
    BY <1>6, <2>1
  <2>4. <<>> \o Tail(s) = Tail(s)
    BY <2>3
  <2> QED BY <2>2, <2>3, <2>4
<1>8. /\ \A n \in Metric : n # m => notConfirmed'[n] = notConfirmed[n]
      /\ notConfirmed'[m] = Tail(s)
  BY <1>3, <1>4, <1>5, <1>7
<1>9. /\ Elems(s) = {a} \cup Elems(Tail(s))
      /\ \A i \in 1..Len(Tail(s)) : i + 1 \in 1..Len(s) /\ Tail(s)[i] = s[i + 1]
  BY <1>6, ElemsTail
<1>10. InFlightAddrs' \subseteq InFlightAddrs
  <2>1. \A n \in Metric : Elems(notConfirmed'[n]) \subseteq Elems(notConfirmed[n])
    BY <1>5, <1>8, <1>9
  <2>2. InFlightAddrs' = UNION {Elems(notConfirmed'[n]) : n \in Metric}
    BY DEF InFlightAddrs, Elems
  <2> QED BY <2>1, <2>2 DEF InFlightAddrs
<1>11. /\ HeldAddrs' = HeldAddrs /\ CachedAddrs' = CachedAddrs
       /\ Elems(inputChan)' = Elems(inputChan) /\ Passed' \subseteq Passed
  BY <1>3, <1>4 DEF HeldAddrs, CachedAddrs, Elems, Passed
<1>12. MessageOrder'
  BY <1>4, InputKept DEF BatchOrder
<1>13. PlaceOrder'
  BY <1>10, <1>11 DEF BatchOrder, PlaceOrder, Elder
<1>14. HandOrder'
  BY <1>4, <1>11 DEF BatchOrder, HandOrder, Elder
<1>15. TrackOrder'
  <2>1. ASSUME NEW n \in Metric, NEW i \in 1..Len(notConfirmed'[n]), NEW j \in 1..Len(notConfirmed'[n]),
               i < j
        PROVE  notConfirmed'[n][i][2] < notConfirmed'[n][j][2]
    <3>1. CASE n = m
      <4>1. i + 1 < j + 1
        BY <2>1
      <4>2. i + 1 \in 1..Len(s) /\ j + 1 \in 1..Len(s)
            /\ notConfirmed'[n][i] = s[i + 1] /\ notConfirmed'[n][j] = s[j + 1]
        BY <1>8, <1>9, <2>1, <3>1
      <4> QED BY <1>3, <1>5, <4>1, <4>2 DEF BatchOrder, TrackOrder
    <3>2. CASE n # m
      BY <1>8, <2>1, <3>2 DEF BatchOrder, TrackOrder
    <3> QED BY <3>1, <3>2
  <2> QED BY <2>1 DEF TrackOrder
<1> QED BY <1>12, <1>13, <1>14, <1>15 DEF BatchOrder

\* A batch passes the persister.
LEMMA PassOrder ==
    ASSUME TInv, BatchOrder, TrackerSend \/ Take \/ \E a \in Addr : Confirm(a)
    PROVE  BatchOrder'
<1> USE DEF inVars, storeVars, workerVars, trackVars, unchangedByTracker
<1>0. /\ outputChan \in Seq(Addr) /\ confirmChan \in Seq(Addr) /\ HandOrder
  BY DEF TInv, IInv, ShapeOK, BatchOrder
<1>1. UNCHANGED <<inputChan, notConfirmed, data, values>>
  BY DEF TrackerSend, Take, Confirm
<1>2. CASE TrackerSend
  <2>1. p' = Nil
    BY <1>2 DEF TrackerSend
  <2>2. HandOrder'
    BY <2>1 DEF HandOrder, Elder
  <2> QED BY <1>1, <2>2, OrderKept
<1>3. ASSUME Passed' \subseteq Passed, p' = p PROVE BatchOrder'
  <2>1. HandOrder'
    BY <1>0, <1>3 DEF HandOrder, Elder
  <2> QED BY <1>1, <2>1, OrderKept
<1>4. CASE Take
  <2>1. /\ outputChan # Empty /\ outputChan' = Tail(outputChan) /\ confirmChan' = confirmChan
        /\ taken' = taken \cup {Head(outputChan)} /\ p' = p
    BY <1>4 DEF Take
  <2>2. Elems(outputChan) = {Head(outputChan)} \cup Elems(outputChan')
    BY <1>0, <2>1, ElemsTail
  <2>3. Passed' \subseteq Passed
    BY <2>1, <2>2 DEF Passed, Elems
  <2> QED BY <1>3, <2>1, <2>3
<1>5. ASSUME NEW a \in Addr, Confirm(a) PROVE BatchOrder'
  <2>1. /\ a \in taken /\ taken' = taken \ {a} /\ confirmChan' = Append(confirmChan, a)
        /\ outputChan' = outputChan /\ p' = p
    BY <1>5 DEF Confirm
  <2>2. Elems(confirmChan') = Elems(confirmChan) \cup {a}
    BY <1>0, <2>1, ElemsAppend
  <2>3. Passed' \subseteq Passed
    BY <2>1, <2>2 DEF Passed, Elems
  <2> QED BY <1>3, <2>1, <2>3
<1> QED BY <1>2, <1>4, <1>5

\* Every step of the cache keeps the order.
LEMMA OrderStep ==
    ASSUME TInv, BatchOrder, ConfirmsHead, [Next]_vars
    PROVE  BatchOrder'
<1>0. IInv /\ ShapeOK /\ Account
  BY DEF TInv, IInv
<1>1. CASE \/ LoopKeep \/ LoopEmpty \/ SelectQuery \/ ForwardQuery \/ SelectExit
           \/ TrackerQuery \/ TrackerExit \/ Stop \/ UNCHANGED vars
           \/ \E q \in Query, m \in Metric : Ask(q, m)
  <2>1. UNCHANGED <<inputChan, data, values, p, notConfirmed, outputChan, taken, confirmChan>>
    BY <1>1 DEF LoopKeep, LoopEmpty, SelectQuery, ForwardQuery, SelectExit, TrackerQuery,
                TrackerExit, Stop, Ask, vars, inVars, storeVars, workerVars,
                trackVars, queryVars, persistVars, fixedVars, unchangedByLoop,
                unchangedByTracker
  <2> QED BY <2>1, OrderKept, BehindKept
<1>2. CASE LoopPopQueued \/ LoopRebuild
  <2>1. values = Nil /\ UNCHANGED <<inputChan, p, notConfirmed, outputChan, taken, confirmChan>>
    BY <1>2 DEF LoopPopQueued, LoopRebuild, unchangedByLoop, inVars, trackVars, persistVars
  <2>2. CASE LoopPopQueued
    <3>1. queue \in Seq(Addr) /\ queue # Empty /\ PopFrom(queue)
      BY <1>0, <2>2 DEF LoopPopQueued, ShapeOK
    <3>2. \A i \in 1..Len(queue) : data[MetricOf(queue[i])] = queue[i]
      BY <1>0 DEF Account, QueueFresh
    <3> QED BY <1>0, <2>1, <3>1, <3>2, PopOrder
  <2>3. CASE LoopRebuild
    <3>1. PICK q \in updateQueue : PopFrom(q)
      BY <2>3 DEF LoopRebuild
    <3>2. /\ q \in Seq(Addr) /\ q # Empty
          /\ \A i \in 1..Len(q) : data[MetricOf(q[i])] = q[i]
      BY <1>0, <2>3, RebuiltQueue DEF LoopRebuild, Account
    <3> QED BY <1>0, <2>1, <3>1, <3>2, PopOrder
  <2> QED BY <1>2, <2>2, <2>3
<1>3. CASE SelectSend
  BY <1>3, SendOrder
<1>4. CASE SelectReceive \/ SelectOverflow
  BY <1>0, <1>4, ReceiveOrder
<1>5. CASE TrackerSend \/ Take \/ \E a \in Addr : Confirm(a)
  BY <1>5, PassOrder
<1>6. CASE TrackerConfirm
  BY <1>6, ConfirmOrder
<1>7. CASE \E m \in Metric, k \in 1..MaxBatch : Receive(m, k)
  BY <1>0, <1>7, EnterOrder
<1> QED BY <1>1, <1>2, <1>3, <1>4, <1>5, <1>6, <1>7 DEF Next, Worker, Tracker, Environment

(***************************************************************************)
(* The theorems.                                                           *)
(***************************************************************************)
\* Nothing is on its way at the start.
LEMMA InitPipe == PipelineInit => PipeInv
<1> SUFFICES ASSUME PipelineInit PROVE PipeInv
  OBVIOUS
<1>1. Init /\ P!Init
  BY DEF PipelineInit
<1>2. TInv
  BY <1>1, InitInv, InitHandOver DEF TInv
<1>3. S!SystemInit
  BY <1>1, SameWorkers DEF S!SystemInit, S!Init, P!Init
<1>4. S!Sound
  BY <1>3, PersisterConstants, S!InitSound
     DEF S!BoundsAssumption, S!WorkersAssumption, S!HashAssumption, S!ThrottleAssumption,
         S!ChannelAssumption, S!NoneAssumption
<1>5. S!Inside = {}
  <2>1. state = "stopped"
    BY <1>1 DEF P!Init
  <2> QED BY <1>4, <2>1, PersisterConstants, S!NothingInside
          DEF S!Sound, S!BoundsAssumption, S!WorkersAssumption, S!HashAssumption, S!ThrottleAssumption,
              S!ChannelAssumption, S!NoneAssumption
<1>6. taken = Inside
  BY <1>1, <1>5, SameInside DEF Init
<1>7. Len(Empty) = 0 /\ Elems(Empty) = {}
  BY DEF Empty, Elems
<1>8. MessageOrder /\ TrackOrder
  BY <1>1, <1>7 DEF Init, MessageOrder, TrackOrder
<1>9. PlaceOrder /\ HandOrder
  <2>1. InFlightAddrs = {} /\ HeldAddrs = {} /\ CachedAddrs = {} /\ {p} \ {Nil} = {}
    BY <1>1, <1>7 DEF Init, InFlightAddrs, HeldAddrs, CachedAddrs
  <2> QED BY <2>1 DEF PlaceOrder, HandOrder, Elder
<1> QED BY <1>2, <1>4, <1>6, <1>8, <1>9 DEF PipeInv, BatchOrder

\* The invariant is inductive: every step of cache, persister and application.
LEMMA PipeStep == PipeInv /\ [PipelineNext]_pipelineVars => PipeInv'
<1> SUFFICES ASSUME PipeInv, [PipelineNext]_pipelineVars PROVE PipeInv'
  OBVIOUS
<1>1. TInv /\ BatchOrder /\ ConfirmsHead /\ [Next]_vars
  BY CacheSteps, HeadConfirmed DEF PipeInv
<1>2. TInv'
  BY <1>1, ShapeStep, AccountStep, HandOverStep DEF TInv, IInv
<1>3. S!Sound' /\ taken' = Inside'
  BY SoundStep
<1>4. BatchOrder'
  BY <1>1, OrderStep
<1> QED BY <1>2, <1>3, <1>4 DEF PipeInv

\* In every reachable state the cache's accounts are right, the persister is
\* sound, and all batches of a metric are in the order in which they were made.
THEOREM PipelineInvariance == PipelineSpec => []PipeInv
<1> QED BY InitPipe, PipeStep, PTL DEF PipelineSpec

\* The persister, under whatever the application does to it, is the environment
\* that Cache expects: every behaviour of the composition is one of Cache, so
\* that what CacheProofs proves of Spec holds with the real persister, for any
\* number of workers, throttled or not, and across restarts.
THEOREM PersisterKeepsContract == PipelineSpec => CacheContract
<1>1. PipelineInit => Init
  BY DEF PipelineInit
<1>2. PipeInv /\ [PipelineNext]_pipelineVars => [Next]_vars
  BY CacheSteps
<1> QED BY PipelineInvariance, <1>1, <1>2, PTL DEF PipelineSpec, CacheContract, Spec

\* The tracker reads a metric's confirmations in the order in which it handed
\* the batches over: the one it reads next is always of the first batch in its
\* list, so the branch of confirm that shifts the shared array in place
\* (confirm.go:45) is never taken.
THEOREM ConfirmedInOrder == PipelineSpec => []ConfirmsHead
<1> QED BY PipelineInvariance, HeadConfirmed, PTL

\* No accepted point is lost or stored twice on its way through cache and
\* persister, whatever reloads and stops come in between.
THEOREM PipelineLosesNothing == PipelineSpec => []NoLoss
<1> QED BY PersisterKeepsContract, NothingLost, PTL DEF CacheContract
=============================================================================

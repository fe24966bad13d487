------------------------------ MODULE Pipeline ------------------------------
(***************************************************************************)
(* The cache and the persister composed over outputChan and confirmChan,   *)
(* driven by the application (carbon/app.go, carbon/grace.go): Start, a    *)
(* reload that replaces the persister, GraceStop, and Stop.  The           *)
(* application lock makes them exclude each other, so one program counter  *)
(* serves.                                                                 *)
(***************************************************************************)
EXTENDS Cache

CONSTANTS
    MaxStarts, WorkerCounts, Throttling, Chunk, Hash, WorkerCap,
    AppOps        \* which of "reload", "grace" and "stop" may be called

ASSUME PersisterAssumption ==
    /\ MaxStarts \in Nat
    /\ WorkerCounts \subseteq Nat \ {0} /\ \E n \in WorkerCounts : \A k \in WorkerCounts : k <= n
    /\ Throttling \subseteq BOOLEAN /\ Chunk \in Nat \ {0}
    /\ Hash \in [Metric -> Nat] /\ WorkerCap \in Nat \ {0}

VARIABLES
    outputClosed,                    \* outputChan is never closed here
    state, starts, persisterExit, workersCount, throttled,
    throttlePC, throttleP, ticks, throttleOut, throttleClosed,
    shufflerPC, shufflerP, channels, channelsClosed,
    storePC, storeP, exists, file,
    appPC,        \* where the application is
    appOp,        \* the operation it is executing
    listening,    \* the receivers' sockets are open
    sizeRead      \* what FlushLoop read as the cache's size

P == INSTANCE Persister WITH
        MaxBatches <- MaxSerial, InCap <- OutputCap, ThrottleCap <- OutputCap,
        None <- Nil, in <- outputChan, inClosed <- outputClosed,
        confirm <- confirmChan, exit <- persisterExit,
        workerPC <- storePC, workerP <- storeP

persisterVars == <<state, starts, persisterExit, workersCount, throttled, throttlePC,
                   throttleP, ticks, throttleOut, throttleClosed, shufflerPC, shufflerP,
                   channels, channelsClosed, storePC, storeP, exists, file>>
appVars == <<appPC, appOp, listening, sizeRead>>
\* The variables of Cache that the persister does not touch.
cacheVars == <<obj, inVars, storeVars, workerVars, trackVars, queryVars, fixedVars,
               accepted>>
pipelineVars == <<vars, outputClosed, persisterVars, appVars>>

\* The batches that the persister has taken and not confirmed.
Inside ==
    (({throttleP, shufflerP} \cup {storeP[w] : w \in P!Workers}) \ {Nil})
    \cup Elems(throttleOut) \cup UNION {Elems(channels[w]) : w \in P!Workers}

PipelineInit ==
    /\ Init
    /\ P!Init
    /\ appPC = "starting" /\ appOp = "start" /\ listening = FALSE /\ sizeRead = 0

(***************************************************************************)
(* Steps of the persister change its own state and the two channels.       *)
(***************************************************************************)
\* written grows with the confirmation (Confirm of Cache).
Bookkeeping ==
    /\ taken' = Inside'
    /\ written' = IF Len(confirmChan') > Len(confirmChan)
                  THEN written \cup PointsOf(confirmChan'[Len(confirmChan')])
                  ELSE written

PersisterStep ==
    /\ P!Goroutines
    /\ Bookkeeping
    /\ UNCHANGED <<cacheVars, appVars>>

CacheStep ==
    /\ \/ Worker \/ Tracker
       \/ listening /\ \E m \in Metric, k \in 1..MaxBatch : Receive(m, k)
       \/ \E q \in Query, m \in Metric : Ask(q, m)
    /\ UNCHANGED <<outputClosed, persisterVars, appVars>>

(***************************************************************************)
(* The application.                                                        *)
(***************************************************************************)
Goto(pc) == appPC' = pc /\ UNCHANGED <<appOp, listening, sizeRead>>
quietCache == UNCHANGED <<cacheVars, taken, written>>
quiet      == UNCHANGED <<vars, outputClosed, persisterVars>>

\* startPersister, with a configuration just read.
StartPersister ==
    /\ appPC = "starting"
    /\ \E n \in WorkerCounts, t \in Throttling :
          /\ appOp = "grace" => n = workersCount /\ t = FALSE
          /\ P!Start(n, t)
    /\ Goto(CASE appOp = "start" -> "listen"
              [] appOp = "grace" -> "readSize"
              [] OTHER           -> "idle")
    /\ quietCache

\* Start: the first listener is open.
Listen ==
    /\ appPC = "listen" /\ ~listening
    /\ listening' = TRUE
    /\ UNCHANGED <<appPC, appOp, sizeRead>>
    /\ quiet

\* Start returns: all the configured listeners are open.
Started ==
    /\ appPC = "listen" /\ listening
    /\ Goto("idle")
    /\ quiet

\* A listener cannot be opened, while others may already receive: Start stops
\* everything.
ListenFails ==
    /\ appPC = "listen"
    /\ appPC' = "stopPersister" /\ appOp' = "stop" /\ listening' = FALSE
    /\ UNCHANGED sizeRead
    /\ quiet

\* An operation gets the application lock.  GraceStop and Stop first stop the
\* listeners, which returns when their goroutines have ended.
Begin(op) ==
    /\ appPC = "idle"
    /\ op \in AppOps
    /\ op = "reload" => starts < MaxStarts
    /\ op = "grace" /\ throttled => starts < MaxStarts
    /\ appOp' = op
    /\ appPC' = IF op = "grace" /\ ~throttled THEN "readSize" ELSE "stopPersister"
    /\ listening' = (op = "reload" /\ listening)
    /\ UNCHANGED sizeRead
    /\ quiet

StopPersister ==
    /\ appPC = "stopPersister"
    /\ P!StopBegin
    /\ Goto("waitPersister")
    /\ quietCache

\* Reload and GraceStop of a throttled persister start it again; otherwise the
\* cache is next.
PersisterStopped ==
    /\ appPC = "waitPersister"
    /\ P!StopEnd
    /\ Goto(IF appOp \in {"reload", "grace"} THEN "starting" ELSE "stopCache")
    /\ quietCache

\* FlushLoop: Size() and len(In()) are read one after the other.
FlushReadSize ==
    /\ appPC = "readSize"
    /\ appPC' = "readLen" /\ sizeRead' = size
    /\ UNCHANGED <<appOp, listening>>
    /\ quiet

\* FlushLoop ends when both were 0, and stopAll follows.
FlushReadLen ==
    /\ appPC = "readLen"
    /\ IF sizeRead + Len(inputChan) = 0
       THEN appPC' = "stopPersister" /\ appOp' = "flushed"
       ELSE appPC' = "readSize" /\ UNCHANGED appOp
    /\ UNCHANGED <<listening, sizeRead>>
    /\ quiet

StopCache ==
    /\ appPC = "stopCache"
    /\ Stop
    /\ Goto("waitCache")
    /\ UNCHANGED <<outputClosed, persisterVars>>

CacheStopped ==
    /\ appPC = "waitCache"
    /\ workerPC = "done" /\ trackerPC = "done"
    /\ Goto("stopped")
    /\ quiet

Application == \/ StartPersister \/ StopPersister \/ PersisterStopped
               \/ Listen \/ Started \/ ListenFails
               \/ FlushReadSize \/ FlushReadLen \/ StopCache \/ CacheStopped
               \/ \E op \in AppOps : Begin(op)

PipelineNext == CacheStep \/ PersisterStep \/ Application

PipelineSpec == PipelineInit /\ [][PipelineNext]_pipelineVars

-----------------------------------------------------------------------------
\* What the cache expects of whoever is behind it (Cache's environment: take
\* batches, confirm each once) is what the persister does, whatever the
\* application does to the persister: the properties of Cache hold here.
CacheContract == Spec

\* The tracker reads a metric's confirmations in the order in which it handed
\* the batches over, across reloads and different numbers of workers: the
\* branch of confirm that overwrites the array in place (confirm.go:45), which
\* replies to queries share, is never taken.
ConfirmsHead ==
    confirmChan # Empty =>
        LET a == Head(confirmChan) IN
        notConfirmed[MetricOf(a)] # Empty /\ Head(notConfirmed[MetricOf(a)]) = a

\* README: on USR2 "flush cache to disk and stop carbon": when GraceStop has
\* returned every accepted point has been through the persister.
GraceStopFlushes == appPC = "stopped" /\ appOp = "flushed" => accepted = written

(***************************************************************************)
(* Fairness: a goroutine that can go on does, and the application goes on  *)
(* with an operation it has begun.  Which case a select takes is left open *)
(* (what the receivers and carbonlink send is finite here).                *)
(***************************************************************************)
PipelineFairness ==
    /\ WF_pipelineVars(CacheStep /\ Worker)
    /\ WF_pipelineVars(CacheStep /\ Tracker)
    /\ WF_pipelineVars(PersisterStep)
    /\ WF_pipelineVars(Application /\ appPC # "idle")

FairPipelineSpec == PipelineSpec /\ PipelineFairness

\* Every operation of the application returns or comes to its last wait, the one
\* for the cache: the persister's Stop, the restart of a throttled persister and
\* the flush loop come to an end.  Whether the cache's Stop then does is
\* StopReturns of Cache, which has an exception (cache.go:272).
OperationReturns == appPC # "idle" ~> appPC \in {"idle", "waitCache", "stopped"}

\* Every point that the persister takes is confirmed, whether its store
\* succeeds or not and whatever the application does meanwhile: none stays with
\* a goroutine that has ended, and the tracker's list does not grow for ever.
TakenConfirmed == \A x \in Point : x \in PointsAt(taken) ~> x \in written
=============================================================================

----------------------------- MODULE Persister -----------------------------
(***************************************************************************)
(* The whisper persister (persister/whisper.go): the optional throttle     *)
(* goroutine, the shuffler that spreads metrics over the workers, the      *)
(* workers that store a batch and confirm it, and Start and Stop, which    *)
(* app.go calls again on every reload with another configuration.          *)
(*                                                                         *)
(* A batch is <<metric, n>>, the n-th batch of its metric on the input     *)
(* channel.  Time is abstracted: the throttle's ticker may fire whenever   *)
(* its goroutine waits for it.  The outcome of the file operations is a    *)
(* nondeterministic choice.                                                *)
(***************************************************************************)
EXTENDS Naturals, Sequences, FiniteSets

CONSTANTS
    Metric,
    MaxBatches,    \* bound: batches per metric in a behaviour
    MaxStarts,     \* bound: how often the persister is started
    WorkerCounts,  \* values of workersCount in the configuration
    Throttling,    \* values of maxUpdatesPerSecond > 0 in the configuration
    Chunk,         \* batches per tick of the throttle
    Hash,          \* crc32 of a metric name
    ThrottleCap,   \* capacity of the throttle's channel (that of in)
    WorkerCap,     \* capacity of a worker's channel (32)
    InCap,         \* capacity of in (1024)
    ConfirmCap,    \* capacity of confirm (2048)
    None           \* the nil pointer

Batch   == Metric \X (1..MaxBatches)
MaxWorkers == CHOOSE n \in WorkerCounts : \A k \in WorkerCounts : k <= n
Workers == 0..(MaxWorkers - 1)

ASSUME BoundsAssumption  == MaxBatches \in Nat /\ MaxStarts \in Nat
ASSUME WorkersAssumption == /\ WorkerCounts \subseteq Nat \ {0}
                            /\ \E n \in WorkerCounts : \A k \in WorkerCounts : k <= n
ASSUME HashAssumption    == Hash \in [Metric -> Nat]
ASSUME ThrottleAssumption == Throttling \subseteq BOOLEAN /\ Chunk \in Nat \ {0}
ASSUME ChannelAssumption == /\ ThrottleCap \in Nat \ {0} /\ WorkerCap \in Nat \ {0}
                            /\ InCap \in Nat \ {0} /\ ConfirmCap \in Nat \ {0}
ASSUME NoneAssumption    == None \notin Batch

VARIABLES
    in, inClosed,      \* the input channel (the cache's output)
    confirm,           \* the confirmation channel
    state,             \* "stopped", "running" or "stopping"
    starts,            \* number of starts so far
    exit,              \* the Stoppable's exit channel is closed
    workersCount, throttled,    \* the configuration of this start
    throttlePC, throttleP, ticks, throttleOut, throttleClosed,
    shufflerPC, shufflerP,
    channels, channelsClosed,   \* the workers' channels
    workerPC, workerP,
    exists,            \* metrics that have a whisper file
    file               \* history: the batches written to a metric's file

chanVars     == <<in, inClosed, confirm>>
lifeVars     == <<state, starts, exit, workersCount, throttled>>
throttleVars == <<throttlePC, throttleP, ticks, throttleOut, throttleClosed>>
shuffleVars  == <<shufflerPC, shufflerP, channelsClosed>>
workVars     == <<workerPC, workerP>>
fileVars     == <<exists, file>>
ownVars      == <<lifeVars, throttleVars, shuffleVars, channels, workVars, fileVars>>

(***************************************************************************)
(* Where the reader (the solo worker or the shuffler) gets its batches:    *)
(* from the throttle, which it reads until that channel is closed, or from *)
(* in, which it leaves when exit is closed.                                *)
(***************************************************************************)
Source       == IF throttled THEN throttleOut ELSE in
SourceClosed == IF throttled THEN throttleClosed ELSE inClosed
ReaderExitAlways == exit   \* mutant: the reader of a throttle leaves at once
ReaderExit   == ~throttled /\ exit
TakeSource   == IF throttled
                THEN throttleOut' = Tail(throttleOut) /\ UNCHANGED in
                ELSE in' = Tail(in) /\ UNCHANGED throttleOut
ReaderEnds   == ReaderExit \/ (Source = <<>> /\ SourceClosed)

Init ==
    /\ in = <<>> /\ inClosed = FALSE /\ confirm = <<>>
    /\ state = "stopped" /\ starts = 0 /\ exit = FALSE
    /\ workersCount \in WorkerCounts /\ throttled \in Throttling
    /\ throttlePC = "off" /\ throttleP = None /\ ticks = 0
    /\ throttleOut = <<>> /\ throttleClosed = FALSE
    /\ shufflerPC = "off" /\ shufflerP = None
    /\ channels = [w \in Workers |-> <<>>] /\ channelsClosed = FALSE
    /\ workerPC = [w \in Workers |-> "off"]
    /\ workerP = [w \in Workers |-> None]
    /\ exists = {} /\ file = [m \in Metric |-> <<>>]

(***************************************************************************)
(* Life cycle.                                                             *)
(***************************************************************************)
\* Start with a configuration: n workers, throttled or not.
Start(n, t) ==
    /\ state = "stopped"
    /\ starts < MaxStarts
    /\ state' = "running"
    /\ starts' = starts + 1
    /\ exit' = FALSE
    /\ workersCount' = n /\ throttled' = t
    /\ throttlePC' = IF t THEN "tick" ELSE "off"
    /\ throttleP' = None /\ ticks' = 0
    /\ throttleOut' = <<>> /\ throttleClosed' = FALSE
    /\ shufflerPC' = IF n > 1 THEN "select" ELSE "off"
    /\ shufflerP' = None
    /\ channels' = [w \in Workers |-> <<>>] /\ channelsClosed' = FALSE
    /\ workerPC' = [w \in Workers |-> IF w < n THEN "select" ELSE "off"]
    /\ workerP' = [w \in Workers |-> None]
    /\ UNCHANGED <<chanVars, fileVars>>

\* Stop closes exit.
StopBegin ==
    /\ state = "running"
    /\ state' = "stopping"
    /\ exit' = TRUE
    /\ UNCHANGED <<chanVars, starts, workersCount, throttled, throttleVars,
                   shuffleVars, channels, workVars, fileVars>>

\* Stop returns when the goroutines of its wait group have ended; the throttle
\* is not one of them.
StopEnd ==
    /\ state = "stopping"
    /\ shufflerPC \in {"off", "done"}
    /\ \A w \in Workers : workerPC[w] \in {"off", "done"}
    /\ state' = "stopped"
    /\ UNCHANGED <<chanVars, starts, exit, workersCount, throttled, throttleVars,
                   shuffleVars, channels, workVars, fileVars>>

(***************************************************************************)
(* The throttle.                                                           *)
(***************************************************************************)
unchangedByThrottle == <<confirm, inClosed, lifeVars, shuffleVars, channels,
                         workVars, fileVars>>

\* The ticker fires: up to Chunk batches may pass.
ThrottleTick ==
    /\ throttlePC = "tick"
    /\ throttlePC' = "recv" /\ ticks' = 0
    /\ UNCHANGED <<unchangedByThrottle, in, throttleP, throttleOut, throttleClosed>>

ThrottleReceive ==
    /\ throttlePC = "recv"
    /\ in # <<>>
    /\ throttleP' = Head(in) /\ in' = Tail(in)
    /\ throttlePC' = "send"
    /\ UNCHANGED <<unchangedByThrottle, ticks, throttleOut, throttleClosed>>

\* The send blocks without looking at exit.
ThrottleSend ==
    /\ throttlePC = "send"
    /\ Len(throttleOut) < ThrottleCap
    /\ throttleOut' = Append(throttleOut, throttleP)
    /\ throttleP' = None
    /\ ticks' = ticks + 1
    /\ throttlePC' = IF ticks' < Chunk THEN "recv" ELSE "tick"
    /\ UNCHANGED <<unchangedByThrottle, in, throttleClosed>>

\* Mutant: exit interrupts the send, too.
ThrottleEndInSend ==
    /\ \/ throttlePC \in {"tick", "recv", "send"} /\ exit
       \/ throttlePC = "recv" /\ in = <<>> /\ inClosed
    /\ throttlePC' = "done"
    /\ throttleP' = None
    /\ throttleClosed' = TRUE
    /\ UNCHANGED <<unchangedByThrottle, in, ticks, throttleOut>>

\* Exit, or the input was closed: close the throttle's channel.
ThrottleEnd ==
    /\ \/ throttlePC \in {"tick", "recv"} /\ exit
       \/ throttlePC = "recv" /\ in = <<>> /\ inClosed
    /\ throttlePC' = "done"
    /\ throttleClosed' = TRUE
    /\ UNCHANGED <<unchangedByThrottle, in, throttleP, ticks, throttleOut>>

(***************************************************************************)
(* The shuffler.                                                           *)
(***************************************************************************)
unchangedByShuffler == <<inClosed, confirm, lifeVars, throttlePC, throttleP, ticks,
                         throttleClosed, workVars, fileVars>>

ShufflerReceive ==
    /\ shufflerPC = "select"
    /\ Source # <<>>
    /\ shufflerP' = Head(Source)
    /\ TakeSource
    /\ shufflerPC' = "send"
    /\ UNCHANGED <<unchangedByShuffler, channels, channelsClosed>>

\* Mutant: a worker that has nothing to do.
IndexOfIdle(m) ==
    LET idle == {w \in Workers : w < workersCount /\ channels[w] = <<>> /\ workerP[w] = None}
    IN  IF idle # {} THEN CHOOSE w \in idle : TRUE ELSE Hash[m] % workersCount

\* A metric's batches all go to the same worker.
Index(m) == Hash[m] % workersCount

ShufflerSend ==
    LET w == Index(shufflerP[1]) IN
    /\ shufflerPC = "send"
    /\ Len(channels[w]) < WorkerCap
    /\ channels' = [channels EXCEPT ![w] = Append(@, shufflerP)]
    /\ shufflerP' = None
    /\ shufflerPC' = "select"
    /\ UNCHANGED <<unchangedByShuffler, in, throttleOut, channelsClosed>>

\* Mutant: the workers' channels stay open.
ShufflerEndNoClose ==
    /\ shufflerPC = "select"
    /\ ReaderEnds
    /\ shufflerPC' = "done"
    /\ UNCHANGED <<unchangedByShuffler, in, throttleOut, channels, shufflerP, channelsClosed>>

\* Leave the loop and close the workers' channels.
ShufflerEnd ==
    /\ shufflerPC = "select"
    /\ ReaderEnds
    /\ shufflerPC' = "done"
    /\ channelsClosed' = TRUE
    /\ UNCHANGED <<unchangedByShuffler, in, throttleOut, channels, shufflerP>>

(***************************************************************************)
(* The workers.                                                            *)
(***************************************************************************)
unchangedByWorker == <<inClosed, lifeVars, throttlePC, throttleP, ticks,
                       throttleClosed, shuffleVars>>
Solo == workersCount <= 1

\* A worker receives a batch: the solo worker from the source, another one
\* from its channel.
WorkerReceive(w) ==
    /\ workerPC[w] = "select"
    /\ IF Solo
       THEN /\ Source # <<>>
            /\ workerP' = [workerP EXCEPT ![w] = Head(Source)]
            /\ TakeSource
            /\ UNCHANGED channels
       ELSE /\ channels[w] # <<>>
            /\ workerP' = [workerP EXCEPT ![w] = Head(channels[w])]
            /\ channels' = [channels EXCEPT ![w] = Tail(@)]
            /\ UNCHANGED <<in, throttleOut>>
    /\ workerPC' = [workerPC EXCEPT ![w] = "open"]
    /\ UNCHANGED <<unchangedByWorker, confirm, fileVars>>

WorkerEnd(w) ==
    /\ workerPC[w] = "select"
    /\ IF Solo THEN ReaderEnds ELSE channels[w] = <<>> /\ channelsClosed
    /\ workerPC' = [workerPC EXCEPT ![w] = "done"]
    /\ UNCHANGED <<unchangedByWorker, in, throttleOut, channels, workerP, confirm,
                   fileVars>>

\* store: the file is opened, or created when there is none.
StoreOpen(w) ==
    /\ workerPC[w] = "open"
    /\ workerPC' = [workerPC EXCEPT ![w] = "update"]
    /\ exists' = exists \cup {workerP[w][1]}
    /\ UNCHANGED <<unchangedByWorker, in, throttleOut, channels, workerP, confirm, file>>

\* Mutant: a failed store returns without confirming.
StoreFailSilently(w) ==
    /\ workerPC[w] = "open"
    /\ workerPC' = [workerPC EXCEPT ![w] = "select"]
    /\ workerP' = [workerP EXCEPT ![w] = None]
    /\ UNCHANGED <<unchangedByWorker, in, throttleOut, channels, confirm, fileVars>>

\* store: the open, the schema, the aggregation, the directory or the create
\* failed; the batch is given up and yet confirmed.
StoreFail(w) ==
    /\ workerPC[w] = "open"
    /\ workerPC' = [workerPC EXCEPT ![w] = "confirm"]
    /\ UNCHANGED <<unchangedByWorker, in, throttleOut, channels, workerP, confirm,
                   fileVars>>

\* store: UpdateMany writes the batch and the file is closed.
StoreUpdate(w) ==
    /\ workerPC[w] = "update"
    /\ workerPC' = [workerPC EXCEPT ![w] = "confirm"]
    /\ file' = [file EXCEPT ![workerP[w][1]] = Append(@, workerP[w][2])]
    /\ UNCHANGED <<unchangedByWorker, in, throttleOut, channels, workerP, confirm,
                   exists>>

\* store: UpdateMany panics and store recovers; the file is closed.
StorePanic(w) ==
    /\ workerPC[w] = "update"
    /\ workerPC' = [workerPC EXCEPT ![w] = "confirm"]
    /\ UNCHANGED <<unchangedByWorker, in, throttleOut, channels, workerP, confirm,
                   fileVars>>

\* store: the deferred confirmation, after everything else.
StoreConfirm(w) ==
    /\ workerPC[w] = "confirm"
    /\ Len(confirm) < ConfirmCap
    /\ confirm' = Append(confirm, workerP[w])
    /\ workerP' = [workerP EXCEPT ![w] = None]
    /\ workerPC' = [workerPC EXCEPT ![w] = "select"]
    /\ UNCHANGED <<unchangedByWorker, in, throttleOut, channels, fileVars>>

Throttle  == ThrottleTick \/ ThrottleReceive \/ ThrottleSend \/ ThrottleEnd
Shuffler  == ShufflerReceive \/ ShufflerSend \/ ShufflerEnd
Worker(w) == \/ WorkerReceive(w) \/ WorkerEnd(w)
             \/ StoreOpen(w) \/ StoreFail(w) \/ StoreUpdate(w) \/ StorePanic(w)
             \/ StoreConfirm(w)

\* The persister's own steps, and what the application does to it.
Goroutines == Throttle \/ Shuffler \/ \E w \in Workers : Worker(w)
LifeCycle  == \/ \E n \in WorkerCounts, t \in Throttling : Start(n, t)
              \/ StopBegin \/ StopEnd
=============================================================================

-------------------------- MODULE PersisterSystem --------------------------
(***************************************************************************)
(* The persister between its two channels: a cache that feeds batches into *)
(* in, may close it (GraceStopDump), and reads the confirmations.          *)
(***************************************************************************)
EXTENDS Persister

VARIABLES
    fed,     \* number of batches of a metric put on in
    acked    \* confirmations the cache has read, in order

allVars == <<chanVars, ownVars, fed, acked>>

SystemInit == Init /\ fed = [m \in Metric |-> 0] /\ acked = <<>>

\* The tracker's send on its output channel.
Feed(m) ==
    /\ ~inClosed
    /\ fed[m] < MaxBatches
    /\ Len(in) < InCap
    /\ fed' = [fed EXCEPT ![m] = @ + 1]
    /\ in' = Append(in, <<m, fed[m] + 1>>)
    /\ UNCHANGED <<inClosed, confirm, ownVars, acked>>

\* GraceStopDump closes the cache's output channel under the persister.
CloseIn ==
    /\ ~inClosed
    /\ inClosed' = TRUE
    /\ UNCHANGED <<in, confirm, ownVars, fed, acked>>

\* The tracker reads a confirmation.
ReadConfirm ==
    /\ confirm # <<>>
    /\ acked' = Append(acked, Head(confirm))
    /\ confirm' = Tail(confirm)
    /\ UNCHANGED <<in, inClosed, ownVars, fed>>

Persist == (Goroutines \/ LifeCycle) /\ UNCHANGED <<fed, acked>>

SystemNext == \/ Persist
              \/ \E m \in Metric : Feed(m)
              \/ CloseIn
              \/ ReadConfirm

SystemSpec == SystemInit /\ [][SystemNext]_allVars

-----------------------------------------------------------------------------
Elems(s) == {s[i] : i \in 1..Len(s)}
InSeq(x) == IF x = None THEN <<>> ELSE <<x>>

\* The batches the persister has taken from in and not confirmed.
Inside ==
    (({throttleP, shufflerP} \cup {workerP[w] : w \in Workers}) \ {None})
    \cup Elems(throttleOut) \cup UNION {Elems(channels[w]) : w \in Workers}

\* Every variable keeps its type.
TypeOK ==
    /\ in \in Seq(Batch) /\ confirm \in Seq(Batch) /\ inClosed \in BOOLEAN
    /\ state \in {"stopped", "running", "stopping"} /\ starts \in 0..MaxStarts
    /\ exit \in BOOLEAN /\ workersCount \in WorkerCounts /\ throttled \in BOOLEAN
    /\ throttlePC \in {"off", "tick", "recv", "send", "done"}
    /\ throttleP \in Batch \cup {None} /\ ticks \in 0..Chunk
    /\ throttleOut \in Seq(Batch) /\ throttleClosed \in BOOLEAN
    /\ shufflerPC \in {"off", "select", "send", "done"}
    /\ shufflerP \in Batch \cup {None}
    /\ channels \in [Workers -> Seq(Batch)] /\ channelsClosed \in BOOLEAN
    /\ workerPC \in [Workers -> {"off", "select", "open", "update", "confirm", "done"}]
    /\ workerP \in [Workers -> Batch \cup {None}]
    /\ exists \in SUBSET Metric /\ file \in [Metric -> Seq(1..MaxBatches)]
    /\ fed \in [Metric -> 0..MaxBatches] /\ acked \in Seq(Batch)

\* The worker that stores a metric's batches.
Home(m) == IF Solo THEN 0 ELSE Index(m)

\* The batches that were confirmed, then those on the way to worker w, in the
\* order in which they get there, then those that wait in in.
Path(w) ==
    acked \o confirm \o InSeq(workerP[w]) \o channels[w]
    \o InSeq(shufflerP) \o throttleOut \o InSeq(throttleP) \o in

\* Nothing is lost, doubled or reordered per metric between in and the
\* confirmations, with any number of workers, throttled or not, across Stop
\* and Start with another configuration, and whether or not a store failed:
\* at every moment the metric's batches stand in one line in feeding order,
\* all that were fed and each once.
InOrderOnce ==
    \A m \in Metric : LET s == Path(Home(m)) IN
        /\ {b \in Elems(s) : b[1] = m} = {<<m, n>> : n \in 1..fed[m]}
        /\ \A i, j \in 1..Len(s) : i < j /\ s[i][1] = m /\ s[j][1] = m => s[i][2] < s[j][2]

\* Two workers never have the same whisper file open, and a file gets its batches
\* oldest first, none after a later one (whisper keeps what was written last for a
\* time slot), also when the number of workers changes (whisper.go:180).
FileExclusive ==
    /\ \A v, w \in Workers :
          /\ v # w
          /\ workerPC[v] \in {"open", "update"} /\ workerPC[w] \in {"open", "update"}
          => workerP[v][1] # workerP[w][1]
    /\ \A m \in Metric : \A i, j \in 1..Len(file[m]) : i < j => file[m][i] < file[m][j]

\* When Stop has returned, no batch is left in the throttle, the shuffler, a
\* worker or a channel between them; whoever starts next, or dumps in, finds
\* every unconfirmed batch in in.
StoppedEmpty == state = "stopped" => Inside = {}
=============================================================================

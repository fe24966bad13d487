------------------------------- MODULE Cache -------------------------------
(***************************************************************************)
(* The in-memory write-behind cache of go-carbon (package cache): the      *)
(* worker goroutine of cache.go, the confirm tracker goroutine of          *)
(* confirm.go, and the channels between them, the receivers, carbonlink    *)
(* and the persister.                                                      *)
(*                                                                         *)
(* A *points.Points is an object on a heap: its address is <<metric, n>>   *)
(* where n is the serial number of its first point, and obj maps the       *)
(* address to the serial numbers the object's Data holds.  Serial numbers  *)
(* are given per metric in the order in which the points enter inputChan.  *)
(* Two variables that hold the same address alias the same object, as two  *)
(* pointers do in the code.                                                *)
(***************************************************************************)
EXTENDS Naturals, Sequences, FiniteSets

CONSTANTS
    Metric,      \* metric names
    MaxSerial,   \* bound: points per metric in a behaviour
    MaxBatch,    \* bound: points in one message of a receiver
    InputCap,    \* capacity of inputChan (SetInputCapacity)
    OutputCap,   \* capacity of outputChan (SetOutputChanSize, 1024)
    QueryCap,    \* capacity of both query channels (16)
    ConfirmCap,  \* capacity of confirmChan (2048)
    MaxSize,     \* maxSize (SetMaxSize); 0 means no limit
    Strategies,  \* the arguments SetWriteStrategy may be called with
    Timestamp,   \* timestamp of the point <<metric, serial>>
    Query,       \* carbonlink queries
    Nil          \* the nil pointer

Serial == 1..MaxSerial
Point  == Metric \X Serial
Addr   == Point
Empty  == <<>>

ASSUME FiniteAssumption   == IsFiniteSet(Metric)
ASSUME SerialAssumption   == MaxSerial \in Nat /\ MaxBatch \in Nat \ {0}
ASSUME CapAssumption      == /\ InputCap \in Nat \ {0} /\ OutputCap \in Nat \ {0}
                             /\ QueryCap \in Nat \ {0} /\ ConfirmCap \in Nat \ {0}
ASSUME MaxSizeAssumption  == MaxSize \in Nat
ASSUME TimeAssumption     == Timestamp \in [Point -> Nat]
ASSUME NilAssumption      == Nil \notin Addr /\ Nil \notin Query

VARIABLES
    obj,            \* the heap of *points.Points: Data of every object
    next,           \* next serial number of every metric
    inputChan,      \* from receivers
    data,           \* c.data: the object that collects a metric's points
    size,           \* c.size / c.sizeShared
    metricCount,    \* c.metricCount
    writeStrategy,  \* c.writeStrategy
    queue,          \* c.queue: the write-out queue, taken from its end
    values,         \* the worker's batch on its way to the tracker
    workerPC,       \* where the worker is in its loop
    held,           \* the query the worker is forwarding
    queryChan,      \* c.queryChan, from carbonlink
    trackerChan,    \* confirmTracker.queryChan
    trackerPC,      \* "run" or "done"
    p,              \* the tracker's batch on its way to outputChan
    notConfirmed,   \* notConfirmed.data: the unconfirmed batches of a metric
    outputChan,     \* to persister
    taken,          \* batches the persister has received and not confirmed
    confirmChan,    \* confirmations from the persister
    query,          \* the Query objects
    exit,           \* the Stoppable's exit channel is closed
    accepted,       \* history: points Add has stored
    written         \* history: points of batches the persister has confirmed

inVars      == <<next, inputChan>>
storeVars   == <<data, size, metricCount>>
workerVars  == <<queue, values, workerPC, held>>
trackVars   == <<trackerPC, p, notConfirmed>>
queryVars   == <<queryChan, trackerChan, query>>
persistVars == <<outputChan, taken, confirmChan, written>>
fixedVars   == <<writeStrategy, exit>>
vars == <<obj, inVars, storeVars, workerVars, trackVars, queryVars,
          persistVars, fixedVars, accepted>>

(***************************************************************************)
(* Small vocabulary.                                                       *)
(***************************************************************************)
Elems(s)       == {s[i] : i \in 1..Len(s)}
Front1(s)      == SubSeq(s, 1, Len(s) - 1)
Last1(s)       == s[Len(s)]
MetricOf(a)    == a[1]
\* The points an object's Data holds.
PointsOf(a)    == {<<MetricOf(a), n>> : n \in Elems(obj[a])}
PointsAt(S)    == UNION {PointsOf(a) : a \in S}
CachedAddrs    == {data[m] : m \in Metric} \ {Nil}
HeldAddrs      == {values} \ {Nil}
InFlightAddrs  == UNION {Elems(notConfirmed[m]) : m \in Metric}
\* Objects behind the worker: on the way to the disk, or just confirmed.
BehindAddrs    == ({p} \ {Nil}) \cup Elems(outputChan) \cup taken \cup Elems(confirmChan)
\* The points in the map, in the worker's hand and in the tracker.
Cached         == PointsAt(CachedAddrs)
InHand         == PointsAt(HeldAddrs)
InFlight       == PointsAt(InFlightAddrs)

QueryObject ==
    [ status    : {"new", "waiting", "handled", "replied"},
      metric    : Metric \cup {Nil},
      cacheData : Seq(Serial),
      inFlight  : Seq(Addr),
      due       : SUBSET Point ]

NewQuery == [ status |-> "new", metric |-> Nil, cacheData |-> Empty,
              inFlight |-> Empty, due |-> {} ]

(***************************************************************************)
(* Construction.  New leaves the strategy at MaximumLength;                *)
(* SetWriteStrategy refuses a name it does not know and leaves the         *)
(* strategy alone (app.go ignores the error).                              *)
(***************************************************************************)
SetWriteStrategy(s) ==
    CASE s = "max"  -> "MaximumLength"
      [] s = "sort" -> "TimestampOrder"
      [] s = "noop" -> "Noop"
      [] OTHER      -> "MaximumLength"

Init ==
    /\ obj = [a \in Addr |-> Empty]
    /\ next = [m \in Metric |-> 1]
    /\ inputChan = Empty
    /\ data = [m \in Metric |-> Nil]
    /\ size = 0
    /\ metricCount = 0
    /\ writeStrategy \in {SetWriteStrategy(s) : s \in Strategies}
    /\ queue = Empty
    /\ values = Nil
    /\ workerPC = "loop"
    /\ held = Nil
    /\ queryChan = Empty
    /\ trackerChan = Empty
    /\ trackerPC = "run"
    /\ p = Nil
    /\ notConfirmed = [m \in Metric |-> Empty]
    /\ outputChan = Empty
    /\ taken = {}
    /\ confirmChan = Empty
    /\ query = [q \in Query |-> NewQuery]
    /\ exit = FALSE
    /\ accepted = {}
    /\ written = {}

(***************************************************************************)
(* The environment of the cache: receivers, carbonlink, the persister and  *)
(* the caller of Stop.                                                     *)
(***************************************************************************)
\* A receiver sends a new Points object with k points; it blocks while
\* inputChan is full.
Receive(m, k) ==
    LET a == <<m, next[m]>> IN
    /\ Len(inputChan) < InputCap
    /\ next[m] + k - 1 <= MaxSerial
    /\ obj' = [obj EXCEPT ![a] = [i \in 1..k |-> next[m] + i - 1]]
    /\ inputChan' = Append(inputChan, a)
    /\ next' = [next EXCEPT ![m] = @ + k]
    /\ UNCHANGED <<storeVars, workerVars, trackVars, queryVars, persistVars,
                   fixedVars, accepted>>

\* carbonlink builds a query and sends it; it blocks while the channel is full.
Ask(q, m) ==
    /\ query[q].status = "new"
    /\ Len(queryChan) < QueryCap
    /\ query' = [query EXCEPT ![q].status = "waiting", ![q].metric = m]
    /\ queryChan' = Append(queryChan, q)
    /\ UNCHANGED <<obj, inVars, storeVars, workerVars, trackVars, trackerChan,
                   persistVars, fixedVars, accepted>>

\* The persister receives a batch.
Take ==
    /\ outputChan # Empty
    /\ taken' = taken \cup {Head(outputChan)}
    /\ outputChan' = Tail(outputChan)
    /\ UNCHANGED <<obj, inVars, storeVars, workerVars, trackVars, queryVars,
                   confirmChan, written, fixedVars, accepted>>

\* The persister has dealt with a batch and confirms it, in any order.
Confirm(a) ==
    /\ a \in taken
    /\ Len(confirmChan) < ConfirmCap
    /\ taken' = taken \ {a}
    /\ confirmChan' = Append(confirmChan, a)
    /\ written' = written \cup PointsOf(a)
    /\ UNCHANGED <<obj, inVars, storeVars, workerVars, trackVars, queryVars,
                   outputChan, fixedVars, accepted>>

\* Stop closes the exit channel and waits for both goroutines.
Stop ==
    /\ ~exit
    /\ exit' = TRUE
    /\ UNCHANGED <<obj, inVars, storeVars, workerVars, trackVars, queryVars,
                   persistVars, writeStrategy, accepted>>

(***************************************************************************)
(* The top of the worker's loop: decide whether receiving is urgent, and   *)
(* take the next batch out of the cache when the worker has none.          *)
(***************************************************************************)
\* Mutant: urgent already at the threshold.
forceReceiveEarly == Len(inputChan) >= InputCap \div 10

forceReceive == Len(inputChan) > InputCap \div 10

\* byLength.Less and byTimestamp.Less; the first point decides the timestamp.
Less(s, a, b) ==
    \/ s = "MaximumLength"  /\ Len(obj[a]) < Len(obj[b])
    \/ s = "TimestampOrder" /\ Timestamp[<<MetricOf(a), obj[a][1]>>]
                                 > Timestamp[<<MetricOf(b), obj[b][1]>>]

\* What updateQueue may build: the objects of the map in any order (the map's
\* iteration order and an unstable sort are free to choose) that is sorted.
updateQueue ==
    LET n == Cardinality(CachedAddrs) IN
    { s \in [1..n -> CachedAddrs] :
        \A i, j \in 1..n : i < j => /\ s[i] # s[j]
                                    /\ ~Less(writeStrategy, s[j], s[i]) }

\* Mutants of Remove: one point too many, a batch counted as one point, and the
\* map entry kept.
RemoveOneMore(a) ==
    /\ data' = [data EXCEPT ![MetricOf(a)] = Nil]
    /\ size' = size - (Len(obj[a]) + 1)
    /\ metricCount' = metricCount - 1
RemoveOne(a) ==
    /\ data' = [data EXCEPT ![MetricOf(a)] = Nil]
    /\ size' = size - 1
    /\ metricCount' = metricCount - 1
RemoveNothing(a) ==
    /\ size' = size - Len(obj[a])
    /\ metricCount' = metricCount - 1
    /\ UNCHANGED data

\* Remove: the metric leaves the map with the batch's points.
Remove(a) ==
    /\ data' = [data EXCEPT ![MetricOf(a)] = Nil]
    /\ size' = size - Len(obj[a])
    /\ metricCount' = metricCount - 1

\* Mutant: the queue is not shortened.
PopKeepsQueue(q) ==
    /\ values' = Last1(q)
    /\ queue' = q
    /\ Remove(Last1(q))

\* Mutant: the rest of the queue is thrown away, and rebuilt every time.
PopForgetsQueue(q) ==
    /\ values' = Last1(q)
    /\ queue' = Empty
    /\ Remove(Last1(q))

\* Pop of the batch at the end of the write-out queue q.
PopFrom(q) ==
    /\ values' = Last1(q)
    /\ queue' = Front1(q)
    /\ Remove(Last1(q))

unchangedByLoop == <<obj, inVars, held, trackVars, queryVars, persistVars,
                     fixedVars, accepted>>

\* The worker has a batch already, or must receive first: nothing is popped.
LoopKeep ==
    /\ workerPC = "loop"
    /\ values # Nil \/ forceReceive
    /\ workerPC' = "select"
    /\ UNCHANGED <<unchangedByLoop, storeVars, queue, values>>

\* Pop from the queue built earlier.
LoopPopQueued ==
    /\ workerPC = "loop"
    /\ values = Nil /\ ~forceReceive
    /\ queue # Empty
    /\ PopFrom(queue)
    /\ workerPC' = "select"
    /\ UNCHANGED unchangedByLoop

\* The queue is used up: rebuild it from the map and pop.
LoopRebuild ==
    /\ workerPC = "loop"
    /\ values = Nil /\ ~forceReceive
    /\ queue = Empty
    /\ size # 0
    /\ \E q \in updateQueue : PopFrom(q)
    /\ workerPC' = "select"
    /\ UNCHANGED unchangedByLoop

\* Nothing is cached.
LoopEmpty ==
    /\ workerPC = "loop"
    /\ values = Nil /\ ~forceReceive
    /\ queue = Empty
    /\ size = 0
    /\ workerPC' = "select"
    /\ UNCHANGED <<unchangedByLoop, storeVars, queue, values>>

(***************************************************************************)
(* The worker's select.                                                    *)
(***************************************************************************)
\* Mutant: the worker forgets its own batch.
CacheDataInMap(m) == IF data[m] # Nil THEN obj[data[m]] ELSE Empty

\* What the worker finds for a query: its own batch, or else a copy of the map's.
CacheDataFor(m) ==
    IF values # Nil /\ MetricOf(values) = m
    THEN obj[values]
    ELSE IF data[m] # Nil THEN obj[data[m]] ELSE Empty

\* A query arrives; the worker fills in CacheData and turns to the tracker.
SelectQuery ==
    /\ workerPC = "select"
    /\ queryChan # Empty
    /\ LET q == Head(queryChan)
           m == query[q].metric IN
       /\ query' = [query EXCEPT
                      ![q].status = "handled",
                      ![q].cacheData = CacheDataFor(m),
                      ![q].due = {x \in accepted \ written : x[1] = m}]
       /\ held' = q
    /\ queryChan' = Tail(queryChan)
    /\ workerPC' = "forward"
    /\ UNCHANGED <<obj, inVars, storeVars, queue, values, trackVars, trackerChan,
                   persistVars, fixedVars, accepted>>

\* The blocking send of the query to the tracker.
ForwardQuery ==
    /\ workerPC = "forward"
    /\ Len(trackerChan) < QueryCap
    /\ trackerChan' = Append(trackerChan, held)
    /\ held' = Nil
    /\ workerPC' = "loop"
    /\ UNCHANGED <<obj, inVars, storeVars, queue, values, trackVars, queryChan,
                   query, persistVars, fixedVars, accepted>>

\* notConfirmed.add
AddNotConfirmed(a) ==
    notConfirmed' = [notConfirmed EXCEPT ![MetricOf(a)] = Append(@, a)]

\* The batch goes to the tracker over the unbuffered channel, which remembers
\* it before anyone else can see it.
SelectSend ==
    /\ workerPC = "select"
    /\ values # Nil
    /\ trackerPC = "run" /\ p = Nil
    /\ p' = values
    /\ AddNotConfirmed(values)
    /\ values' = Nil
    /\ workerPC' = "loop"
    /\ UNCHANGED <<obj, inVars, storeVars, queue, held, trackerPC, queryVars,
                   persistVars, fixedVars, accepted>>

\* Mutants of Add: the message replaces the metric's object; new points go
\* in front.
AddReplaces(a) ==
    /\ data' = [data EXCEPT ![MetricOf(a)] = a]
    /\ metricCount' = metricCount + (IF data[MetricOf(a)] = Nil THEN 1 ELSE 0)
    /\ UNCHANGED obj
    /\ size' = size + Len(obj[a])
    /\ accepted' = accepted \cup PointsOf(a)
AddInFront(a) ==
    LET m == MetricOf(a) IN
    /\ IF data[m] # Nil
       THEN obj' = [obj EXCEPT ![data[m]] = obj[a] \o @] /\ UNCHANGED <<data, metricCount>>
       ELSE /\ data' = [data EXCEPT ![m] = a]
            /\ metricCount' = metricCount + 1
            /\ UNCHANGED obj
    /\ size' = size + Len(obj[a])
    /\ accepted' = accepted \cup PointsOf(a)

\* Add: append to the metric's object or make the message that object.
Add(a) ==
    LET m == MetricOf(a) IN
    /\ IF data[m] # Nil
       THEN /\ obj' = [obj EXCEPT ![data[m]] = @ \o obj[a]]
            /\ UNCHANGED <<data, metricCount>>
       ELSE /\ data' = [data EXCEPT ![m] = a]
            /\ metricCount' = metricCount + 1
            /\ UNCHANGED obj
    /\ size' = size + Len(obj[a])
    /\ accepted' = accepted \cup PointsOf(a)

\* Mutant: room at the limit.
hasRoomAtLimit == MaxSize = 0 \/ size <= MaxSize

hasRoom == MaxSize = 0 \/ size < MaxSize

\* A message from a receiver is added, if the cache is not full.
SelectReceive ==
    /\ workerPC = "select"
    /\ inputChan # Empty
    /\ hasRoom
    /\ Add(Head(inputChan))
    /\ inputChan' = Tail(inputChan)
    /\ workerPC' = "loop"
    /\ UNCHANGED <<next, queue, values, held, trackVars, queryVars, persistVars,
                   fixedVars>>

\* The cache is full: the whole message is dropped and counted as overflow.
SelectOverflow ==
    /\ workerPC = "select"
    /\ inputChan # Empty
    /\ ~hasRoom
    /\ inputChan' = Tail(inputChan)
    /\ workerPC' = "loop"
    /\ UNCHANGED <<obj, next, storeVars, queue, values, held, trackVars,
                   queryVars, persistVars, fixedVars, accepted>>

\* Mutant: the worker wants to get rid of its batch before it leaves.
SelectExitEmptyHanded ==
    /\ workerPC = "select"
    /\ exit /\ values = Nil
    /\ workerPC' = "done"
    /\ UNCHANGED <<obj, inVars, storeVars, queue, values, held, trackVars,
                   queryVars, persistVars, fixedVars, accepted>>

SelectExit ==
    /\ workerPC = "select"
    /\ exit
    /\ workerPC' = "done"
    /\ UNCHANGED <<obj, inVars, storeVars, queue, values, held, trackVars,
                   queryVars, persistVars, fixedVars, accepted>>

(***************************************************************************)
(* The confirm tracker's select (its receive from the worker is            *)
(* SelectSend).                                                            *)
(***************************************************************************)
unchangedByTracker == <<obj, inVars, storeVars, workerVars, fixedVars, accepted>>

TrackerSend ==
    /\ trackerPC = "run"
    /\ p # Nil
    /\ Len(outputChan) < OutputCap
    /\ outputChan' = Append(outputChan, p)
    /\ p' = Nil
    /\ UNCHANGED <<unchangedByTracker, trackerPC, notConfirmed, queryVars, taken,
                   confirmChan, written>>

\* Mutant: the oldest batch is the one confirmed.
ForgetHead(s, a) == IF s # Empty THEN Tail(s) ELSE s

\* notConfirmed.confirm: forget the batch, by pointer, wherever it stands.
FirstAt(s, a, i) == s[i] = a /\ \A j \in 1..(i - 1) : s[j] # a

Forget(s, a) ==
    IF \E i \in 1..Len(s) : FirstAt(s, a, i)
    THEN LET i == CHOOSE i \in 1..Len(s) : FirstAt(s, a, i)
         IN  SubSeq(s, 1, i - 1) \o SubSeq(s, i + 1, Len(s))
    ELSE s

TrackerConfirm ==
    /\ trackerPC = "run"
    /\ confirmChan # Empty
    /\ LET a == Head(confirmChan) IN
       notConfirmed' = [notConfirmed EXCEPT ![MetricOf(a)] = Forget(@, a)]
    /\ confirmChan' = Tail(confirmChan)
    /\ UNCHANGED <<unchangedByTracker, trackerPC, p, queryVars, outputChan, taken,
                   written>>

\* Mutant: the asker is woken only when there is in-flight data.
TrackerQueryIfKnown ==
    /\ trackerPC = "run"
    /\ trackerChan # Empty
    /\ LET q == Head(trackerChan) IN
       query' = IF notConfirmed[query[q].metric] = Empty THEN query
                ELSE [query EXCEPT ![q].status = "replied",
                                   ![q].inFlight = notConfirmed[query[q].metric]]
    /\ trackerChan' = Tail(trackerChan)
    /\ UNCHANGED <<unchangedByTracker, trackVars, queryChan, persistVars>>

\* handleQuery: attach the unconfirmed batches and wake the asker.
TrackerQuery ==
    /\ trackerPC = "run"
    /\ trackerChan # Empty
    /\ LET q == Head(trackerChan) IN
       query' = [query EXCEPT ![q].status = "replied",
                              ![q].inFlight = notConfirmed[query[q].metric]]
    /\ trackerChan' = Tail(trackerChan)
    /\ UNCHANGED <<unchangedByTracker, trackVars, queryChan, persistVars>>

TrackerExit ==
    /\ trackerPC = "run"
    /\ exit
    /\ trackerPC' = "done"
    /\ UNCHANGED <<unchangedByTracker, p, notConfirmed, queryVars, persistVars>>

-----------------------------------------------------------------------------
Worker  == \/ LoopKeep \/ LoopPopQueued \/ LoopRebuild \/ LoopEmpty
           \/ SelectQuery \/ ForwardQuery \/ SelectSend \/ SelectReceive
           \/ SelectOverflow \/ SelectExit
Tracker == TrackerSend \/ TrackerConfirm \/ TrackerQuery \/ TrackerExit
Environment ==
    \/ \E m \in Metric, k \in 1..MaxBatch : Receive(m, k)
    \/ \E q \in Query, m \in Metric : Ask(q, m)
    \/ Take
    \/ \E a \in Addr : Confirm(a)
    \/ Stop

Next == Worker \/ Tracker \/ Environment

Spec == Init /\ [][Next]_vars

(***************************************************************************)
(* Properties.                                                             *)
(***************************************************************************)
ShapeOK ==
    /\ obj \in [Addr -> Seq(Serial)]
    /\ next \in [Metric -> Nat \ {0}]
    /\ inputChan \in Seq(Addr)
    /\ data \in [Metric -> Addr \cup {Nil}]
    /\ writeStrategy \in {"MaximumLength", "TimestampOrder", "Noop"}
    /\ queue \in Seq(Addr)
    /\ values \in Addr \cup {Nil}
    /\ workerPC \in {"loop", "select", "forward", "done"}
    /\ held \in Query \cup {Nil}
    /\ queryChan \in Seq(Query) /\ trackerChan \in Seq(Query)
    /\ trackerPC \in {"run", "done"}
    /\ p \in Addr \cup {Nil}
    /\ notConfirmed \in [Metric -> Seq(Addr)]
    /\ outputChan \in Seq(Addr) /\ confirmChan \in Seq(Addr)
    /\ taken \in SUBSET Addr
    /\ query \in [Query -> QueryObject]
    /\ workerPC = "forward" => held \in Query
    /\ \A i \in 1..Len(queryChan) : query[queryChan[i]].metric \in Metric
    /\ \A i \in 1..Len(trackerChan) : query[trackerChan[i]].metric \in Metric
    /\ held \in Query => query[held].metric \in Metric
    /\ exit \in BOOLEAN
    /\ accepted \in SUBSET Point /\ written \in SUBSET Point

\* Every variable keeps its type; a query on its way names a metric, and
\* neither counter wraps below zero.
TypeOK == ShapeOK /\ size \in Nat /\ metricCount \in Nat

\* The write-out queue holds no pointer twice, and each one is still the
\* object the map has for that metric: Pop, which deletes the map entry by
\* name (cache.go:141), never deletes points it does not return, although the
\* queue is built once and used across many adds.
QueueFresh ==
    \A i \in 1..Len(queue) :
        /\ data[MetricOf(queue[i])] = queue[i]
        /\ \A j \in 1..Len(queue) : queue[i] = queue[j] => i = j

\* No point that Add stored is lost or stored twice on its way to the
\* persister's confirmation: it is in the map, or in the worker's hand, or in
\* the tracker, or confirmed, and in no two of the first three.
NoLoss ==
    /\ accepted = Cached \cup InHand \cup InFlight \cup written
    /\ Cached \cap InHand = {} /\ Cached \cap InFlight = {} /\ InHand \cap InFlight = {}
    /\ written \cap (Cached \cup InHand) = {}

\* The size that overflow protection and GraceStop's flush loop rely on, and
\* the metric count that Stat reports, are exactly what the map holds.
SizeExact ==
    /\ size = Cardinality(Cached)
    /\ metricCount = Cardinality(CachedAddrs)

\* The tracker's map is exact: what it remembers is what has been handed over
\* and whose confirmation it has not read yet, each batch once, so that a
\* query sees every unsaved batch and no batch is remembered for ever.
TrackerExact ==
    /\ InFlightAddrs = BehindAddrs
    /\ \A m \in Metric : \A i, j \in 1..Len(notConfirmed[m]) :
           notConfirmed[m][i] = notConfirmed[m][j] => i = j

\* With a limit, the cache never exceeds it by a whole message: the check
\* before Add looks only at the old size (cache.go:276).
OvershootBounded == MaxSize # 0 => size < MaxSize + MaxBatch

\* Points a replied query carries.
ReplyPoints(q) ==
    {<<query[q].metric, n>> : n \in Elems(query[q].cacheData)}
        \cup PointsAt(Elems(query[q].inFlight))

\* A reply has no holes: of the points that were unsaved when the worker read
\* the query and still are, it may miss only points younger than all it has,
\* and it is not empty when there is such a point.  (It does miss points: when an
\* older batch of the metric is in the worker's hand, the map is not looked at,
\* cache.go:266.)
ReplyHasNoHole ==
    \A q \in Query : query[q].status = "replied" =>
        \A x \in query[q].due \ written :
            \/ x \in ReplyPoints(q)
            \/ /\ ReplyPoints(q) # {}
               /\ \A y \in ReplyPoints(q) : y[2] < x[2]

\* Objects that another goroutine may read: handed to the tracker, the
\* persister or a query.
HandedOut == HeldAddrs \cup InFlightAddrs \cup BehindAddrs
             \cup UNION {Elems(query[q].inFlight) : q \in Query}

\* The worker appends in place to the objects of its map (cache.go:149), but
\* never to one it has handed out: readers need no lock.
HandedOutFrozen == [][\A a \in HandedOut : obj'[a] = obj[a]]_vars

\* The cache is a write-behind buffer: a metric's buffer is the object the map
\* has for it, its pending batches are those of the tracker and of the
\* worker's hand, and a batch is settled when the tracker has read its
\* confirmation.
Contents(s) == [i \in 1..Len(s) |-> obj[s[i]]]

Buffer == INSTANCE WriteBehind WITH
    Message  <- UNION {[1..k -> Serial] : k \in 1..MaxBatch},
    buffered <- [m \in Metric |-> IF data[m] = Nil THEN Empty ELSE obj[data[m]]],
    pending  <- [m \in Metric |-> Contents(notConfirmed[m]
                    \o (IF values # Nil /\ MetricOf(values) = m THEN <<values>> ELSE Empty))],
    settled  <- written \ PointsAt(InFlightAddrs)

\* Every behaviour of the cache is one of WriteBehind: Add accepts, Pop
\* flushes, the tracker's confirm settles, and nothing else moves a point.
IsWriteBehind == Buffer!Spec

(***************************************************************************)
(* The inductive invariant that the proofs of CacheProofs rest on.         *)
(***************************************************************************)
\* Objects that somebody can reach.
LiveAddrs == Elems(inputChan) \cup CachedAddrs \cup HeldAddrs \cup InFlightAddrs
             \cup BehindAddrs

\* The map files an object under the metric it was made for.
MapOK == \A m \in Metric : data[m] # Nil => MetricOf(data[m]) = m

\* An object that somebody can reach has points, each once, and it and they
\* have been given out by next.
ObjectsOK ==
    \A a \in LiveAddrs :
        /\ obj[a] # Empty
        /\ a[2] < next[a[1]]
        /\ \A i \in 1..Len(obj[a]) : obj[a][i] < next[a[1]]
        /\ \A i, j \in 1..Len(obj[a]) : obj[a][i] = obj[a][j] => i = j

AcceptedOK == \A x \in accepted : x[2] < next[x[1]]

\* What waits in the input channel is new, and no two messages share a point.
InputOK ==
    /\ \A i \in 1..Len(inputChan) : PointsOf(inputChan[i]) \cap accepted = {}
    /\ \A i, j \in 1..Len(inputChan) :
           i # j => PointsOf(inputChan[i]) \cap PointsOf(inputChan[j]) = {}

\* What is behind the worker was accepted and is not in the cache any more,
\* and what was confirmed is written.
BehindOK ==
    /\ PointsAt(BehindAddrs) \subseteq accepted
    /\ PointsAt(BehindAddrs) \cap (Cached \cup InHand) = {}
    /\ PointsAt(Elems(confirmChan)) \subseteq written

Account == /\ MapOK /\ QueueFresh /\ ObjectsOK /\ AcceptedOK
           /\ InputOK /\ BehindOK /\ NoLoss /\ SizeExact

IInv == ShapeOK /\ Account

(***************************************************************************)
(* Liveness.  The Go scheduler runs every goroutine that can move, and     *)
(* select chooses at random among the cases that are ready.  A case of the *)
(* worker's select is ready only while the worker stands there, again and  *)
(* again: strong fairness.  A case of the tracker's select stays ready     *)
(* until it is chosen: weak fairness.  The persister keeps taking batches  *)
(* and confirming them.                                                    *)
(***************************************************************************)
Fairness ==
    /\ WF_vars(LoopKeep \/ LoopPopQueued \/ LoopRebuild \/ LoopEmpty \/ ForwardQuery)
    /\ SF_vars(SelectQuery)
    /\ SF_vars(SelectSend)
    /\ SF_vars(SelectReceive \/ SelectOverflow)
    /\ SF_vars(SelectExit)
    /\ WF_vars(TrackerSend)
    /\ WF_vars(TrackerConfirm)
    /\ WF_vars(TrackerQuery)
    /\ WF_vars(TrackerExit)
    /\ WF_vars(Take)
    /\ WF_vars(\E a \in Addr : Confirm(a))

FairSpec == Spec /\ Fairness

\* Every stored point is confirmed in the end, unless the cache is stopped.
EventuallyWritten ==
    \A x \in Point : x \in accepted ~> (x \in written \/ exit)

\* Every query that was sent is answered, unless the cache is stopped.
QueryAnswered ==
    \A q \in Query : query[q].status = "waiting" ~> (query[q].status = "replied" \/ exit)

\* The worker is in its send to a tracker that has gone and has left a full query
\* channel behind (cache.go:272).
WorkerStuck == trackerPC = "done" /\ workerPC = "forward" /\ Len(trackerChan) = QueryCap

\* Once Stop has closed the exit channel both goroutines end, except when the
\* worker is stuck.
StopReturns == exit ~> (trackerPC = "done" /\ workerPC = "done") \/ WorkerStuck
=============================================================================

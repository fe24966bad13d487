------------------------ MODULE CacheServiceProofs ------------------------
(***************************************************************************)
(* Proofs about what the users of the cache get: a reply to a query has no *)
(* holes, the cache is a write-behind buffer (it implements WriteBehind),  *)
(* and no metric is passed over for long by the write-out.                 *)
(***************************************************************************)
EXTENDS CacheProofs, CacheWriteout

(***************************************************************************)
(* The invariant.                                                          *)
(***************************************************************************)
\* A query is in one channel or in the worker's hand, and its status says where.
QueryPlaced ==
    /\ Once(queryChan) /\ Once(trackerChan)
    /\ \A q \in Elems(queryChan) : query[q].status = "waiting"
    /\ \A q \in Elems(trackerChan) : query[q].status = "handled"
    /\ held \in Query => query[held].status = "handled" /\ held \notin Elems(trackerChan)

\* What is due to a query is of its metric and was accepted.
DueOK ==
    \A q \in Query :
        /\ query[q].status \in {"new", "waiting"} => query[q].due = {}
        /\ \A x \in query[q].due : x[1] = query[q].metric /\ x \in accepted

\* Between worker and tracker, a point that is due and not written has been
\* copied into CacheData, or is in the tracker's map, or is younger than all of
\* a CacheData that is not empty.
HandledOK ==
    \A q \in Query : query[q].status = "handled" =>
        \A x \in query[q].due \ written :
            \/ x[2] \in Elems(query[q].cacheData)
            \/ x \in InFlight
            \/ /\ query[q].cacheData # Empty
               /\ \A n \in Elems(query[q].cacheData) : n < x[2]

ReplyOK == QueryPlaced /\ DueOK /\ HandledOK /\ ReplyHasNoHole

RInv == TInv /\ OrderOK /\ ReplyOK

(***************************************************************************)
(* Queries.                                                                *)
(***************************************************************************)
\* How a step changes a query: carbonlink asks, the worker fills in its part,
\* the tracker fills in the rest.
LEMMA QueryStep ==
    ASSUME IInv, [Next]_vars
    PROVE  \/ UNCHANGED <<query, queryChan, trackerChan, held>>
           \/ /\ UNCHANGED <<query, queryChan>> /\ workerPC = "forward" /\ held \in Query
              /\ trackerChan' = Append(trackerChan, held) /\ held' = Nil
           \/ \E q \in Query, m \in Metric :
                 /\ query[q].status = "new" /\ queryChan' = Append(queryChan, q)
                 /\ query' = [query EXCEPT ![q] = [@ EXCEPT !.status = "waiting", !.metric = m]]
                 /\ UNCHANGED <<trackerChan, held>>
           \/ \E q \in Query :
                 /\ SelectQuery /\ queryChan # Empty /\ q = Head(queryChan)
                 /\ query[q].metric \in Metric
                 /\ query' = [query EXCEPT ![q] = [@ EXCEPT
                                 !.status = "handled",
                                 !.cacheData = CacheDataFor(query[q].metric),
                                 !.due = {x \in accepted \ written : x[1] = query[q].metric}]]
                 /\ queryChan' = Tail(queryChan) /\ held' = q /\ UNCHANGED trackerChan
           \/ \E q \in Query :
                 /\ TrackerQuery /\ trackerChan # Empty /\ q = Head(trackerChan)
                 /\ query[q].metric \in Metric
                 /\ query' = [query EXCEPT ![q] = [@ EXCEPT
                                 !.status = "replied",
                                 !.inFlight = notConfirmed[query[q].metric]]]
                 /\ trackerChan' = Tail(trackerChan) /\ UNCHANGED <<queryChan, held>>
<1>1. ShapeOK
  BY DEF IInv
<1>2. query \in [Query -> QueryObject] /\ queryChan \in Seq(Query) /\ trackerChan \in Seq(Query)
  BY <1>1 DEF ShapeOK
<1>3. CASE ForwardQuery
  BY <1>1, <1>3 DEF ForwardQuery, ShapeOK
<1>4. ASSUME NEW q \in Query, NEW m \in Metric, Ask(q, m)
      PROVE  /\ query[q].status = "new" /\ queryChan' = Append(queryChan, q)
             /\ query' = [query EXCEPT ![q] = [@ EXCEPT !.status = "waiting", !.metric = m]]
             /\ UNCHANGED <<trackerChan, held>>
  BY <1>2, <1>4 DEF Ask, workerVars
<1>5. ASSUME SelectQuery, NEW q, q = Head(queryChan)
      PROVE  /\ q \in Query /\ queryChan # Empty /\ query[q].metric \in Metric
             /\ query' = [query EXCEPT ![q] = [@ EXCEPT
                             !.status = "handled",
                             !.cacheData = CacheDataFor(query[q].metric),
                             !.due = {x \in accepted \ written : x[1] = query[q].metric}]]
             /\ queryChan' = Tail(queryChan) /\ held' = q /\ UNCHANGED trackerChan
  <2>1. queryChan # Empty
    BY <1>5 DEF SelectQuery
  <2>2. q \in Query /\ 1 \in 1..Len(queryChan) /\ q = queryChan[1]
    BY <1>2, <1>5, <2>1, ElemsTail
  <2>3. query[q].metric \in Metric
    BY <1>1, <2>2 DEF ShapeOK
  <2>4. queryChan' = Tail(queryChan) /\ held' = q /\ UNCHANGED trackerChan
    BY <1>5 DEF SelectQuery
  <2>5. PICK c, d : /\ c = CacheDataFor(query[q].metric)
                    /\ d = {x \in accepted \ written : x[1] = query[q].metric}
    OBVIOUS
  <2>6. query' = [query EXCEPT ![q].status = "handled", ![q].cacheData = c, ![q].due = d]
    BY <1>5, <2>5 DEF SelectQuery
  <2>7. query' = [query EXCEPT ![q] = [@ EXCEPT !.status = "handled", !.cacheData = c, !.due = d]]
    BY <1>2, <2>2, <2>6
  <2> QED BY <2>1, <2>2, <2>3, <2>4, <2>5, <2>7
<1>6. ASSUME TrackerQuery, NEW q, q = Head(trackerChan)
      PROVE  /\ q \in Query /\ trackerChan # Empty /\ query[q].metric \in Metric
             /\ query' = [query EXCEPT ![q] = [@ EXCEPT
                             !.status = "replied",
                             !.inFlight = notConfirmed[query[q].metric]]]
             /\ trackerChan' = Tail(trackerChan) /\ UNCHANGED <<queryChan, held>>
  <2>1. trackerChan # Empty
    BY <1>6 DEF TrackerQuery
  <2>2. q \in Query /\ 1 \in 1..Len(trackerChan) /\ q = trackerChan[1]
    BY <1>2, <1>6, <2>1, ElemsTail
  <2>3. query[q].metric \in Metric
    BY <1>1, <2>2 DEF ShapeOK
  <2>4. trackerChan' = Tail(trackerChan) /\ UNCHANGED <<queryChan, held>>
    BY <1>6 DEF TrackerQuery, unchangedByTracker, workerVars
  <2>5. query' = [query EXCEPT ![q] = [@ EXCEPT !.status = "replied",
                                                !.inFlight = notConfirmed[query[q].metric]]]
    BY <1>2, <1>6, <2>2 DEF TrackerQuery
  <2> QED BY <2>1, <2>2, <2>3, <2>4, <2>5
<1>7. \/ UNCHANGED <<query, queryChan, trackerChan, held>>
      \/ ForwardQuery \/ SelectQuery \/ TrackerQuery
      \/ \E q \in Query, m \in Metric : Ask(q, m)
  BY DEF Next, Worker, Tracker, Environment, LoopKeep, LoopPopQueued, LoopRebuild, LoopEmpty,
         SelectSend, SelectReceive, SelectOverflow, SelectExit, TrackerSend, TrackerConfirm,
         TrackerExit, Receive, Take, Confirm, Stop, vars, unchangedByLoop, unchangedByTracker,
         queryVars, workerVars
<1>8. CASE SelectQuery
  BY <1>5, <1>8
<1>9. CASE TrackerQuery
  BY <1>6, <1>9
<1> QED BY <1>3, <1>4, <1>7, <1>8, <1>9

\* What such a step does to the fields of the query concerned, and to no other.
LEMMA QueryFields ==
    ASSUME query \in [Query -> QueryObject], NEW q \in Query, NEW r \in QueryObject,
           query' = [query EXCEPT ![q] = r]
    PROVE  query'[q] = r /\ \A o \in Query : o # q => query'[o] = query[o]
OBVIOUS

\* QueryStep, field by field.
LEMMA QueryMoves ==
    ASSUME IInv, [Next]_vars
    PROVE  \/ UNCHANGED <<query, queryChan, trackerChan, held>>
           \/ /\ UNCHANGED <<query, queryChan>> /\ workerPC = "forward" /\ held \in Query
              /\ trackerChan' = Append(trackerChan, held) /\ held' = Nil
           \/ \E q \in Query :
                 /\ query[q].status = "new" /\ query'[q].status = "waiting"
                 /\ query'[q].due = query[q].due
                 /\ \A o \in Query : o # q => query'[o] = query[o]
                 /\ queryChan' = Append(queryChan, q) /\ UNCHANGED <<trackerChan, held>>
           \/ \E q \in Query :
                 /\ SelectQuery /\ queryChan # Empty /\ q = Head(queryChan)
                 /\ query[q].metric \in Metric /\ query'[q].status = "handled"
                 /\ query'[q].metric = query[q].metric
                 /\ query'[q].cacheData = CacheDataFor(query[q].metric)
                 /\ query'[q].due = {x \in accepted \ written : x[1] = query[q].metric}
                 /\ \A o \in Query : o # q => query'[o] = query[o]
                 /\ queryChan' = Tail(queryChan) /\ held' = q /\ UNCHANGED trackerChan
           \/ \E q \in Query :
                 /\ TrackerQuery /\ trackerChan # Empty /\ q = Head(trackerChan)
                 /\ query[q].metric \in Metric /\ query'[q].status = "replied"
                 /\ query'[q].metric = query[q].metric
                 /\ query'[q].cacheData = query[q].cacheData
                 /\ query'[q].due = query[q].due
                 /\ query'[q].inFlight = notConfirmed[query[q].metric]
                 /\ \A o \in Query : o # q => query'[o] = query[o]
                 /\ trackerChan' = Tail(trackerChan) /\ UNCHANGED <<queryChan, held>>
<1>1. ShapeOK /\ query \in [Query -> QueryObject] /\ Empty \in Seq(Serial) /\ Empty \in Seq(Addr)
  <2>1. ShapeOK
    BY DEF IInv
  <2>2. query \in [Query -> QueryObject]
    BY <2>1 DEF ShapeOK
  <2>3. Empty \in Seq(Serial) /\ Empty \in Seq(Addr)
    BY DEF Empty
  <2> QED BY <2>1, <2>2, <2>3
<1>2. ASSUME NEW q \in Query, NEW m \in Metric, query[q].status = "new",
             queryChan' = Append(queryChan, q), UNCHANGED <<trackerChan, held>>,
             query' = [query EXCEPT ![q] = [@ EXCEPT !.status = "waiting", !.metric = m]]
      PROVE  /\ query'[q].status = "waiting" /\ query'[q].due = query[q].due
             /\ \A o \in Query : o # q => query'[o] = query[o]
  <2>1. PICK r : r = [query[q] EXCEPT !.status = "waiting", !.metric = m]
    OBVIOUS
  <2>2. r \in QueryObject /\ r.status = "waiting" /\ r.due = query[q].due
    BY <1>1, <2>1 DEF QueryObject
  <2>3. query' = [query EXCEPT ![q] = r]
    BY <1>2, <2>1
  <2> QED BY <1>1, <2>2, <2>3, QueryFields
<1>3. ASSUME NEW q \in Query, query[q].metric \in Metric,
             query' = [query EXCEPT ![q] = [@ EXCEPT
                         !.status = "handled",
                         !.cacheData = CacheDataFor(query[q].metric),
                         !.due = {x \in accepted \ written : x[1] = query[q].metric}]]
      PROVE  /\ query'[q].status = "handled" /\ query'[q].metric = query[q].metric
             /\ query'[q].cacheData = CacheDataFor(query[q].metric)
             /\ query'[q].due = {x \in accepted \ written : x[1] = query[q].metric}
             /\ \A o \in Query : o # q => query'[o] = query[o]
  <2>1. PICK c, d : /\ c = CacheDataFor(query[q].metric)
                    /\ d = {x \in accepted \ written : x[1] = query[q].metric}
    OBVIOUS
  <2>2. c \in Seq(Serial) /\ d \in SUBSET Point
    BY <1>1, <1>3, <2>1 DEF CacheDataFor, ShapeOK, Empty
  <2>3. PICK r : r = [query[q] EXCEPT !.status = "handled", !.cacheData = c, !.due = d]
    OBVIOUS
  <2>4. /\ r \in QueryObject /\ r.status = "handled" /\ r.metric = query[q].metric
        /\ r.cacheData = c /\ r.due = d
    BY <1>1, <1>3, <2>2, <2>3 DEF QueryObject
  <2>5. query' = [query EXCEPT ![q] = r]
    BY <1>3, <2>1, <2>3
  <2> QED BY <1>1, <2>1, <2>4, <2>5, QueryFields
<1>4. ASSUME NEW q \in Query, query[q].metric \in Metric,
             query' = [query EXCEPT ![q] = [@ EXCEPT
                         !.status = "replied", !.inFlight = notConfirmed[query[q].metric]]]
      PROVE  /\ query'[q].status = "replied" /\ query'[q].metric = query[q].metric
             /\ query'[q].cacheData = query[q].cacheData /\ query'[q].due = query[q].due
             /\ query'[q].inFlight = notConfirmed[query[q].metric]
             /\ \A o \in Query : o # q => query'[o] = query[o]
  <2>1. PICK s : s = notConfirmed[query[q].metric]
    OBVIOUS
  <2>2. s \in Seq(Addr)
    BY <1>1, <1>4, <2>1 DEF ShapeOK
  <2>3. PICK r : r = [query[q] EXCEPT !.status = "replied", !.inFlight = s]
    OBVIOUS
  <2>4. /\ r \in QueryObject /\ r.status = "replied" /\ r.metric = query[q].metric
        /\ r.cacheData = query[q].cacheData /\ r.due = query[q].due /\ r.inFlight = s
    BY <1>1, <1>4, <2>2, <2>3 DEF QueryObject
  <2>5. query' = [query EXCEPT ![q] = r]
    BY <1>4, <2>1, <2>3
  <2> QED BY <1>1, <2>1, <2>4, <2>5, QueryFields
<1> QED BY <1>2, <1>3, <1>4, QueryStep

\* A query stays in one place.
LEMMA QueryPlacedStep == ASSUME RInv, [Next]_vars PROVE QueryPlaced'
<1>1. IInv /\ QueryPlaced /\ queryChan \in Seq(Query) /\ trackerChan \in Seq(Query)
  BY DEF RInv, TInv, IInv, ReplyOK, ShapeOK
<1>2. /\ Once(queryChan)' = Once(queryChan') /\ Elems(queryChan)' = Elems(queryChan')
      /\ Once(trackerChan)' = Once(trackerChan') /\ Elems(trackerChan)' = Elems(trackerChan')
  BY DEF Once, Elems
<1>3. Elems(queryChan) \subseteq Query /\ Elems(trackerChan) \subseteq Query
  BY <1>1 DEF Elems
<1>4. CASE UNCHANGED <<query, queryChan, trackerChan, held>>
  BY <1>1, <1>2, <1>4 DEF QueryPlaced
<1>5. CASE /\ UNCHANGED <<query, queryChan>> /\ workerPC = "forward" /\ held \in Query
           /\ trackerChan' = Append(trackerChan, held) /\ held' = Nil
  <2>1. Once(trackerChan') /\ Elems(trackerChan') = Elems(trackerChan) \cup {held}
    BY <1>1, <1>5, OnceAppend, ElemsAppend DEF QueryPlaced
  <2> QED BY <1>1, <1>2, <1>5, <2>1, NilAssumption DEF QueryPlaced
<1>6. ASSUME NEW q \in Query, query[q].status = "new", query'[q].status = "waiting",
             \A o \in Query : o # q => query'[o] = query[o],
             queryChan' = Append(queryChan, q), UNCHANGED <<trackerChan, held>>
      PROVE  QueryPlaced'
  <2>1. q \notin Elems(queryChan) /\ q \notin Elems(trackerChan) /\ held # q
    BY <1>1, <1>6 DEF QueryPlaced
  <2>2. Once(queryChan') /\ Elems(queryChan') = Elems(queryChan) \cup {q}
    BY <1>1, <1>6, <2>1, OnceAppend, ElemsAppend DEF QueryPlaced
  <2> QED BY <1>1, <1>2, <1>3, <1>6, <2>1, <2>2 DEF QueryPlaced
<1>7. ASSUME NEW q \in Query, queryChan # Empty, q = Head(queryChan), query'[q].status = "handled",
             \A o \in Query : o # q => query'[o] = query[o],
             queryChan' = Tail(queryChan), held' = q, UNCHANGED trackerChan
      PROVE  QueryPlaced'
  <2>1. q \in Elems(queryChan)
    BY <1>1, <1>7, ElemsTail
  <2>2. Once(queryChan') /\ Elems(queryChan') = Elems(queryChan) \ {q}
    BY <1>1, <1>7, OnceTail DEF QueryPlaced
  <2>3. q \notin Elems(trackerChan)
    BY <1>1, <2>1 DEF QueryPlaced
  <2> QED BY <1>1, <1>2, <1>3, <1>7, <2>2, <2>3 DEF QueryPlaced
<1>8. ASSUME NEW q \in Query, trackerChan # Empty, q = Head(trackerChan), query'[q].status = "replied",
             \A o \in Query : o # q => query'[o] = query[o],
             trackerChan' = Tail(trackerChan), UNCHANGED <<queryChan, held>>
      PROVE  QueryPlaced'
  <2>1. q \in Elems(trackerChan)
    BY <1>1, <1>8, ElemsTail
  <2>2. Once(trackerChan') /\ Elems(trackerChan') = Elems(trackerChan) \ {q}
    BY <1>1, <1>8, OnceTail DEF QueryPlaced
  <2>3. q \notin Elems(queryChan) /\ held # q
    BY <1>1, <2>1 DEF QueryPlaced
  <2> QED BY <1>1, <1>2, <1>3, <1>8, <2>2, <2>3 DEF QueryPlaced
<1> QED BY <1>1, <1>4, <1>5, <1>6, <1>7, <1>8, QueryMoves

\* Nothing that was accepted is forgotten.
LEMMA AcceptedGrows == ASSUME [Next]_vars PROVE accepted \subseteq accepted'
BY DEF Next, Worker, Tracker, Environment, LoopKeep, LoopPopQueued, LoopRebuild, LoopEmpty,
       SelectQuery, ForwardQuery, SelectSend, SelectReceive, Add, SelectOverflow, SelectExit,
       TrackerSend, TrackerConfirm, TrackerQuery, TrackerExit, Ask, Receive, Take, Confirm,
       Stop, vars, unchangedByLoop, unchangedByTracker

\* What is due stays of the query's metric.
LEMMA DueStep == ASSUME RInv, [Next]_vars PROVE DueOK'
<1>1. IInv /\ QueryPlaced /\ DueOK /\ accepted \subseteq accepted'
  BY AcceptedGrows DEF RInv, TInv, ReplyOK
<1>2. CASE UNCHANGED query
  BY <1>1, <1>2 DEF DueOK
<1>3. ASSUME NEW q \in Query, query[q].status = "new", query'[q].status = "waiting",
             query'[q].due = query[q].due, \A o \in Query : o # q => query'[o] = query[o]
      PROVE  DueOK'
  BY <1>1, <1>3 DEF DueOK
<1>4. ASSUME NEW q \in Query, query'[q].status = "handled", query'[q].metric = query[q].metric,
             query'[q].due = {x \in accepted \ written : x[1] = query[q].metric},
             \A o \in Query : o # q => query'[o] = query[o]
      PROVE  DueOK'
  BY <1>1, <1>4 DEF DueOK
<1>5. ASSUME NEW q \in Query, query'[q].status = "replied", query'[q].metric = query[q].metric,
             query'[q].due = query[q].due, \A o \in Query : o # q => query'[o] = query[o]
      PROVE  DueOK'
  BY <1>1, <1>5 DEF DueOK
<1> QED BY <1>1, <1>2, <1>3, <1>4, <1>5, QueryMoves

\* What the worker finds for a query: of the metric's unsaved points that are
\* not in the tracker's map it has all, or the oldest.
LEMMA WorkerFinds ==
    ASSUME IInv, StageOrder, NEW m \in Metric, NEW x \in accepted \ written, x[1] = m,
           NEW c, c = CacheDataFor(m)
    PROVE  \/ x[2] \in Elems(c)
           \/ x \in InFlight
           \/ c # Empty /\ \A n \in Elems(c) : n < x[2]
<1>1. ShapeOK /\ Account /\ MapOK /\ x \in Cached \cup InHand \cup InFlight
  BY DEF IInv, Account, NoLoss
<1>2. ASSUME NEW a \in CachedAddrs, x \in PointsOf(a) PROVE a = data[m] /\ a # Nil
  BY <1>1, <1>2 DEF CachedAddrs, MapOK, PointsOf
<1>3. \A a : x \in PointsOf(a) => x[2] \in Elems(obj[a])
  BY DEF PointsOf
<1>4. CASE values # Nil /\ MetricOf(values) = m
  <2>1. c = obj[values] /\ HeldAddrs = {values}
    BY <1>4 DEF CacheDataFor, HeldAddrs
  <2>2. InHand = PointsOf(values)
    BY <2>1 DEF InHand, PointsAt
  <2>3. CASE x \in InHand
    BY <1>3, <2>1, <2>2, <2>3
  <2>4. CASE x \in Cached
    <3>1. c # Empty
      BY <1>1, <2>1 DEF Account, ObjectsOK, LiveAddrs
    <3>2. \A n \in Elems(c) : <<m, n>> \in InHand
      BY <1>4, <2>1, <2>2 DEF PointsOf
    <3>3. \A n \in Elems(c) : n < x[2]
      BY <2>4, <3>2 DEF StageOrder, Older
    <3> QED BY <3>1, <3>3
  <2> QED BY <1>1, <2>3, <2>4
<1>5. CASE ~(values # Nil /\ MetricOf(values) = m)
  <2>1. x \notin InHand
    BY <1>5 DEF InHand, PointsAt, HeldAddrs, PointsOf
  <2>2. CASE x \in Cached
    <3>1. PICK a \in CachedAddrs : x \in PointsOf(a)
      BY <2>2 DEF Cached, PointsAt
    <3>2. a = data[m] /\ a # Nil
      BY <1>2, <3>1
    <3>3. c = obj[a]
      BY <1>5, <3>2 DEF CacheDataFor
    <3> QED BY <1>3, <3>1, <3>3
  <2> QED BY <1>1, <2>1, <2>2
<1> QED BY <1>4, <1>5

\* What is due between worker and tracker stays accounted for.
LEMMA HandledStep == ASSUME RInv, [Next]_vars PROVE HandledOK'
<1>1. TInv /\ IInv /\ StageOrder /\ HandledOK
  BY DEF RInv, TInv, OrderOK, ReplyOK
<1>2. InFlight \ written \subseteq InFlight' /\ written \subseteq written'
  BY <1>1, InFlightMoves
<1>3. ASSUME NEW q \in Query, query'[q] = query[q], query'[q].status = "handled",
             NEW x \in query'[q].due \ written'
      PROVE  \/ x[2] \in Elems(query'[q].cacheData)
             \/ x \in InFlight'
             \/ query'[q].cacheData # Empty /\ \A n \in Elems(query'[q].cacheData) : n < x[2]
  BY <1>1, <1>2, <1>3 DEF HandledOK
<1>4. \A q \in Query : Elems(query[q].cacheData)' = Elems(query'[q].cacheData)
  BY DEF Elems
<1>5. CASE \A q \in Query : query'[q].status = "handled" => query'[q] = query[q]
  BY <1>3, <1>4, <1>5 DEF HandledOK
<1>6. ASSUME NEW q \in Query, SelectQuery, query[q].metric \in Metric,
             query'[q].cacheData = CacheDataFor(query[q].metric),
             query'[q].due = {x \in accepted \ written : x[1] = query[q].metric},
             \A o \in Query : o # q => query'[o] = query[o]
      PROVE  HandledOK'
  <2>1. ASSUME NEW x \in query'[q].due \ written'
        PROVE  \/ x[2] \in Elems(query'[q].cacheData)
               \/ x \in InFlight'
               \/ query'[q].cacheData # Empty /\ \A n \in Elems(query'[q].cacheData) : n < x[2]
    <3>1. x \in accepted \ written /\ x[1] = query[q].metric
      BY <1>6, <2>1
    <3>2. \/ x[2] \in Elems(query'[q].cacheData)
          \/ x \in InFlight
          \/ query'[q].cacheData # Empty /\ \A n \in Elems(query'[q].cacheData) : n < x[2]
      BY <1>1, <1>6, <3>1, WorkerFinds
    <3> QED BY <1>2, <3>1, <3>2
  <2> QED BY <1>3, <1>4, <1>6, <2>1 DEF HandledOK
<1>7. CASE UNCHANGED query
  BY <1>5, <1>7
<1>8. ASSUME NEW q \in Query, query'[q].status # "handled",
             \A o \in Query : o # q => query'[o] = query[o]
      PROVE  HandledOK'
  BY <1>5, <1>8
<1> QED BY <1>1, <1>6, <1>7, <1>8, QueryMoves

\* A reply has no holes, when it is given and ever after.
LEMMA ReplyStep == ASSUME RInv, [Next]_vars PROVE ReplyHasNoHole'
<1>1. /\ TInv /\ IInv /\ ShapeOK /\ Account /\ FiledOK /\ ShownOK /\ StageOrder
      /\ QueryPlaced /\ DueOK /\ HandledOK /\ ReplyHasNoHole
  BY DEF RInv, TInv, IInv, HandOverOK, OrderOK, ReplyOK
<1>2. written \subseteq written'
  BY <1>1, InFlightMoves
<1>3. \A q \in Query : ReplyPoints(q)' = {<<query'[q].metric, n>> : n \in Elems(query'[q].cacheData)}
                                             \cup UNION {PointsOf(a)' : a \in Elems(query'[q].inFlight)}
  BY DEF ReplyPoints, PointsAt, Elems
<1>4. ASSUME NEW q \in Query, query'[q] = query[q] PROVE ReplyPoints(q)' = ReplyPoints(q)
  <2>1. \A a \in Elems(query[q].inFlight) : PointsOf(a)' = PointsOf(a)
    BY <1>1, ObjectKept DEF ShownOK, Shown
  <2> QED BY <1>3, <1>4, <2>1 DEF ReplyPoints, PointsAt
<1>5. CASE \A q \in Query : query'[q].status = "replied" => query'[q] = query[q]
  BY <1>1, <1>2, <1>4, <1>5 DEF ReplyHasNoHole
<1>6. ASSUME NEW q \in Query, TrackerQuery, trackerChan # Empty, q = Head(trackerChan),
             query[q].metric \in Metric, query'[q].metric = query[q].metric,
             query'[q].cacheData = query[q].cacheData, query'[q].due = query[q].due,
             query'[q].inFlight = notConfirmed[query[q].metric],
             \A o \in Query : o # q => query'[o] = query[o]
      PROVE  ReplyHasNoHole'
  <2>1. PICK m, c : m = query[q].metric /\ c = query[q].cacheData
    OBVIOUS
  <2>2. UNCHANGED <<obj, written>>
    BY <1>6 DEF TrackerQuery, unchangedByTracker, persistVars
  <2>3. ReplyPoints(q)' = {<<m, n>> : n \in Elems(c)} \cup PointsAt(Elems(notConfirmed[m]))
    <3>1. \A a : PointsOf(a)' = PointsOf(a)
      BY <2>2 DEF PointsOf, Elems, MetricOf
    <3> QED BY <1>3, <1>6, <2>1, <3>1 DEF PointsAt
  <2>4. query[q].status = "handled"
    <3>1. q \in Elems(trackerChan)
      BY <1>1, <1>6, ElemsTail DEF ShapeOK
    <3> QED BY <1>1, <3>1 DEF QueryPlaced
  <2>5. PointsAt(Elems(notConfirmed[m])) \subseteq InFlight
    BY <1>6, <2>1 DEF InFlight, InFlightAddrs, PointsAt
  <2>6. \A x \in InFlight : x[1] = m => x \in PointsAt(Elems(notConfirmed[m]))
    <3> SUFFICES ASSUME NEW x \in InFlight, x[1] = m PROVE x \in PointsAt(Elems(notConfirmed[m]))
      OBVIOUS
    <3>1. PICK k \in Metric : \E a \in Elems(notConfirmed[k]) : x \in PointsOf(a)
      BY DEF InFlight, InFlightAddrs, PointsAt
    <3>2. k = m
      BY <1>1, <3>1 DEF FiledOK, PointsOf
    <3> QED BY <3>1, <3>2 DEF PointsAt
  <2>7. \A y \in PointsAt(Elems(notConfirmed[m])) : y[1] = m
    BY <1>1, <1>6, <2>1 DEF FiledOK, PointsAt, PointsOf
  <2>8. ASSUME NEW x \in query[q].due \ written
        PROVE  \/ x \in ReplyPoints(q)'
               \/ ReplyPoints(q)' # {} /\ \A y \in ReplyPoints(q)' : y[2] < x[2]
    <3>1. x[1] = m /\ x \in accepted /\ x \in Point
      BY <1>1, <2>1, <2>8 DEF DueOK, ShapeOK
    <3>2. CASE x[2] \in Elems(c)
      <4>1. x = <<m, x[2]>>
        BY <3>1 DEF Point
      <4> QED BY <2>3, <3>2, <4>1
    <3>3. CASE x \in InFlight
      BY <2>3, <2>6, <3>1, <3>3
    <3>4. CASE x \notin InFlight /\ c # Empty /\ \A n \in Elems(c) : n < x[2]
      <4>1. x \in InHand \cup Cached
        BY <1>1, <2>8, <3>1, <3>4 DEF Account, NoLoss
      <4>2. \A y \in InFlight : y[1] = m => y[2] < x[2]
        BY <1>1, <3>1, <4>1 DEF StageOrder, Older
      <4>3. \A y \in ReplyPoints(q)' : y[2] < x[2]
        BY <2>3, <2>5, <2>7, <3>4, <4>2
      <4>4. Elems(c) # {}
        <5>1. c \in Seq(Serial)
          BY <1>1, <2>1 DEF ShapeOK, QueryObject
        <5>2. c # Empty
          BY <3>4
        <5>3. Elems(c) = {Head(c)} \cup Elems(Tail(c))
          BY <5>1, <5>2, ElemsTail
        <5> QED BY <5>3
      <4> QED BY <2>3, <4>3, <4>4
    <3> QED BY <1>1, <2>1, <2>4, <2>8, <3>2, <3>3, <3>4 DEF HandledOK
  <2>9. ASSUME NEW o \in Query, o # q, query'[o].status = "replied", NEW x \in query'[o].due \ written'
        PROVE  \/ x \in ReplyPoints(o)'
               \/ ReplyPoints(o)' # {} /\ \A y \in ReplyPoints(o)' : y[2] < x[2]
    <3>1. query'[o] = query[o]
      BY <1>6, <2>9
    <3>2. ReplyPoints(o)' = ReplyPoints(o)
      BY <1>4, <3>1
    <3> QED BY <1>1, <1>2, <2>9, <3>1, <3>2 DEF ReplyHasNoHole
  <2> QED BY <1>6, <2>2, <2>8, <2>9 DEF ReplyHasNoHole
<1>7. CASE UNCHANGED query
  BY <1>5, <1>7
<1>8. ASSUME NEW q \in Query, query'[q].status # "replied",
             \A o \in Query : o # q => query'[o] = query[o]
      PROVE  ReplyHasNoHole'
  BY <1>5, <1>8
<1> QED BY <1>1, <1>6, <1>7, <1>8, QueryMoves

\* The invariant holds at the start.
LEMMA InitReply == Init => ReplyOK
<1> SUFFICES ASSUME Init PROVE ReplyOK
  OBVIOUS
<1>1. Len(Empty) = 0 /\ Elems(Empty) = {} /\ Once(Empty)
  BY DEF Empty, Elems, Once
<1>2. \A q \in Query : query[q].status = "new" /\ query[q].due = {}
  BY DEF Init, NewQuery
<1>3. QueryPlaced
  BY <1>1, NilAssumption DEF Init, QueryPlaced
<1> QED BY <1>2, <1>3 DEF ReplyOK, DueOK, HandledOK, ReplyHasNoHole

\* The invariant behind the replies: the hand-over is exact and, in addition,
\* the points of a metric keep their order from the input channel to the
\* tracker's map, so that what a query misses is always the youngest part.
THEOREM ReplyInvariance == Spec => []RInv
<1>1. Init => RInv
  BY InitInv, InitHandOver, InitOrder, InitReply DEF RInv, TInv
<1>2. RInv /\ [Next]_vars => RInv'
  BY ShapeStep, AccountStep, HandOverStep, StageOrderStep, InputOrderStep, QueryPlacedStep,
     DueStep, HandledStep, ReplyStep
     DEF RInv, TInv, IInv, OrderOK, ReplyOK
<1> QED BY <1>1, <1>2, PTL DEF Spec

\* A reply has no holes, whatever happens between the worker's and the tracker's
\* part of it and whatever is confirmed while it is read: of the points that
\* were unsaved when the worker read the query and still are, it misses only
\* ones that are younger than all it has.
THEOREM RepliesHaveNoHoles == Spec => []ReplyHasNoHole
<1>1. RInv => ReplyHasNoHole
  BY DEF RInv, ReplyOK
<1> QED BY ReplyInvariance, <1>1, PTL

(***************************************************************************)
(* The cache implements WriteBehind: every step of the cache's worker, of  *)
(* the tracker and of their environment is, under the refinement mapping   *)
(* of Cache!Buffer, a step of the write-behind buffer or leaves it alone.  *)
(***************************************************************************)
Buffered == [m \in Metric |-> IF data[m] = Nil THEN Empty ELSE obj[data[m]]]

HandOf(m)    == IF values # Nil /\ MetricOf(values) = m THEN <<values>> ELSE Empty
PendingOf(m) == notConfirmed[m] \o HandOf(m)
Pending == [m \in Metric |-> Contents(notConfirmed[m]
               \o (IF values # Nil /\ MetricOf(values) = m THEN <<values>> ELSE Empty))]

Settled == written \ PointsAt(InFlightAddrs)

\* The batches of a metric that are pending are objects that other goroutines
\* may see, and their contents are sequences of points.
LEMMA PendingType ==
    ASSUME TInv, NEW m \in Metric
    PROVE  /\ HandOf(m) \in Seq(Addr) /\ notConfirmed[m] \in Seq(Addr)
           /\ PendingOf(m) \in Seq(Addr)
           /\ Elems(PendingOf(m)) \subseteq HeldAddrs \cup InFlightAddrs
           /\ \A a \in Elems(PendingOf(m)) : MetricOf(a) = m
           /\ Pending[m] = Contents(PendingOf(m))
<1>1. ShapeOK /\ FiledOK
  BY DEF TInv, IInv, HandOverOK
<1>2. notConfirmed[m] \in Seq(Addr) /\ values \in Addr \cup {Nil}
  BY <1>1 DEF ShapeOK
<1>3. HandOf(m) \in Seq(Addr)
  BY <1>2 DEF HandOf, Empty
<1>4. Elems(HandOf(m)) \subseteq HeldAddrs /\ \A a \in Elems(HandOf(m)) : MetricOf(a) = m
  BY <1>2 DEF HandOf, Empty, Elems, HeldAddrs
<1>5. Elems(notConfirmed[m]) \subseteq InFlightAddrs
      /\ \A a \in Elems(notConfirmed[m]) : MetricOf(a) = m
  BY <1>1 DEF InFlightAddrs, FiledOK
<1>6. /\ PendingOf(m) \in Seq(Addr)
      /\ Elems(PendingOf(m)) = Elems(notConfirmed[m]) \cup Elems(HandOf(m))
  BY <1>2, <1>3, ElemsConcat DEF PendingOf
<1>7. Pending[m] = Contents(PendingOf(m))
  BY DEF Pending, PendingOf, HandOf
<1> QED BY <1>2, <1>3, <1>4, <1>5, <1>6, <1>7

\* The contents of a list of batches.
LEMMA ContentsType ==
    ASSUME ShapeOK, NEW s \in Seq(Addr)
    PROVE  /\ Contents(s) \in Seq(Seq(Serial)) /\ Len(Contents(s)) = Len(s)
           /\ \A i \in 1..Len(s) : Contents(s)[i] = obj[s[i]]
<1>1. \A i \in 1..Len(s) : s[i] \in Addr /\ obj[s[i]] \in Seq(Serial)
  BY DEF ShapeOK
<1>2. Len(s) \in Nat
  OBVIOUS
<1> QED BY <1>1, <1>2 DEF Contents

\* What the abstract buffer knows of was accepted.
LEMMA KnownAccepted == TInv => Buffer!Known \subseteq accepted
<1> SUFFICES ASSUME TInv PROVE Buffer!Known \subseteq accepted
  OBVIOUS
<1>1. ShapeOK /\ Account
  BY DEF TInv, IInv
<1>2. Settled \subseteq accepted
  BY <1>1 DEF Account, NoLoss, Settled
<1>3. ASSUME NEW m \in Metric PROVE Buffer!PointsIn(m, Buffered[m]) \subseteq accepted
  <2>1. CASE data[m] = Nil
    <3>1. Buffered[m] = Empty
      BY <2>1 DEF Buffered
    <3> QED BY <3>1 DEF Buffer!PointsIn, Empty
  <2>2. CASE data[m] # Nil
    <3>1. Buffered[m] = obj[data[m]] /\ data[m] \in CachedAddrs /\ MetricOf(data[m]) = m
      BY <1>1, <2>2 DEF Buffered, CachedAddrs, Account, MapOK
    <3>2. Buffer!PointsIn(m, Buffered[m]) = PointsOf(data[m])
      BY <3>1 DEF Buffer!PointsIn, PointsOf, Elems
    <3>3. PointsOf(data[m]) \subseteq Cached
      BY <3>1 DEF Cached, PointsAt
    <3> QED BY <1>1, <3>2, <3>3 DEF Account, NoLoss
  <2> QED BY <2>1, <2>2
<1>4. ASSUME NEW m \in Metric, NEW i \in 1..Len(Pending[m])
      PROVE  Buffer!PointsIn(m, Pending[m][i]) \subseteq accepted
  <2>1. PICK s : s = PendingOf(m)
    OBVIOUS
  <2>2. /\ s \in Seq(Addr) /\ Elems(s) \subseteq HeldAddrs \cup InFlightAddrs
        /\ \A a \in Elems(s) : MetricOf(a) = m
        /\ Pending[m] = Contents(s)
    BY <2>1, PendingType
  <2>3. i \in 1..Len(s) /\ Pending[m][i] = obj[s[i]]
    BY <1>1, <2>2, ContentsType
  <2>4. s[i] \in HeldAddrs \cup InFlightAddrs /\ MetricOf(s[i]) = m
    BY <2>2, <2>3 DEF Elems
  <2>5. Buffer!PointsIn(m, Pending[m][i]) = PointsOf(s[i])
    BY <2>3, <2>4 DEF Buffer!PointsIn, PointsOf, Elems
  <2>6. PointsOf(s[i]) \subseteq InHand \cup InFlight
    BY <2>4 DEF InHand, InFlight, PointsAt
  <2> QED BY <1>1, <2>5, <2>6 DEF Account, NoLoss
<1>5. Buffer!Known = Settled \cup UNION {Buffer!PointsIn(m, Buffered[m])
          \cup UNION {Buffer!PointsIn(m, Pending[m][i]) : i \in 1..Len(Pending[m])} : m \in Metric}
  BY DEF Buffer!Known, Buffer!PendingPoints, Buffered, Pending, Settled
<1> QED BY <1>2, <1>3, <1>4, <1>5

(***************************************************************************)
(* What leaves parts of the buffer alone.                                  *)
(***************************************************************************)
\* The pending batches stay the same while the tracker's map and the worker's
\* hand do: nobody changes their contents.
LEMMA PendingKept ==
    ASSUME TInv, [Next]_vars, UNCHANGED <<notConfirmed, values>>
    PROVE  Pending' = Pending
<1>1. IInv /\ ShapeOK
  BY DEF TInv, IInv
<1>2. ASSUME NEW m \in Metric PROVE Contents(PendingOf(m))' = Contents(PendingOf(m))
  <2>1. PICK s : s = PendingOf(m)
    OBVIOUS
  <2>2. s \in Seq(Addr) /\ Elems(s) \subseteq HeldAddrs \cup InFlightAddrs
    BY <2>1, PendingType
  <2>3. PendingOf(m)' = s
    BY <2>1 DEF PendingOf, HandOf, MetricOf
  <2>4. \A i \in 1..Len(s) : obj'[s[i]] = obj[s[i]]
    <3>1. \A a \in Elems(s) : a \in LiveAddrs /\ a \notin CachedAddrs
      BY <1>1, <2>2, HandedApart DEF LiveAddrs
    <3>2. \A a \in Elems(s) : obj'[a] = obj[a]
      BY <1>1, <3>1, LiveKept
    <3> QED BY <3>2 DEF Elems
  <2> QED BY <2>1, <2>3, <2>4 DEF Contents
<1>3. \A m \in Metric : PendingOf(m)' = notConfirmed'[m] \o
          (IF values' # Nil /\ MetricOf(values') = m THEN <<values'>> ELSE Empty)
  BY DEF PendingOf, HandOf, MetricOf
<1>4. Pending' = [m \in Metric |-> Contents(PendingOf(m))']
  BY DEF Pending, PendingOf, HandOf, MetricOf, Contents
<1>5. Pending = [m \in Metric |-> Contents(PendingOf(m))]
  BY DEF Pending, PendingOf, HandOf
<1> QED BY <1>2, <1>4, <1>5

\* The settled points stay the same while the tracker's map and the history of
\* what is written do.
LEMMA SettledKept ==
    ASSUME TInv, [Next]_vars, UNCHANGED <<notConfirmed, written>>
    PROVE  Settled' = Settled
<1>1. IInv
  BY DEF TInv
<1>2. InFlightAddrs' = InFlightAddrs
  BY DEF InFlightAddrs, Elems
<1>3. \A a \in InFlightAddrs : PointsOf(a)' = PointsOf(a)
  BY <1>1, LiveKept, HandedApart DEF LiveAddrs
<1> QED BY <1>2, <1>3 DEF Settled, PointsAt

\* The buffers stay the same while the map does and its objects do.
LEMMA BufferedKept ==
    ASSUME UNCHANGED data, \A a \in CachedAddrs : obj'[a] = obj[a]
    PROVE  Buffered' = Buffered
<1>1. \A m \in Metric : data[m] # Nil => data[m] \in CachedAddrs
  BY DEF CachedAddrs
<1> QED BY <1>1 DEF Buffered

(***************************************************************************)
(* The steps.                                                              *)
(***************************************************************************)
\* A receiver's message is not in the buffer before Add.
LEMMA ReceiveStutters ==
    ASSUME TInv, NEW m \in Metric, NEW k \in 1..MaxBatch, Receive(m, k)
    PROVE  Buffered' = Buffered /\ Pending' = Pending /\ Settled' = Settled
<1>1. IInv /\ ShapeOK /\ Account /\ [Next]_vars
  BY DEF TInv, IInv, Next, Environment
<1>2. UNCHANGED <<data, values, notConfirmed, written>>
  BY DEF Receive, storeVars, workerVars, trackVars, persistVars
<1>3. obj' = [obj EXCEPT ![<<m, next[m]>>] = [i \in 1..k |-> next[m] + i - 1]]
  BY DEF Receive
<1>4. \A a \in CachedAddrs : a \in Addr /\ a[2] < next[a[1]]
  BY <1>1, LiveAddrsType DEF LiveAddrs, Account, ObjectsOK
<1>5. next[m] \in Nat
  BY <1>1 DEF ShapeOK
<1>6. \A a \in CachedAddrs : a # <<m, next[m]>>
  BY <1>4, <1>5
<1>7. \A a \in CachedAddrs : obj'[a] = obj[a]
  BY <1>1, <1>3, <1>4, <1>6 DEF ShapeOK
<1> QED BY <1>1, <1>2, <1>7, BufferedKept, PendingKept, SettledKept

\* Add accepts the message, as a whole and once.
LEMMA ReceiveAccepts ==
    ASSUME TInv, SelectReceive
    PROVE  \E m \in Metric : \E s \in UNION {[1..k -> Serial] : k \in 1..MaxBatch} :
               Buffer!Accept(m, s)
<1>1. IInv /\ ShapeOK /\ Account /\ InputShort /\ [Next]_vars
  BY DEF TInv, IInv, HandOverOK, Next, Worker
<1>2. PICK a, m : a = Head(inputChan) /\ m = MetricOf(a)
  OBVIOUS
<1>3. a \in Elems(inputChan) /\ a \in Addr /\ m \in Metric /\ a \in LiveAddrs
  <2>1. a \in Elems(inputChan) /\ a \in Addr
    BY <1>1, <1>2, ElemsTail DEF SelectReceive, ShapeOK
  <2> QED BY <1>2, <2>1 DEF MetricOf, Addr, Point, LiveAddrs
<1>4. obj[a] \in UNION {[1..k -> Serial] : k \in 1..MaxBatch}
  <2>1. obj[a] \in Seq(Serial) /\ obj[a] # Empty /\ Len(obj[a]) <= MaxBatch
    BY <1>1, <1>3, ObjectType DEF Account, ObjectsOK, InputShort
  <2>2. Len(obj[a]) \in 1..MaxBatch
    <3>1. Len(obj[a]) \in Nat \ {0}
      BY <2>1, ElemsTail
    <3> QED BY <2>1, <3>1, SerialAssumption
  <2>3. obj[a] \in [1..Len(obj[a]) -> Serial]
    BY <2>1
  <2> QED BY <2>2, <2>3
<1>5. Pending' = Pending /\ Settled' = Settled
  <2>1. UNCHANGED <<values, notConfirmed, written>>
    BY DEF SelectReceive, trackVars, persistVars
  <2> QED BY <1>1, <2>1, PendingKept, SettledKept
<1>6. Buffer!PointsIn(m, obj[a]) \cap Buffer!Known = {}
  <2>1. Buffer!PointsIn(m, obj[a]) = PointsOf(a)
    BY <1>2 DEF Buffer!PointsIn, PointsOf, Elems
  <2>2. PointsOf(a) \cap accepted = {}
    BY <1>1, <1>3 DEF Account, InputOK, Elems
  <2> QED BY <2>1, <2>2, KnownAccepted
<1>7. Buffered' = [Buffered EXCEPT ![m] = @ \o obj[a]]
  <2>1. data \in [Metric -> Addr \cup {Nil}] /\ obj \in [Addr -> Seq(Serial)] /\ obj[a] \in Seq(Serial)
        /\ Nil \notin Addr
    BY <1>1, <1>3, NilAssumption DEF ShapeOK
  <2>2. \A n \in Metric : data[n] # Nil => MetricOf(data[n]) = n
    BY <1>1 DEF Account, MapOK
  <2>3. Buffered' = [n \in Metric |-> IF data'[n] = Nil THEN Empty ELSE obj'[data'[n]]]
    BY DEF Buffered
  <2>4. CASE data[m] = Nil
    <3>1. data' = [data EXCEPT ![m] = a] /\ obj' = obj
      BY <1>2, <2>4 DEF SelectReceive, Add
    <3>2. Empty \o obj[a] = obj[a]
      BY <2>1 DEF Empty
    <3>3. \A n \in Metric : (IF data'[n] = Nil THEN Empty ELSE obj'[data'[n]]) =
              IF n = m THEN Buffered[m] \o obj[a] ELSE Buffered[n]
      BY <1>3, <2>1, <2>4, <3>1, <3>2 DEF Buffered
    <3> QED BY <1>3, <2>3, <3>3 DEF Buffered
  <2>5. CASE data[m] # Nil
    <3>1. data' = data /\ obj' = [obj EXCEPT ![data[m]] = @ \o obj[a]]
      BY <1>2, <2>5 DEF SelectReceive, Add
    <3>2. obj'[data[m]] = obj[data[m]] \o obj[a] /\ \A b \in Addr : b # data[m] => obj'[b] = obj[b]
      BY <1>3, <2>1, <2>5, <3>1
    <3>3. \A n \in Metric : n # m /\ data[n] # Nil => data[n] \in Addr /\ data[n] # data[m]
      BY <1>3, <2>1, <2>2, <2>5
    <3>4. \A n \in Metric : (IF data'[n] = Nil THEN Empty ELSE obj'[data'[n]]) =
              IF n = m THEN Buffered[m] \o obj[a] ELSE Buffered[n]
      BY <1>3, <2>5, <3>1, <3>2, <3>3 DEF Buffered
    <3> QED BY <1>3, <2>3, <3>4 DEF Buffered
  <2> QED BY <2>4, <2>5
<1>8. PICK s : s = obj[a]
  OBVIOUS
<1>9. Buffer!Accept(m, s)
  BY <1>5, <1>6, <1>7, <1>8 DEF Buffer!Accept, Buffered, Pending, Settled
<1> QED BY <1>3, <1>4, <1>8, <1>9

\* Pop flushes a metric's buffer as one batch.
LEMMA PopFlushes ==
    ASSUME TInv, NEW q \in Seq(Addr), q # Empty, PopFrom(q), values = Nil,
           \A i \in 1..Len(q) : data[MetricOf(q[i])] = q[i],
           UNCHANGED <<obj, notConfirmed, written>>
    PROVE  \E m \in Metric : Buffer!Flush(m)
<1>1. IInv /\ ShapeOK /\ Account
  BY DEF TInv, IInv
<1>2. PICK a, m : a = q[Len(q)] /\ m = MetricOf(a)
  OBVIOUS
<1>3. a \in Addr /\ m \in Metric /\ data[m] = a /\ a \in LiveAddrs /\ Nil \notin Addr
  <2>1. Len(q) \in Nat \ {0}
    BY DEF Empty
  <2>2. a \in Addr /\ data[m] = a
    BY <1>2, <2>1
  <2>3. m \in Metric
    BY <1>2, <2>2 DEF MetricOf, Addr, Point
  <2> QED BY <2>2, <2>3, NilAssumption DEF LiveAddrs, CachedAddrs
<1>4. /\ values' = a /\ data' = [data EXCEPT ![m] = Nil]
      /\ UNCHANGED <<obj, notConfirmed, written>>
  BY <1>2 DEF PopFrom, Last1, Remove
<1>5. Buffered[m] = obj[a] /\ obj[a] # Empty /\ obj[a] \in Seq(Serial)
  BY <1>1, <1>3, ObjectType DEF Buffered, Account, ObjectsOK
<1>6. Buffered' = [Buffered EXCEPT ![m] = Empty]
  <2>1. data \in [Metric -> Addr \cup {Nil}]
    BY <1>1 DEF ShapeOK
  <2> QED BY <1>3, <1>4, <2>1 DEF Buffered
<1>7. Settled' = Settled
  <2>1. InFlightAddrs' = InFlightAddrs /\ \A b : PointsOf(b)' = PointsOf(b)
    BY <1>4 DEF InFlightAddrs, PointsOf, Elems, MetricOf
  <2> QED BY <1>4, <2>1 DEF Settled, PointsAt
<1>8. Pending' = [Pending EXCEPT ![m] = Append(@, obj[a])]
  <2>1. \A n \in Metric : notConfirmed[n] \in Seq(Addr)
    BY <1>1 DEF ShapeOK
  <2>2. \A n \in Metric : Pending[n] = Contents(notConfirmed[n])
    <3>1. \A n \in Metric : notConfirmed[n] \o Empty = notConfirmed[n]
      BY <2>1 DEF Empty
    <3> QED BY <3>1 DEF Pending
  <2>3. Pending' = [n \in Metric |-> Contents(notConfirmed[n] \o
                       (IF MetricOf(a) = n THEN <<a>> ELSE Empty))]
    BY <1>3, <1>4 DEF Pending, Contents, MetricOf
  <2>4. \A n \in Metric : n # m => Pending'[n] = Pending[n]
    <3>1. \A n \in Metric : notConfirmed[n] \o Empty = notConfirmed[n]
      BY <2>1 DEF Empty
    <3> QED BY <1>2, <2>2, <2>3, <3>1
  <2>5. Pending'[m] = Append(Pending[m], obj[a])
    <3>1. PICK s : s = notConfirmed[m]
      OBVIOUS
    <3>2. s \in Seq(Addr) /\ s \o <<a>> \in Seq(Addr) /\ Len(s \o <<a>>) = Len(s) + 1
          /\ (s \o <<a>>)[Len(s) + 1] = a /\ \A i \in 1..Len(s) : (s \o <<a>>)[i] = s[i]
      BY <1>3, <2>1, <3>1
    <3>3. /\ Contents(s) \in Seq(Seq(Serial)) /\ Len(Contents(s)) = Len(s)
          /\ \A i \in 1..Len(s) : Contents(s)[i] = obj[s[i]]
      BY <1>1, <3>2, ContentsType
    <3>4. /\ Contents(s \o <<a>>) \in Seq(Seq(Serial)) /\ Len(Contents(s \o <<a>>)) = Len(s) + 1
          /\ \A i \in 1..(Len(s) + 1) : Contents(s \o <<a>>)[i] = obj[(s \o <<a>>)[i]]
      BY <1>1, <3>2, ContentsType
    <3>5. PICK c, d : c = Contents(s) /\ d = Contents(s \o <<a>>)
      OBVIOUS
    <3>6. /\ Append(c, obj[a]) \in Seq(Seq(Serial)) /\ Len(Append(c, obj[a])) = Len(c) + 1
          /\ Append(c, obj[a])[Len(c) + 1] = obj[a]
          /\ \A i \in 1..Len(c) : Append(c, obj[a])[i] = c[i]
      BY <1>5, <3>3, <3>5
    <3>7. Len(s) \in Nat /\ \A i \in 1..(Len(s) + 1) : i \in 1..Len(s) \/ i = Len(s) + 1
      BY <3>2
    <3>8. \A i \in 1..(Len(s) + 1) : d[i] = Append(c, obj[a])[i]
      BY <3>2, <3>3, <3>4, <3>5, <3>6, <3>7, ZenonT(40)
    <3>9. d = Append(c, obj[a])
      BY <3>3, <3>4, <3>5, <3>6, <3>8, SeqEqual
    <3>10. Pending'[m] = d /\ Pending[m] = c
      BY <1>2, <1>3, <2>2, <2>3, <3>1, <3>5
    <3> QED BY <3>9, <3>10
  <2> QED BY <1>3, <2>3, <2>4, <2>5 DEF Pending
<1>9. Buffer!Flush(m)
  BY <1>5, <1>6, <1>7, <1>8 DEF Buffer!Flush, Buffered, Pending, Settled, Empty
<1> QED BY <1>3, <1>9

\* The hand-over to the tracker moves a batch within the pending ones.
LEMMA SendStutters ==
    ASSUME TInv, SelectSend
    PROVE  Buffered' = Buffered /\ Pending' = Pending /\ Settled' = Settled
<1>1. IInv /\ ShapeOK /\ Account
  BY DEF TInv, IInv
<1>2. PICK a, m : a = values /\ m = MetricOf(a)
  OBVIOUS
<1>3. /\ a \in Addr /\ m \in Metric /\ values' = Nil /\ a # Nil
      /\ notConfirmed' = [notConfirmed EXCEPT ![m] = Append(@, a)]
      /\ notConfirmed \in [Metric -> Seq(Addr)]
      /\ UNCHANGED <<obj, data, written>>
  BY <1>1, <1>2 DEF SelectSend, AddNotConfirmed, ShapeOK, MetricOf, Addr, Point, persistVars,
                    storeVars
<1>4. Buffered' = Buffered
  BY <1>3 DEF Buffered
<1>5. /\ notConfirmed'[m] = Append(notConfirmed[m], a)
      /\ \A n \in Metric : n # m => notConfirmed'[n] = notConfirmed[n]
  BY <1>3
<1>6. Pending' = Pending
  <2>1. \A n \in Metric : notConfirmed[n] \in Seq(Addr) /\ notConfirmed'[n] \in Seq(Addr)
    BY <1>3, <1>5
  <2>2. \A n \in Metric : notConfirmed'[n] \o Empty = notConfirmed'[n]
    BY <2>1 DEF Empty
  <2>3. Append(notConfirmed[m], a) = notConfirmed[m] \o <<a>>
    BY <1>3, <2>1
  <2>4. \A n \in Metric : notConfirmed[n] \o (IF MetricOf(a) = n THEN <<a>> ELSE Empty)
                                = notConfirmed'[n]
    BY <1>2, <1>5, <2>2, <2>3
  <2>5. Pending' = [n \in Metric |-> Contents(notConfirmed'[n] \o Empty)]
    BY <1>3 DEF Pending, Contents
  <2>6. Pending = [n \in Metric |-> Contents(notConfirmed[n] \o
                                       (IF MetricOf(a) = n THEN <<a>> ELSE Empty))]
    BY <1>2, <1>3 DEF Pending
  <2> QED BY <2>2, <2>4, <2>5, <2>6
<1>7. Settled' = Settled
  <2>1. \A n \in Metric : Elems(notConfirmed'[n]) =
            Elems(notConfirmed[n]) \cup (IF n = m THEN {a} ELSE {})
    BY <1>3, <1>5, ElemsAppend
  <2>2. InFlightAddrs' = UNION {Elems(notConfirmed'[n]) : n \in Metric}
    BY DEF InFlightAddrs, Elems
  <2>3. m \in Metric
    BY <1>3
  <2>4. InFlightAddrs' = InFlightAddrs \cup {a}
    BY <2>1, <2>2, <2>3 DEF InFlightAddrs
  <2>5. \A b : PointsOf(b)' = PointsOf(b)
    BY <1>3 DEF PointsOf, Elems, MetricOf
  <2>6. PointsOf(a) \cap written = {}
    BY <1>1, <1>2, <1>3 DEF Account, NoLoss, InHand, PointsAt, HeldAddrs
  <2>7. PointsAt(InFlightAddrs)' = PointsAt(InFlightAddrs) \cup PointsOf(a)
    BY <2>4, <2>5 DEF PointsAt
  <2> QED BY <1>3, <2>6, <2>7 DEF Settled
<1> QED BY <1>4, <1>6, <1>7

\* A confirmation on its way to the tracker settles nothing yet.
LEMMA ConfirmStutters ==
    ASSUME TInv, NEW a \in Addr, Confirm(a)
    PROVE  Buffered' = Buffered /\ Pending' = Pending /\ Settled' = Settled
<1>1. UNCHANGED <<obj, data, values, notConfirmed>> /\ a \in taken
      /\ written' = written \cup PointsOf(a)
  BY DEF Confirm, storeVars, workerVars, trackVars
<1>2. Buffered' = Buffered
  BY <1>1 DEF Buffered
<1>3. Pending' = Pending
  BY <1>1 DEF Pending, Contents, MetricOf
<1>4. PointsOf(a) \subseteq PointsAt(InFlightAddrs)
  <2>1. a \in InFlightAddrs
    BY <1>1 DEF TInv, HandOverOK, TrackerExact, BehindAddrs
  <2> QED BY <2>1 DEF PointsAt
<1>5. PointsAt(InFlightAddrs)' = PointsAt(InFlightAddrs)
  <2>1. InFlightAddrs' = InFlightAddrs /\ \A b : PointsOf(b)' = PointsOf(b)
    BY <1>1 DEF InFlightAddrs, PointsOf, Elems, MetricOf
  <2> QED BY <2>1 DEF PointsAt
<1> QED BY <1>1, <1>2, <1>3, <1>4, <1>5 DEF Settled

\* A sequence without its element at i.
Without(s, i) == SubSeq(s, 1, i - 1) \o SubSeq(s, i + 1, Len(s))

\* u is w without its element at i, place by place.
Lacks(u, w, i) ==
    /\ Len(u) = Len(w) - 1
    /\ \A j \in 1..(Len(w) - 1) : u[j] = IF j < i THEN w[j] ELSE w[j + 1]

\* An element taken out of a sequence that others are put behind.
LEMMA RemoveConcat ==
    ASSUME NEW S, NEW s \in Seq(S), NEW t \in Seq(S), NEW i \in 1..Len(s)
    PROVE  /\ Without(s, i) \in Seq(S) /\ s \o t \in Seq(S) /\ Without(s, i) \o t \in Seq(S)
           /\ Len(s \o t) = Len(s) + Len(t) /\ (s \o t)[i] = s[i]
           /\ Lacks(Without(s, i) \o t, s \o t, i)
<1>1. PICK front, back : front = SubSeq(s, 1, i - 1) /\ back = SubSeq(s, i + 1, Len(s))
  OBVIOUS
<1>2. Len(s) \in Nat /\ Len(t) \in Nat /\ i \in Nat /\ 1 <= i /\ i <= Len(s)
  OBVIOUS
<1>3. /\ front \in Seq(S) /\ Len(front) = i - 1
      /\ \A j \in 1..(i - 1) : front[j] = s[j]
  BY <1>1
<1>4. /\ back \in Seq(S) /\ Len(back) = Len(s) - i
      /\ \A j \in 1..(Len(s) - i) : back[j] = s[i + j]
  BY <1>1
<1>5. PICK r, w, u : r = front \o back /\ w = s \o t /\ u = r \o t
  OBVIOUS
<1>6. /\ r \in Seq(S) /\ Len(r) = Len(front) + Len(back)
      /\ \A j \in 1..(Len(front) + Len(back)) :
            r[j] = IF j <= Len(front) THEN front[j] ELSE back[j - Len(front)]
  BY <1>3, <1>4, <1>5, Concat
<1>7. /\ w \in Seq(S) /\ Len(w) = Len(s) + Len(t)
      /\ \A j \in 1..(Len(s) + Len(t)) : w[j] = IF j <= Len(s) THEN s[j] ELSE t[j - Len(s)]
  BY <1>5, Concat
<1>8. /\ u \in Seq(S) /\ Len(u) = Len(r) + Len(t)
      /\ \A j \in 1..(Len(r) + Len(t)) : u[j] = IF j <= Len(r) THEN r[j] ELSE t[j - Len(r)]
  BY <1>5, <1>6, Concat
<1>9. Len(front) = i - 1 /\ Len(back) = Len(s) - i /\ Len(r) = Len(s) - 1
      /\ Len(u) = Len(s) + Len(t) - 1
  BY <1>2, <1>3, <1>4, <1>6, <1>8
<1>10. ASSUME NEW j \in 1..(Len(s) + Len(t) - 1) PROVE u[j] = IF j < i THEN w[j] ELSE w[j + 1]
  <2>1. CASE j < i
    <3>1. j \in 1..(i - 1) /\ j <= Len(r) /\ j \in 1..(Len(r) + Len(t)) /\ j <= Len(s)
          /\ j \in 1..(Len(front) + Len(back)) /\ j <= Len(front) /\ j \in 1..(Len(s) + Len(t))
      BY <1>2, <1>9, <2>1
    <3> QED BY <1>3, <1>6, <1>7, <1>8, <2>1, <3>1
  <2>2. CASE ~(j < i) /\ j <= Len(s) - 1
    <3>1. /\ j <= Len(r) /\ j \in 1..(Len(r) + Len(t)) /\ j + 1 <= Len(s)
          /\ j \in 1..(Len(front) + Len(back)) /\ ~(j <= Len(front))
          /\ j + 1 \in 1..(Len(s) + Len(t))
          /\ j - (i - 1) \in 1..(Len(s) - i) /\ i + (j - (i - 1)) = j + 1
      BY <1>2, <1>9, <2>2
    <3>2. u[j] = back[j - (i - 1)]
      BY <1>6, <1>8, <1>9, <3>1
    <3> QED BY <1>4, <1>7, <2>2, <3>1, <3>2
  <2>3. CASE ~(j <= Len(s) - 1)
    <3>1. /\ ~(j <= Len(r)) /\ j \in 1..(Len(r) + Len(t)) /\ ~(j + 1 <= Len(s))
          /\ j + 1 \in 1..(Len(s) + Len(t)) /\ ~(j < i)
          /\ j - (Len(s) - 1) = (j + 1) - Len(s)
      BY <1>2, <1>9, <2>3
    <3>2. u[j] = t[j - (Len(s) - 1)]
      BY <1>8, <1>9, <3>1
    <3>3. w[j + 1] = t[(j + 1) - Len(s)]
      BY <1>7, <3>1
    <3> QED BY <3>1, <3>2, <3>3
  <2> QED BY <2>1, <2>2, <2>3
<1>11. w[i] = s[i]
  <2>1. i \in 1..(Len(s) + Len(t))
    BY <1>2
  <2> QED BY <1>2, <1>7, <2>1
<1>12. r = Without(s, i)
  BY <1>1, <1>5 DEF Without
<1>13. Lacks(u, w, i)
  BY <1>2, <1>7, <1>9, <1>10 DEF Lacks
<1> QED BY <1>5, <1>6, <1>7, <1>8, <1>11, <1>12, <1>13, Zenon

\* Taking a batch out of a list takes its contents out of the list of contents.
LEMMA RemoveContents ==
    ASSUME ShapeOK, NEW s \in Seq(Addr), NEW t \in Seq(Addr), NEW i \in 1..Len(s)
    PROVE  LET P == Contents(s \o t)
           IN  /\ Contents(Without(s, i) \o t) = Without(P, i)
               /\ i \in 1..Len(P) /\ P[i] = obj[s[i]]
<1>1. PICK w, u : w = s \o t /\ u = Without(s, i) \o t
  OBVIOUS
<1>2. /\ w \in Seq(Addr) /\ u \in Seq(Addr)
      /\ Len(w) = Len(s) + Len(t) /\ Lacks(u, w, i) /\ w[i] = s[i]
  BY <1>1, RemoveConcat
<1>3. Len(s) \in Nat /\ Len(t) \in Nat /\ i \in Nat /\ 1 <= i /\ i <= Len(s)
  OBVIOUS
<1>4. PICK P, Q : P = Contents(w) /\ Q = Contents(u)
  OBVIOUS
<1>5. /\ P \in Seq(Seq(Serial)) /\ Len(P) = Len(w) /\ \A j \in 1..Len(w) : P[j] = obj[w[j]]
      /\ Q \in Seq(Seq(Serial)) /\ Len(Q) = Len(u) /\ \A j \in 1..Len(u) : Q[j] = obj[u[j]]
  BY <1>2, <1>4, ContentsType
<1>6. i \in 1..Len(w) /\ i \in 1..Len(P)
  BY <1>2, <1>3, <1>5
<1>7. PICK R : R = Without(P, i)
  OBVIOUS
<1>8. R \in Seq(Seq(Serial)) /\ Lacks(R, P, i)
  <2>1. Empty \in Seq(Seq(Serial))
    BY DEF Empty
  <2>2. R \in Seq(Seq(Serial)) /\ Lacks(R \o Empty, P \o Empty, i)
    BY <1>5, <1>6, <1>7, <2>1, RemoveConcat
  <2>3. R \o Empty = R /\ P \o Empty = P
    BY <1>5, <2>2 DEF Empty
  <2> QED BY <2>2, <2>3
<1>9. Len(Q) = Len(R) /\ \A j \in 1..Len(Q) : Q[j] = R[j]
  <2>1. Len(Q) = Len(w) - 1 /\ Len(R) = Len(w) - 1 /\ Len(w) \in Nat /\ Len(u) = Len(w) - 1
    BY <1>2, <1>3, <1>5, <1>8 DEF Lacks
  <2>2. ASSUME NEW j \in 1..Len(Q) PROVE Q[j] = R[j]
    <3>1. j \in 1..(Len(w) - 1) /\ j \in 1..Len(w) /\ j + 1 \in 1..Len(w) /\ j \in 1..Len(u)
      BY <2>1
    <3>2. CASE j < i
      BY <1>2, <1>5, <1>8, <3>1, <3>2, ZenonT(40) DEF Lacks
    <3>3. CASE ~(j < i)
      BY <1>2, <1>5, <1>8, <3>1, <3>3 DEF Lacks
    <3> QED BY <3>2, <3>3
  <2> QED BY <2>1, <2>2
<1>10. Q = R
  <2>1. Q \in Seq(Seq(Serial)) /\ R \in Seq(Seq(Serial))
    BY <1>5, <1>8
  <2> QED BY <1>9, <2>1, SeqEqual, Zenon
<1>11. P[i] = obj[s[i]]
  BY <1>2, <1>5, <1>6
<1> QED BY <1>1, <1>4, <1>6, <1>7, <1>10, <1>11

\* The tracker's confirm settles the batch, wherever it stands in the list.
LEMMA ConfirmSettles ==
    ASSUME TInv, TrackerConfirm
    PROVE  \E m \in Metric : \E i \in 1..Len(Pending[m]) : Buffer!Settle(m, i)
<1>1. IInv /\ ShapeOK /\ Account /\ HandOverOK
  BY DEF TInv, IInv
<1>2. PICK a, m : a = Head(confirmChan) /\ m = MetricOf(a)
  OBVIOUS
<1>3. /\ confirmChan \in Seq(Addr) /\ confirmChan # Empty
      /\ notConfirmed' = [notConfirmed EXCEPT ![m] = Forget(@, a)]
      /\ notConfirmed \in [Metric -> Seq(Addr)]
      /\ UNCHANGED <<obj, data, values, written>>
  BY <1>1, <1>2 DEF TrackerConfirm, ShapeOK, unchangedByTracker, storeVars, workerVars
<1>4. a \in Elems(confirmChan) /\ a \in InFlightAddrs /\ PointsOf(a) \subseteq written
  <2>1. a \in Elems(confirmChan)
    BY <1>2, <1>3, ElemsTail
  <2> QED BY <1>1, <2>1 DEF HandOverOK, TrackerExact, BehindAddrs, Account, BehindOK, PointsAt
<1>5. m \in Metric /\ a \in Elems(notConfirmed[m])
  BY <1>1, <1>2, <1>4 DEF InFlightAddrs, HandOverOK, FiledOK
<1>6. PICK s, h : s = notConfirmed[m] /\ h = HandOf(m)
  OBVIOUS
<1>7. PICK i \in 1..Len(s) : s[i] = a
  BY <1>5, <1>6 DEF Elems
<1>8. /\ s \in Seq(Addr) /\ h \in Seq(Addr) /\ Once(s)
      /\ \A n \in Metric : notConfirmed[n] \in Seq(Addr) /\ Once(notConfirmed[n])
  BY <1>1, <1>3, <1>5, <1>6, PendingType DEF HandOverOK, TrackerExact, Once
<1>9. /\ notConfirmed'[m] = Without(s, i)
      /\ \A n \in Metric : n # m => notConfirmed'[n] = notConfirmed[n]
  <2>1. Forget(s, a) = Without(s, i)
    BY <1>7, <1>8, ForgetOnce DEF Without
  <2> QED BY <1>3, <1>5, <1>6, <2>1
<1>10. PICK P : P = Pending[m]
  OBVIOUS
<1>11. P = Contents(s \o h)
  BY <1>5, <1>6, <1>10, PendingType DEF PendingOf
<1>12. Pending' = [Pending EXCEPT ![m] = Without(P, i)]
       /\ i \in 1..Len(P) /\ P[i] = obj[a]
  <2>1. /\ Contents(notConfirmed'[m] \o h) = Without(P, i)
        /\ i \in 1..Len(P) /\ P[i] = obj[a]
    BY <1>1, <1>7, <1>8, <1>9, <1>11, RemoveContents
  <2>2. Pending' = [n \in Metric |-> Contents(notConfirmed'[n] \o HandOf(n))]
    BY <1>3 DEF Pending, Contents, HandOf, MetricOf
  <2>3. Pending = [n \in Metric |-> Contents(notConfirmed[n] \o HandOf(n))]
    BY DEF Pending, HandOf
  <2>4. \A n \in Metric : n # m => Pending'[n] = Pending[n]
    BY <1>9, <2>2, <2>3
  <2>5. Pending'[m] = Contents(notConfirmed'[m] \o h)
    BY <1>5, <1>6, <2>2
  <2> QED BY <1>5, <2>1, <2>2, <2>3, <2>4, <2>5
<1>13. Buffered' = Buffered
  BY <1>3 DEF Buffered
<1>14. Settled' = Settled \cup PointsOf(a)
  <2>3. InFlightAddrs' = InFlightAddrs \ {a}
    BY <1>2, ForgetInFlight
  <2>4. \A b : PointsOf(b)' = PointsOf(b)
    BY <1>3 DEF PointsOf, Elems, MetricOf
  <2>5. PointsAt(InFlightAddrs)' = PointsAt(InFlightAddrs) \ PointsOf(a)
    <3>1. \A b \in InFlightAddrs : b # a => PointsOf(b) \cap PointsOf(a) = {}
      BY <1>1, <1>4 DEF HandOverOK, InFlightApart
    <3> QED BY <1>4, <2>3, <2>4, <3>1 DEF PointsAt
  <2> QED BY <1>3, <1>4, <2>5 DEF Settled
<1>15. Buffer!PointsIn(m, P[i]) = PointsOf(a)
  BY <1>2, <1>12 DEF Buffer!PointsIn, PointsOf, Elems
<1>16. Buffer!Settle(m, i)
  BY <1>10, <1>12, <1>13, <1>14, <1>15 DEF Buffer!Settle, Buffered, Pending, Settled, Without
<1> QED BY <1>5, <1>10, <1>12, <1>16

(***************************************************************************)
(* The theorem.                                                            *)
(***************************************************************************)
\* A new cache is an empty buffer.
LEMMA InitBuffer == Init => Buffer!Init
<1> SUFFICES ASSUME Init PROVE Buffer!Init
  OBVIOUS
<1>1. \A m \in Metric : notConfirmed[m] \o Empty = Empty /\ Contents(Empty) = Empty
  BY DEF Init, Contents, Empty
<1>2. Pending = [m \in Metric |-> Empty]
  BY <1>1 DEF Init, Pending
<1>3. Buffered = [m \in Metric |-> Empty] /\ Settled = {}
  BY DEF Init, Buffered, Settled
<1> QED BY <1>2, <1>3 DEF Buffer!Init, Buffered, Pending, Settled, Empty

\* Every step of the cache is a step of the buffer or leaves it alone.
LEMMA BufferStep == TInv /\ [Next]_vars => [Buffer!Next]_(Buffer!vars)
<1> SUFFICES ASSUME TInv, [Next]_vars PROVE [Buffer!Next]_(Buffer!vars)
  OBVIOUS
<1>1. IInv /\ ShapeOK /\ Account
  BY DEF TInv, IInv
<1>2. ASSUME Buffered' = Buffered, Pending' = Pending, Settled' = Settled
      PROVE  UNCHANGED Buffer!vars
  BY <1>2 DEF Buffer!vars, Buffered, Pending, Settled
<1>3. ASSUME UNCHANGED <<data, obj, values, notConfirmed, written>>
      PROVE  Buffered' = Buffered /\ Pending' = Pending /\ Settled' = Settled
  BY <1>3, BufferedKept, PendingKept, SettledKept
<1>4. CASE LoopPopQueued \/ LoopRebuild
  <2>1. PICK q \in Seq(Addr) : /\ q # Empty /\ PopFrom(q)
                               /\ \A i \in 1..Len(q) : data[MetricOf(q[i])] = q[i]
    <3>1. CASE LoopPopQueued
      BY <1>1, <3>1 DEF LoopPopQueued, ShapeOK, Account, QueueFresh
    <3>2. CASE LoopRebuild
      BY <1>1, <3>2, RebuiltQueue DEF LoopRebuild, Account
    <3> QED BY <1>4, <3>1, <3>2
  <2>2. values = Nil /\ UNCHANGED <<obj, notConfirmed, written>>
    BY <1>4 DEF LoopPopQueued, LoopRebuild, unchangedByLoop, trackVars, persistVars
  <2>3. \E m \in Metric : Buffer!Flush(m)
    BY <2>1, <2>2, PopFlushes
  <2> QED BY <2>3 DEF Buffer!Next
<1>5. CASE SelectReceive
  BY <1>5, ReceiveAccepts DEF Buffer!Next
<1>6. CASE TrackerConfirm
  <2>1. \E m \in Metric : \E i \in 1..Len(Pending[m]) : Buffer!Settle(m, i)
    BY <1>6, ConfirmSettles
  <2> QED BY <2>1 DEF Buffer!Next, Pending
<1>7. CASE SelectSend
  BY <1>2, <1>7, SendStutters
<1>8. ASSUME NEW a \in Addr, Confirm(a) PROVE UNCHANGED Buffer!vars
  BY <1>2, <1>8, ConfirmStutters
<1>9. ASSUME NEW m \in Metric, NEW k \in 1..MaxBatch, Receive(m, k) PROVE UNCHANGED Buffer!vars
  BY <1>2, <1>9, ReceiveStutters
<1>10. \/ UNCHANGED <<data, obj, values, notConfirmed, written>>
       \/ LoopPopQueued \/ LoopRebuild \/ SelectReceive \/ TrackerConfirm \/ SelectSend
       \/ \E a \in Addr : Confirm(a)
       \/ \E m \in Metric, k \in 1..MaxBatch : Receive(m, k)
  BY DEF Next, Worker, Tracker, Environment, LoopKeep, LoopEmpty, SelectQuery, ForwardQuery,
         SelectOverflow, SelectExit, TrackerSend, TrackerQuery, TrackerExit, Ask, Take, Stop, vars,
         unchangedByLoop, unchangedByTracker, storeVars, workerVars, trackVars, persistVars
<1> QED BY <1>2, <1>3, <1>4, <1>5, <1>6, <1>7, <1>8, <1>9, <1>10

\* The cache implements the write-behind buffer, for all constants: Add accepts
\* a whole message once, Pop flushes a metric as one batch in arrival order,
\* and a batch is forgotten exactly when its confirmation has been read.
THEOREM Refinement == Spec => IsWriteBehind
<1> QED BY HandOverInvariance, InitBuffer, BufferStep, PTL
        DEF Spec, IsWriteBehind, Buffer!Spec

(***************************************************************************)
(* The write-out does not starve a metric.                                 *)
(***************************************************************************)
\* The metrics of a write-out queue.
MetricsOf(q) == {MetricOf(q[i]) : i \in 1..Len(q)}

\* A metric outside the queue has been passed over at most once, by a metric
\* that the queue had when it came; the rebuilt queue has it and lets every
\* other metric pass once more.
BypassOK ==
    /\ bypass \in [Metric -> [Metric -> Nat]]
    /\ \A m, n \in Metric :
           /\ data[m] = Nil => bypass[m][n] = 0
           /\ bypass[m][n] <= (IF m \in MetricsOf(queue) THEN 1 ELSE 0)
                              + (IF n \in MetricsOf(queue) THEN 0 ELSE 1)

\* A rebuilt queue has every metric of the map.
LEMMA RebuiltComplete ==
    ASSUME ShapeOK, MapOK, NEW q \in updateQueue
    PROVE  MetricsOf(q) = {m \in Metric : data[m] # Nil}
<1> DEFINE n == Cardinality(CachedAddrs)
<1>1. n \in Nat /\ IsFiniteSet(CachedAddrs) /\ CachedAddrs \subseteq Addr
  BY CachedFinite
<1>2. q \in [1..n -> CachedAddrs] /\ \A i, j \in 1..n : i < j => q[i] # q[j]
  BY DEF updateQueue
<1> HIDE DEF n
<1>3. IsFiniteSet(1..n) /\ Cardinality(1..n) = n
  BY <1>1, FS_Interval
<1>4. q \in Injection(1..n, CachedAddrs)
  BY <1>1, <1>2 DEF Injection, IsInjective
<1>5. q \in Surjection(1..n, CachedAddrs)
  BY <1>1, <1>3, <1>4, FS_Injection DEF n
<1>6. \A a \in CachedAddrs : \E i \in 1..n : q[i] = a
  BY <1>5 DEF Surjection
<1>7. Len(q) = n
  BY <1>1, <1>2
<1>8. MetricsOf(q) = {MetricOf(a) : a \in CachedAddrs}
  BY <1>2, <1>6, <1>7 DEF MetricsOf
<1>9. \A m \in Metric : data[m] # Nil => data[m] \in CachedAddrs /\ MetricOf(data[m]) = m
  BY DEF CachedAddrs, MapOK
<1>10. \A a \in CachedAddrs : MetricOf(a) \in Metric /\ data[MetricOf(a)] = a /\ a # Nil
  BY DEF CachedAddrs, MapOK
<1> QED BY <1>8, <1>9, <1>10

\* A pop takes one metric out of the map and out of the queue.
LEMMA PopMetric ==
    ASSUME ShapeOK, NEW q \in Seq(Addr), q # Empty, PopFrom(q),
           \A i \in 1..Len(q) : data[MetricOf(q[i])] = q[i],
           \A i, j \in 1..Len(q) : q[i] = q[j] => i = j
    PROVE  \E k \in Metric : /\ k \in MetricsOf(q) /\ data[k] # Nil
                             /\ data' = [data EXCEPT ![k] = Nil]
                             /\ MetricsOf(queue') = MetricsOf(q) \ {k}
<1>1. PICK a, k : a = q[Len(q)] /\ k = MetricOf(a)
  OBVIOUS
<1>2. Len(q) \in Nat \ {0} /\ Len(q) \in 1..Len(q)
  BY DEF Empty
<1>3. a \in Addr /\ data[k] = a
  BY <1>1, <1>2
<1>4. k \in Metric /\ data[k] # Nil
  BY <1>1, <1>3, NilAssumption DEF MetricOf, Addr, Point
<1>5. data' = [data EXCEPT ![k] = Nil] /\ queue' = Front1(q)
  BY <1>1 DEF PopFrom, Remove, Last1
<1>6. /\ Len(queue') = Len(q) - 1
      /\ \A i \in 1..Len(queue') : queue'[i] = q[i] /\ i \in 1..Len(q) /\ i # Len(q)
  BY <1>5, Front
<1>7. \A i \in 1..Len(q) : MetricOf(q[i]) = k => i = Len(q)
  BY <1>1, <1>2
<1>8. \A i \in 1..Len(q) : i # Len(q) => i \in 1..Len(queue')
  BY <1>2, <1>6
<1>9. MetricsOf(queue') = MetricsOf(q) \ {k}
  <2>1. ASSUME NEW m \in MetricsOf(queue') PROVE m \in MetricsOf(q) /\ m # k
    BY <1>6, <1>7 DEF MetricsOf
  <2>2. ASSUME NEW m \in MetricsOf(q), m # k PROVE m \in MetricsOf(queue')
    <3>1. PICK i \in 1..Len(q) : m = MetricOf(q[i])
      BY DEF MetricsOf
    <3>2. i # Len(q)
      BY <1>1, <2>2, <3>1
    <3> QED BY <1>6, <1>8, <3>1, <3>2 DEF MetricsOf
  <2> QED BY <2>1, <2>2
<1>10. k \in MetricsOf(q)
  BY <1>1, <1>2 DEF MetricsOf
<1> QED BY <1>4, <1>5, <1>9, <1>10

\* What a step does to the map and the queue: it may add a metric to the map, or
\* pop one, from the queue or from a rebuilt one.
LEMMA WriteoutStep ==
    ASSUME IInv, [Next]_vars
    PROVE  \/ /\ UNCHANGED queue
              /\ \A m \in Metric : data'[m] = data[m] \/ (data[m] = Nil /\ data'[m] # Nil)
           \/ \E k \in Metric, M \in SUBSET Metric :
                 /\ data[k] # Nil /\ data' = [data EXCEPT ![k] = Nil]
                 /\ k \in M /\ MetricsOf(queue') = M \ {k}
                 /\ \/ M = MetricsOf(queue)
                    \/ MetricsOf(queue) = {} /\ M = {m \in Metric : data[m] # Nil}
<1>1. ShapeOK /\ Account /\ MapOK /\ SizeExact /\ QueueFresh /\ queue \in Seq(Addr)
  BY DEF IInv, Account, ShapeOK
<1>2. CASE UNCHANGED <<queue, data>>
  BY <1>2
<1>3. CASE SelectReceive
  <2>1. PICK a : a = Head(inputChan)
    OBVIOUS
  <2>2. a \in Addr
    BY <1>1, <1>3, <2>1, ElemsTail DEF SelectReceive, ShapeOK
  <2>3. UNCHANGED queue /\ (UNCHANGED data \/ (data[MetricOf(a)] = Nil /\ data' = [data EXCEPT ![MetricOf(a)] = a]))
    BY <1>3, <2>1 DEF SelectReceive, Add
  <2>4. data \in [Metric -> Addr \cup {Nil}] /\ MetricOf(a) \in Metric /\ a # Nil
    BY <1>1, <2>2, NilAssumption DEF ShapeOK, MetricOf, Addr, Point
  <2> QED BY <2>3, <2>4
<1>4. CASE LoopPopQueued
  <2>1. queue # Empty /\ PopFrom(queue)
    BY <1>4 DEF LoopPopQueued
  <2>2. MetricsOf(queue) \in SUBSET Metric
    BY <1>1 DEF MetricsOf, MetricOf, Addr, Point
  <2>3. \E k \in Metric : /\ k \in MetricsOf(queue) /\ data[k] # Nil
                          /\ data' = [data EXCEPT ![k] = Nil]
                          /\ MetricsOf(queue') = MetricsOf(queue) \ {k}
    BY <1>1, <2>1, PopMetric DEF QueueFresh
  <2> QED BY <2>2, <2>3
<1>5. CASE LoopRebuild
  <2>1. PICK q \in updateQueue : PopFrom(q)
    BY <1>5 DEF LoopRebuild
  <2>2. size # 0 /\ queue = Empty
    BY <1>5 DEF LoopRebuild
  <2>3. /\ q \in Seq(Addr) /\ q # Empty
        /\ \A i \in 1..Len(q) : data[MetricOf(q[i])] = q[i]
        /\ \A i, j \in 1..Len(q) : q[i] = q[j] => i = j
    BY <1>1, <2>2, RebuiltQueue
  <2>4. MetricsOf(q) = {m \in Metric : data[m] # Nil}
    BY <1>1, RebuiltComplete
  <2>5. \E k \in Metric : /\ k \in MetricsOf(q) /\ data[k] # Nil
                          /\ data' = [data EXCEPT ![k] = Nil]
                          /\ MetricsOf(queue') = MetricsOf(q) \ {k}
    BY <1>1, <2>1, <2>3, PopMetric
  <2>6. MetricsOf(queue) = {}
    BY <2>2 DEF MetricsOf, Empty
  <2>7. MetricsOf(q) \in SUBSET Metric
    BY <2>4
  <2> QED BY <2>4, <2>5, <2>6, <2>7
<1>6. UNCHANGED <<queue, data>> \/ SelectReceive \/ LoopPopQueued \/ LoopRebuild
  BY DEF Next, Worker, Tracker, Environment, LoopKeep, LoopEmpty, SelectQuery, ForwardQuery,
         SelectSend, SelectOverflow, SelectExit, TrackerSend, TrackerConfirm, TrackerQuery,
         TrackerExit, Ask, Receive, Take, Confirm, Stop, vars, unchangedByLoop,
         unchangedByTracker, storeVars, workerVars
<1> QED BY <1>2, <1>3, <1>4, <1>5, <1>6

\* Every step keeps the count of bypasses within what the queue allows.
LEMMA BypassStep ==
    ASSUME IInv, BypassOK, [WriteoutNext]_<<vars, bypass>>
    PROVE  BypassOK'
<1>1. CASE UNCHANGED <<vars, bypass>>
  BY <1>1 DEF vars, storeVars, workerVars, BypassOK, MetricsOf, MetricOf
<1>2. CASE WriteoutNext
  <2>1. /\ [Next]_vars
        /\ bypass' = [m \in Metric |-> [n \in Metric |->
                        IF data[m] = Nil \/ data'[m] = Nil THEN 0
                        ELSE bypass[m][n] + (IF n \in Popped THEN 1 ELSE 0)]]
    BY <1>2 DEF WriteoutNext
  <2>2. \A m, n \in Metric : bypass[m][n] \in Nat
    BY DEF BypassOK
  <2>3. bypass' \in [Metric -> [Metric -> Nat]]
    BY <2>1, <2>2
  <2>4. \A m, n \in Metric : bypass'[m][n] =
            IF data[m] = Nil \/ data'[m] = Nil THEN 0
            ELSE bypass[m][n] + (IF n \in Popped THEN 1 ELSE 0)
    BY <2>1
  <2>5. MetricsOf(queue)' = MetricsOf(queue')
    BY DEF MetricsOf, MetricOf
  <2>6. ASSUME UNCHANGED queue,
               \A m \in Metric : data'[m] = data[m] \/ (data[m] = Nil /\ data'[m] # Nil)
        PROVE  BypassOK'
    <3>1. Popped = {}
      BY <2>6 DEF Popped
    <3>2. \A m, n \in Metric : bypass'[m][n] = bypass[m][n]
      BY <2>2, <2>4, <2>6, <3>1 DEF BypassOK
    <3> QED BY <2>3, <2>5, <2>6, <3>2 DEF BypassOK
  <2>7. ASSUME NEW k \in Metric, NEW M \in SUBSET Metric,
               data[k] # Nil, data' = [data EXCEPT ![k] = Nil],
               k \in M, MetricsOf(queue') = M \ {k},
               \/ M = MetricsOf(queue)
               \/ MetricsOf(queue) = {} /\ M = {m \in Metric : data[m] # Nil}
        PROVE  BypassOK'
    <3>1. \A m \in Metric : data'[m] = IF m = k THEN Nil ELSE data[m]
      BY <2>7 DEF IInv, ShapeOK
    <3>2. Popped = {k}
      BY <2>7, <3>1 DEF Popped
    <3>3. \A m, n \in Metric : bypass'[m][n] =
              IF data[m] = Nil \/ m = k THEN 0 ELSE bypass[m][n] + (IF n = k THEN 1 ELSE 0)
      BY <2>4, <3>1, <3>2
    <3>4. \A m, n \in Metric : data'[m] = Nil => bypass'[m][n] = 0
      BY <3>1, <3>3
    <3>5. ASSUME NEW m \in Metric, NEW n \in Metric
          PROVE  bypass'[m][n] <= (IF m \in MetricsOf(queue') THEN 1 ELSE 0)
                                  + (IF n \in MetricsOf(queue') THEN 0 ELSE 1)
      <4>1. CASE data[m] = Nil \/ m = k
        BY <3>3, <4>1
      <4>2. CASE data[m] # Nil /\ m # k
        <5>1. bypass[m][n] \in Nat /\ bypass'[m][n] = bypass[m][n] + (IF n = k THEN 1 ELSE 0)
          BY <2>2, <3>3, <4>2
        <5>2. bypass[m][n] <= (IF m \in MetricsOf(queue) THEN 1 ELSE 0)
                              + (IF n \in MetricsOf(queue) THEN 0 ELSE 1)
          BY DEF BypassOK
        <5> QED BY <2>7, <4>2, <5>1, <5>2
      <4> QED BY <4>1, <4>2
    <3> QED BY <2>3, <2>5, <3>4, <3>5 DEF BypassOK
  <2> QED BY <2>1, <2>6, <2>7, WriteoutStep
<1> QED BY <1>1, <1>2

\* No metric starves, for any number of metrics, any strategy and any load:
\* the write-out passes over a metric that waits in the map at most twice in
\* favour of any other.
THEOREM NoStarvation == WriteoutSpec => []BoundedBypass
<1>1. WriteoutInit => IInv /\ BypassOK
  <2> SUFFICES ASSUME WriteoutInit PROVE IInv /\ BypassOK
    OBVIOUS
  <2>1. Init /\ bypass = [m \in Metric |-> [n \in Metric |-> 0]]
    BY DEF WriteoutInit
  <2>2. MetricsOf(queue) = {}
    BY <2>1 DEF Init, MetricsOf, Empty
  <2> QED BY <2>1, <2>2, InitInv DEF BypassOK
<1>2. IInv /\ BypassOK /\ [WriteoutNext]_<<vars, bypass>> => IInv' /\ BypassOK'
  <2> SUFFICES ASSUME IInv, BypassOK, [WriteoutNext]_<<vars, bypass>> PROVE IInv' /\ BypassOK'
    OBVIOUS
  <2>1. [Next]_vars
    BY DEF WriteoutNext
  <2> QED BY <2>1, ShapeStep, AccountStep, BypassStep DEF IInv
<1>3. BypassOK => BoundedBypass
  <2> SUFFICES ASSUME BypassOK, NEW m \in Metric, NEW n \in Metric PROVE bypass[m][n] <= 2
    BY DEF BoundedBypass
  <2>1. bypass[m][n] \in Nat
    BY DEF BypassOK
  <2>2. bypass[m][n] <= (IF m \in MetricsOf(queue) THEN 1 ELSE 0)
                        + (IF n \in MetricsOf(queue) THEN 0 ELSE 1)
    BY DEF BypassOK
  <2> QED BY <2>1, <2>2
<1> QED BY <1>1, <1>2, <1>3, PTL DEF WriteoutSpec
=============================================================================

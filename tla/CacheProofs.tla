---------------------------- MODULE CacheProofs ----------------------------
(***************************************************************************)
(* Proofs about Cache, for every set of metrics, every capacity, limit and *)
(* strategy: types, the write-out queue, exact accounting and no loss;     *)
(* then the tracker, shared objects and the limit; and last lemmas on the  *)
(* order of points, which every step keeps.                                *)
(***************************************************************************)
EXTENDS Cache, FiniteSetTheorems, TLAPS

(***************************************************************************)
(* Sequences.                                                              *)
(***************************************************************************)
\* The elements of a sequence after a send on the channel it models.
LEMMA ElemsAppend ==
    ASSUME NEW S, NEW s \in Seq(S), NEW x \in S
    PROVE  Elems(Append(s, x)) = Elems(s) \cup {x} /\ Append(s, x) \in Seq(S)
BY DEF Elems

\* The elements of a sequence before a receive from the channel it models.
LEMMA ElemsTail ==
    ASSUME NEW S, NEW s \in Seq(S), s # Empty
    PROVE  /\ Elems(s) = {Head(s)} \cup Elems(Tail(s))
           /\ Head(s) \in S /\ Tail(s) \in Seq(S)
           /\ Head(s) = s[1] /\ Len(s) \in Nat \ {0}
           /\ Len(Tail(s)) = Len(s) - 1
           /\ \A i \in 1..Len(Tail(s)) : i + 1 \in 1..Len(s) /\ Tail(s)[i] = s[i + 1]
<1>1. Len(s) \in Nat \ {0} /\ Head(s) = s[1] /\ Head(s) \in S /\ Tail(s) \in Seq(S)
      /\ Len(Tail(s)) = Len(s) - 1 /\ \A i \in 1..Len(Tail(s)) : Tail(s)[i] = s[i + 1]
  BY DEF Empty
<1>2. \A i \in 1..Len(s) : i = 1 \/ (i - 1 \in 1..Len(Tail(s)) /\ s[i] = Tail(s)[i - 1])
  BY <1>1
<1>3. \A i \in 1..Len(Tail(s)) : i + 1 \in 1..Len(s)
  BY <1>1
<1>4. Elems(s) \subseteq {s[1]} \cup Elems(Tail(s))
  BY <1>1, <1>2 DEF Elems
<1>5. {s[1]} \cup Elems(Tail(s)) \subseteq Elems(s)
  BY <1>1, <1>3 DEF Elems
<1> QED BY <1>1, <1>3, <1>4, <1>5

\* What is left of the write-out queue when its last element is taken.
LEMMA Front ==
    ASSUME NEW S, NEW s \in Seq(S), s # Empty
    PROVE  /\ Front1(s) \in Seq(S) /\ Len(Front1(s)) = Len(s) - 1
           /\ \A i \in 1..Len(Front1(s)) : Front1(s)[i] = s[i] /\ i \in 1..Len(s) /\ i # Len(s)
<1>1. Len(s) \in Nat \ {0}
  BY DEF Empty
<1>2. /\ Front1(s) \in Seq(S) /\ Len(Front1(s)) = Len(s) - 1
      /\ \A i \in 1..(Len(s) - 1) : Front1(s)[i] = s[i]
  <2>1. PICK n \in Nat : n = Len(s) - 1
    BY <1>1
  <2>2. \A i \in 1..n : i \in 1..Len(s) /\ s[i] \in S /\ 1 + i - 1 = i
    BY <1>1, <2>1
  <2>3. Len(SubSeq(s, 1, n)) = n /\ \A i \in 1..n : SubSeq(s, 1, n)[i] = s[i]
    BY <2>2
  <2>4. SubSeq(s, 1, n) \in Seq(S)
    BY <2>2
  <2> QED BY <2>1, <2>3, <2>4 DEF Front1
<1>3. \A i \in 1..(Len(s) - 1) : i \in 1..Len(s) /\ i # Len(s)
  BY <1>1
<1> QED BY <1>2, <1>3

\* The elements of two sequences put together.
LEMMA ElemsConcat ==
    ASSUME NEW S, NEW s \in Seq(S), NEW t \in Seq(S)
    PROVE  Elems(s \o t) = Elems(s) \cup Elems(t) /\ s \o t \in Seq(S)
<1>1. s \o t \in Seq(S) /\ Len(s \o t) = Len(s) + Len(t)
      /\ \A i \in 1..(Len(s) + Len(t)) :
            (s \o t)[i] = IF i <= Len(s) THEN s[i] ELSE t[i - Len(s)]
  OBVIOUS
<1>2. \A i \in 1..Len(t) : Len(s) + i \in 1..(Len(s) + Len(t)) /\ (s \o t)[Len(s) + i] = t[i]
  BY <1>1
<1>3. \A i \in 1..Len(s) : i \in 1..(Len(s) + Len(t)) /\ (s \o t)[i] = s[i]
  BY <1>1
<1>4. Elems(s) \subseteq Elems(s \o t) /\ Elems(t) \subseteq Elems(s \o t)
  <2>1. \A i \in 1..Len(s) : s[i] \in Elems(s \o t)
    BY <1>1, <1>3 DEF Elems
  <2>2. \A i \in 1..Len(t) : t[i] \in Elems(s \o t)
    BY <1>1, <1>2 DEF Elems
  <2> QED BY <2>1, <2>2 DEF Elems
<1>5. ASSUME NEW i \in 1..Len(s \o t) PROVE (s \o t)[i] \in Elems(s) \cup Elems(t)
  <2>1. CASE i <= Len(s)
    BY <2>1, <1>1 DEF Elems
  <2>2. CASE ~(i <= Len(s))
    <3>1. i - Len(s) \in 1..Len(t)
      BY <2>2, <1>1
    <3> QED BY <3>1, <2>2, <1>1 DEF Elems
  <2> QED BY <2>1, <2>2
<1> QED BY <1>1, <1>4, <1>5 DEF Elems

\* Forget drops at most the batch it is asked to drop, and keeps the rest.
LEMMA ForgetElems ==
    ASSUME NEW S, NEW s \in Seq(S), NEW a
    PROVE  /\ Forget(s, a) \in Seq(S)
           /\ Elems(Forget(s, a)) \subseteq Elems(s)
           /\ Elems(s) \ {a} \subseteq Elems(Forget(s, a))
<1>1. CASE ~\E i \in 1..Len(s) : FirstAt(s, a, i)
  BY <1>1 DEF Forget
<1>2. CASE \E i \in 1..Len(s) : FirstAt(s, a, i)
  <2> DEFINE i == CHOOSE i \in 1..Len(s) : FirstAt(s, a, i)
             front == SubSeq(s, 1, i - 1)
             back == SubSeq(s, i + 1, Len(s))
  <2>2. i \in 1..Len(s) /\ s[i] = a
    BY <1>2 DEF FirstAt
  <2> HIDE DEF i
  <2>3. /\ front \in Seq(S) /\ Len(front) = i - 1
        /\ \A j \in 1..(i - 1) : front[j] = s[j]
    BY <2>2
  <2>4. /\ back \in Seq(S) /\ Len(back) = Len(s) - i
        /\ \A j \in 1..(Len(s) - i) : back[j] = s[i + j]
    BY <2>2
  <2>5. Forget(s, a) = front \o back
    BY <1>2 DEF Forget, i
  <2> HIDE DEF front, back
  <2>6. Elems(Forget(s, a)) = Elems(front) \cup Elems(back) /\ Forget(s, a) \in Seq(S)
    BY <2>3, <2>4, <2>5, ElemsConcat
  <2>7. Elems(front) \subseteq Elems(s) /\ Elems(back) \subseteq Elems(s)
    <3>1. \A j \in 1..Len(back) : i + j \in 1..Len(s) /\ back[j] = s[i + j]
      BY <2>2, <2>4
    <3> QED BY <2>2, <2>3, <3>1, SMTT(20) DEF Elems
  <2>8. ASSUME NEW k \in 1..Len(s), s[k] # a PROVE s[k] \in Elems(front) \cup Elems(back)
    <3>1. CASE k < i
      BY <3>1, <2>2, <2>3 DEF Elems
    <3>2. CASE k > i
      <4>1. k - i \in 1..Len(back) /\ back[k - i] = s[k]
        BY <3>2, <2>2, <2>4
      <4> QED BY <4>1 DEF Elems
    <3> QED BY <3>1, <3>2, <2>2, <2>8
  <2>9. Elems(s) \ {a} \subseteq Elems(front) \cup Elems(back)
    BY <2>8 DEF Elems
  <2> QED BY <2>6, <2>7, <2>9
<1> QED BY <1>1, <1>2

(***************************************************************************)
(* The map and the write-out queue.                                        *)
(***************************************************************************)
\* The objects of the map are finitely many.
LEMMA CachedFinite ==
    ASSUME ShapeOK
    PROVE  /\ CachedAddrs \subseteq Addr
           /\ IsFiniteSet(CachedAddrs)
           /\ Cardinality(CachedAddrs) \in Nat
<1> DEFINE T == {data[m] : m \in Metric}
<1>0. data \in Surjection(Metric, T)
  BY DEF ShapeOK, Surjection
<1>1. IsFiniteSet(T)
  BY <1>0, FS_Surjection, FiniteAssumption
<1> QED BY <1>1, FS_Subset, FS_CardinalityType DEF CachedAddrs, ShapeOK

\* What updateQueue builds from a cache that is not empty is a write-out queue
\* that has a last element and whose pointers are those of the map.
LEMMA RebuiltQueue ==
    ASSUME ShapeOK, MapOK, SizeExact, size # 0, NEW q \in updateQueue
    PROVE  /\ q \in Seq(Addr) /\ q # Empty
           /\ \A i \in 1..Len(q) : data[MetricOf(q[i])] = q[i]
           /\ \A i, j \in 1..Len(q) : q[i] = q[j] => i = j
<1> DEFINE n == Cardinality(CachedAddrs)
<1>1. n \in Nat /\ CachedAddrs \subseteq Addr
  BY CachedFinite
<1>2. n # 0
  <2>1. SUFFICES ASSUME n = 0 PROVE FALSE
    OBVIOUS
  <2>2. CachedAddrs = {}
    BY <2>1, CachedFinite, FS_EmptySet
  <2>3. Cached = {}
    BY <2>2 DEF Cached, PointsAt
  <2> QED BY <2>3, FS_EmptySet DEF SizeExact
<1>3. q \in [1..n -> CachedAddrs] /\ \A i, j \in 1..n : i < j => q[i] # q[j]
  BY DEF updateQueue
<1> HIDE DEF n
<1>4. q \in Seq(Addr) /\ Len(q) = n
  BY <1>1, <1>3
<1>5. \A a \in CachedAddrs : data[MetricOf(a)] = a
  BY DEF CachedAddrs, MapOK
<1>6. \A i \in 1..n : q[i] \in CachedAddrs
  BY <1>3
<1>7. \A i, j \in 1..n : q[i] = q[j] => i = j
  BY <1>1, <1>3
<1> QED BY <1>1, <1>2, <1>4, <1>5, <1>6, <1>7 DEF Empty

\* Metrics and serial numbers are finitely many, and so are points.
LEMMA PointFinite == IsFiniteSet(Point)
<1>1. IsFiniteSet(Serial)
  BY FS_Interval, SerialAssumption DEF Serial
<1> QED BY <1>1, FS_Product, FiniteAssumption DEF Point

\* The points of an object are as many as its Data is long.
LEMMA PointsOfObject ==
    ASSUME NEW a \in Addr, obj \in [Addr -> Seq(Serial)],
           \A i, j \in 1..Len(obj[a]) : obj[a][i] = obj[a][j] => i = j
    PROVE  /\ PointsOf(a) \subseteq Point
           /\ Cardinality(PointsOf(a)) = Len(obj[a])
<1> DEFINE n == Len(obj[a])
           f == [i \in 1..n |-> <<a[1], obj[a][i]>>]
<1>1. n \in Nat /\ a[1] \in Metric /\ \A i \in 1..n : obj[a][i] \in Serial
  BY DEF Addr, Point
<1>2. PointsOf(a) = {<<a[1], obj[a][i]>> : i \in 1..n}
  BY DEF PointsOf, Elems, MetricOf
<1>3. f \in Bijection(1..n, PointsOf(a))
  <2>1. f \in Injection(1..n, PointsOf(a))
    BY <1>2 DEF Injection, IsInjective
  <2>2. f \in Surjection(1..n, PointsOf(a))
    BY <1>2 DEF Surjection
  <2> QED BY <2>1, <2>2 DEF Bijection
<1>4. IsFiniteSet(1..n) /\ Cardinality(1..n) = n
  BY <1>1, FS_Interval, SMTT(20)
<1>5. Cardinality(PointsOf(a)) = n
  BY <1>3, <1>4, FS_Bijection DEF ExistsBijection
<1>6. PointsOf(a) \subseteq Point
  BY <1>1, <1>2 DEF Point
<1> QED BY <1>5, <1>6

(***************************************************************************)
(* Types.                                                                  *)
(***************************************************************************)
\* The worker and the tracker fill in a query and leave its metric alone.
LEMMA HandledQuery ==
    ASSUME NEW r \in QueryObject, NEW c \in Seq(Serial), NEW d \in SUBSET Point
    PROVE  LET r0 == [r EXCEPT !.status = "handled", !.cacheData = c, !.due = d]
           IN  r0 \in QueryObject /\ r0.metric = r.metric
BY DEF QueryObject

\* The same for the tracker's reply.
LEMMA RepliedQuery ==
    ASSUME NEW r \in QueryObject, NEW s \in Seq(Addr)
    PROVE  LET r0 == [r EXCEPT !.status = "replied", !.inFlight = s]
           IN  r0 \in QueryObject /\ r0.metric = r.metric
BY DEF QueryObject

\* The shape of every variable is kept by every step.
LEMMA ShapeStep == IInv /\ [Next]_vars => ShapeOK'
<1> SUFFICES ASSUME IInv, [Next]_vars PROVE ShapeOK'
  OBVIOUS
<1> USE DEF vars, inVars, storeVars, workerVars, trackVars, queryVars, persistVars,
            fixedVars, unchangedByLoop, unchangedByTracker
<1>0. ShapeOK
  BY DEF IInv
<1>1. CASE LoopKeep \/ LoopEmpty
  BY <1>0, <1>1 DEF LoopKeep, LoopEmpty, ShapeOK
<1>2. CASE LoopPopQueued \/ LoopRebuild
  <2>1. PICK q \in Seq(Addr) : q # Empty /\ PopFrom(q)
    <3>1. CASE LoopPopQueued
      BY <1>0, <3>1 DEF LoopPopQueued, ShapeOK
    <3>2. CASE LoopRebuild
      BY <1>0, <3>2, RebuiltQueue DEF LoopRebuild, IInv, Account
    <3> QED BY <1>2, <3>1, <3>2
  <2>2. Last1(q) \in Addr /\ Front1(q) \in Seq(Addr)
    BY <2>1 DEF Last1, Front1, Empty
  <2>3. MetricOf(Last1(q)) \in Metric
    BY <2>2 DEF MetricOf, Addr, Point
  <2> QED BY <1>0, <1>2, <2>1, <2>2, <2>3
          DEF LoopPopQueued, LoopRebuild, PopFrom, Remove, ShapeOK
<1>3. CASE SelectQuery
  <2> DEFINE q == Head(queryChan)
             m == query[q].metric
  <2>1. q \in Query /\ m \in Metric /\ queryChan[1] = q /\ Tail(queryChan) \in Seq(Query)
        /\ \A i \in 1..Len(Tail(queryChan)) :
              i + 1 \in 1..Len(queryChan) /\ Tail(queryChan)[i] = queryChan[i + 1]
    <3>1. queryChan \in Seq(Query) /\ queryChan # Empty
      BY <1>0, <1>3 DEF SelectQuery, ShapeOK
    <3>2. 1 \in 1..Len(queryChan)
      BY <3>1, ElemsTail
    <3>3. query[queryChan[1]].metric \in Metric
      BY <1>0, <3>2 DEF ShapeOK
    <3> QED BY <3>1, <3>3, ElemsTail
  <2>2. CacheDataFor(m) \in Seq(Serial)
    BY <1>0, <2>1 DEF CacheDataFor, ShapeOK, Empty
  <2>3. {x \in accepted \ written : x[1] = m} \in SUBSET Point
    BY <1>0 DEF ShapeOK
  <2>4. query' \in [Query -> QueryObject] /\ \A r \in Query : query'[r].metric = query[r].metric
    <3> DEFINE r0 == [query[q] EXCEPT !.status = "handled", !.cacheData = CacheDataFor(m),
                                      !.due = {x \in accepted \ written : x[1] = m}]
    <3>1. query \in [Query -> QueryObject] /\ query' = [query EXCEPT ![q] = r0]
      BY <1>0, <1>3, <2>1 DEF SelectQuery, ShapeOK
    <3>2. r0 \in QueryObject /\ r0.metric = query[q].metric
      BY <2>1, <2>2, <2>3, <3>1, HandledQuery
    <3> QED BY <2>1, <3>1, <3>2
  <2>5. /\ \A i \in 1..Len(queryChan') : query'[queryChan'[i]].metric \in Metric
        /\ \A i \in 1..Len(trackerChan') : query'[trackerChan'[i]].metric \in Metric
    <3>1. \A i \in 1..Len(queryChan') : queryChan'[i] \in Query /\ query[queryChan'[i]].metric \in Metric
      <4>1. \A i \in 1..Len(queryChan') : i + 1 \in 1..Len(queryChan) /\ queryChan'[i] = queryChan[i + 1]
        <5>1. queryChan' = Tail(queryChan) /\ Len(queryChan) \in Nat
          BY <1>0, <1>3 DEF SelectQuery, ShapeOK
        <5> QED BY <2>1, <5>1
      <4>2. \A j \in 1..Len(queryChan) : queryChan[j] \in Query /\ query[queryChan[j]].metric \in Metric
        BY <1>0 DEF ShapeOK
      <4> QED BY <4>1, <4>2
    <3>2. \A i \in 1..Len(trackerChan) : trackerChan[i] \in Query /\ query[trackerChan[i]].metric \in Metric
      BY <1>0 DEF ShapeOK
    <3> QED BY <1>3, <2>4, <3>1, <3>2 DEF SelectQuery
  <2>6. held' \in Query /\ query'[held'].metric \in Metric
    BY <1>3, <2>1, <2>4 DEF SelectQuery
  <2> QED BY <1>0, <1>3, <2>1, <2>4, <2>5, <2>6 DEF SelectQuery, ShapeOK
<1>4. CASE ForwardQuery
  <2>1. held \in Query /\ query[held].metric \in Metric
    BY <1>0, <1>4 DEF ForwardQuery, ShapeOK
  <2>2. /\ trackerChan' \in Seq(Query)
        /\ \A i \in 1..Len(trackerChan') : query[trackerChan'[i]].metric \in Metric
    BY <1>0, <1>4, <2>1 DEF ForwardQuery, ShapeOK
  <2> QED BY <1>0, <1>4, <2>2, NilAssumption DEF ForwardQuery, ShapeOK
<1>5. CASE SelectSend
  <2>1. values \in Addr /\ MetricOf(values) \in Metric
    BY <1>0, <1>5 DEF SelectSend, ShapeOK, MetricOf, Addr, Point
  <2>2. notConfirmed' \in [Metric -> Seq(Addr)]
    BY <1>0, <1>5, <2>1 DEF SelectSend, AddNotConfirmed, ShapeOK
  <2> QED BY <1>0, <1>5, <2>1, <2>2 DEF SelectSend, ShapeOK
<1>6. CASE SelectReceive
  <2> DEFINE a == Head(inputChan)
  <2>1. a \in Addr /\ Tail(inputChan) \in Seq(Addr)
    BY <1>0, <1>6, ElemsTail DEF SelectReceive, ShapeOK
  <2>2. MetricOf(a) \in Metric /\ \A n \in Elems(obj[a]) : n \in Serial
    BY <1>0, <2>1, SMTT(20) DEF MetricOf, Addr, Point, ShapeOK, Elems
  <2>3. accepted' \in SUBSET Point
    BY <1>0, <1>6, <2>1, <2>2 DEF SelectReceive, Add, PointsOf, ShapeOK, Point
  <2>4. obj' \in [Addr -> Seq(Serial)] /\ data' \in [Metric -> Addr \cup {Nil}]
    <3>1. obj \in [Addr -> Seq(Serial)] /\ obj[a] \in Seq(Serial)
      BY <1>0, <2>1 DEF ShapeOK
    <3>2. CASE data[MetricOf(a)] # Nil
      <4>1. data[MetricOf(a)] \in Addr
        BY <1>0, <2>2, <3>2 DEF ShapeOK
      <4>2. obj[data[MetricOf(a)]] \o obj[a] \in Seq(Serial)
        BY <3>1, <4>1, ElemsConcat
      <4> QED BY <1>0, <1>6, <3>1, <3>2, <4>2 DEF SelectReceive, Add, ShapeOK
    <3>3. CASE data[MetricOf(a)] = Nil
      BY <1>0, <1>6, <2>1, <3>1, <3>3 DEF SelectReceive, Add, ShapeOK
    <3> QED BY <3>2, <3>3
  <2> QED BY <1>0, <1>6, <2>1, <2>3, <2>4 DEF SelectReceive, ShapeOK
<1>7. CASE SelectOverflow
  BY <1>0, <1>7, ElemsTail DEF SelectOverflow, ShapeOK
<1>8. CASE SelectExit \/ TrackerExit \/ Stop \/ UNCHANGED vars
  BY <1>0, <1>8 DEF SelectExit, TrackerExit, Stop, ShapeOK
<1>9. CASE TrackerSend
  BY <1>0, <1>9 DEF TrackerSend, ShapeOK
<1>10. CASE TrackerConfirm
  <2>1. Head(confirmChan) \in Addr /\ Tail(confirmChan) \in Seq(Addr)
    BY <1>0, <1>10, ElemsTail DEF TrackerConfirm, ShapeOK
  <2>2. \A m \in Metric : Forget(notConfirmed[m], Head(confirmChan)) \in Seq(Addr)
    BY <1>0, ForgetElems DEF ShapeOK
  <2>3. notConfirmed' \in [Metric -> Seq(Addr)]
    BY <1>0, <1>10, <2>1, <2>2 DEF TrackerConfirm, ShapeOK, MetricOf, Addr, Point
  <2> QED BY <1>0, <1>10, <2>1, <2>3 DEF TrackerConfirm, ShapeOK
<1>11. CASE TrackerQuery
  <2> DEFINE q == Head(trackerChan)
  <2>1. q \in Query /\ query[q].metric \in Metric /\ Tail(trackerChan) \in Seq(Query)
        /\ \A i \in 1..Len(Tail(trackerChan)) :
              i + 1 \in 1..Len(trackerChan) /\ Tail(trackerChan)[i] = trackerChan[i + 1]
    <3>1. trackerChan \in Seq(Query) /\ trackerChan # Empty
      BY <1>0, <1>11 DEF TrackerQuery, ShapeOK
    <3>2. 1 \in 1..Len(trackerChan)
      BY <3>1, ElemsTail
    <3>3. query[trackerChan[1]].metric \in Metric
      BY <1>0, <3>2 DEF ShapeOK
    <3> QED BY <3>1, <3>3, ElemsTail
  <2>2. query' \in [Query -> QueryObject] /\ \A r \in Query : query'[r].metric = query[r].metric
    <3> DEFINE r0 == [query[q] EXCEPT !.status = "replied",
                                      !.inFlight = notConfirmed[query[q].metric]]
    <3>1. query \in [Query -> QueryObject] /\ query' = [query EXCEPT ![q] = r0]
      BY <1>0, <1>11, <2>1 DEF TrackerQuery, ShapeOK
    <3>2. notConfirmed[query[q].metric] \in Seq(Addr)
      BY <1>0, <2>1 DEF ShapeOK
    <3>3. r0 \in QueryObject /\ r0.metric = query[q].metric
      BY <2>1, <3>1, <3>2, RepliedQuery
    <3> QED BY <2>1, <3>1, <3>3
  <2>3. /\ \A i \in 1..Len(queryChan') : query'[queryChan'[i]].metric \in Metric
        /\ \A i \in 1..Len(trackerChan') : query'[trackerChan'[i]].metric \in Metric
    <3>1. \A i \in 1..Len(trackerChan') : trackerChan'[i] \in Query /\ query[trackerChan'[i]].metric \in Metric
      <4>1. \A i \in 1..Len(trackerChan') : i + 1 \in 1..Len(trackerChan) /\ trackerChan'[i] = trackerChan[i + 1]
        <5>1. trackerChan' = Tail(trackerChan) /\ Len(trackerChan) \in Nat
          BY <1>0, <1>11 DEF TrackerQuery, ShapeOK
        <5> QED BY <2>1, <5>1
      <4>2. \A j \in 1..Len(trackerChan) : trackerChan[j] \in Query /\ query[trackerChan[j]].metric \in Metric
        BY <1>0 DEF ShapeOK
      <4> QED BY <4>1, <4>2
    <3>2. \A i \in 1..Len(queryChan) : queryChan[i] \in Query /\ query[queryChan[i]].metric \in Metric
      BY <1>0 DEF ShapeOK
    <3> QED BY <1>11, <2>2, <3>1, <3>2 DEF TrackerQuery
  <2>4. held' \in Query => query'[held'].metric \in Metric
    BY <1>0, <1>11, <2>2 DEF TrackerQuery, ShapeOK
  <2> QED BY <1>0, <1>11, <2>1, <2>2, <2>3, <2>4 DEF TrackerQuery, ShapeOK
<1>12. ASSUME NEW m \in Metric, NEW k \in 1..MaxBatch, Receive(m, k) PROVE ShapeOK'
  <2> DEFINE a == <<m, next[m]>>
             new == [i \in 1..k |-> next[m] + i - 1]
  <2>1. k \in Nat \ {0} /\ next[m] \in Nat \ {0} /\ next[m] + k - 1 <= MaxSerial /\ MaxSerial \in Nat
    BY <1>0, <1>12, SerialAssumption DEF Receive, ShapeOK
  <2>2. a \in Addr /\ new \in Seq(Serial)
    <3>1. next[m] \in Serial /\ \A i \in 1..k : next[m] + i - 1 \in Serial
      BY <2>1 DEF Serial
    <3> QED BY <2>1, <3>1 DEF Addr, Point
  <2>3. obj' \in [Addr -> Seq(Serial)] /\ inputChan' \in Seq(Addr)
    BY <1>0, <1>12, <2>2 DEF Receive, ShapeOK
  <2>4. next' \in [Metric -> Nat \ {0}]
    BY <1>0, <1>12, <2>1, SMTT(20) DEF Receive, ShapeOK
  <2> QED BY <1>0, <1>12, <2>3, <2>4 DEF Receive, ShapeOK
<1>13. ASSUME NEW q \in Query, NEW m \in Metric, Ask(q, m) PROVE ShapeOK'
  <2>1. query' \in [Query -> QueryObject] /\ query'[q].metric = m
        /\ \A r \in Query : r # q => query'[r] = query[r]
    BY <1>0, <1>13, ZenonT(40) DEF Ask, ShapeOK, QueryObject
  <2>2. \A r \in Query : query[r].metric \in Metric => query'[r].metric \in Metric
    BY <2>1
  <2>3. queryChan' \in Seq(Query) /\ \A i \in 1..Len(queryChan') : query'[queryChan'[i]].metric \in Metric
    <3>1. queryChan' \in Seq(Query) /\ Len(queryChan') = Len(queryChan) + 1
          /\ \A i \in 1..Len(queryChan') :
                queryChan'[i] = IF i = Len(queryChan) + 1 THEN q ELSE queryChan[i]
      BY <1>0, <1>13 DEF Ask, ShapeOK
    <3>2. \A i \in 1..Len(queryChan) : queryChan[i] \in Query /\ query[queryChan[i]].metric \in Metric
      BY <1>0 DEF ShapeOK
    <3>3. Len(queryChan) \in Nat
      BY <1>0 DEF ShapeOK
    <3>4. \A i \in 1..Len(queryChan') : i = Len(queryChan) + 1 \/ i \in 1..Len(queryChan)
      BY <3>1, <3>3
    <3> QED BY <2>1, <2>2, <3>1, <3>2, <3>4
  <2>4. \A i \in 1..Len(trackerChan') : query'[trackerChan'[i]].metric \in Metric
    <3>1. \A i \in 1..Len(trackerChan) : trackerChan[i] \in Query /\ query[trackerChan[i]].metric \in Metric
      BY <1>0 DEF ShapeOK
    <3> QED BY <1>13, <2>2, <3>1 DEF Ask
  <2>5. held' \in Query => query'[held'].metric \in Metric
    BY <1>0, <1>13, <2>2 DEF Ask, ShapeOK
  <2> QED BY <1>0, <1>13, <2>1, <2>3, <2>4, <2>5 DEF Ask, ShapeOK
<1>14. CASE Take
  BY <1>0, <1>14, ElemsTail DEF Take, ShapeOK
<1>15. ASSUME NEW a \in Addr, Confirm(a) PROVE ShapeOK'
  <2>1. PointsOf(a) \subseteq Point
    BY <1>0 DEF PointsOf, MetricOf, Elems, ShapeOK, Addr, Point
  <2> QED BY <1>0, <1>15, <2>1 DEF Confirm, ShapeOK
<1> QED BY <1>1, <1>2, <1>3, <1>4, <1>5, <1>6, <1>7, <1>8, <1>9, <1>10, <1>11, <1>12,
           <1>13, <1>14, <1>15 DEF Next, Worker, Tracker, Environment

(***************************************************************************)
(* The accounting of points.                                               *)
(***************************************************************************)
\* The variables the accounts are about.
accountVars == <<obj, inVars, storeVars, queue, values, p, notConfirmed, persistVars, accepted>>

\* Whatever can be reached is an address.
LEMMA LiveAddrsType == ShapeOK => LiveAddrs \subseteq Addr
BY SMTT(20) DEF ShapeOK, LiveAddrs, CachedAddrs, HeldAddrs, InFlightAddrs, BehindAddrs, Elems

\* An object's Data is a sequence of numbers.
LEMMA ObjectType ==
    ASSUME ShapeOK, NEW b \in Addr
    PROVE  /\ obj[b] \in Seq(Serial) /\ Len(obj[b]) \in Nat
           /\ \A i \in 1..Len(obj[b]) : obj[b][i] \in Serial /\ obj[b][i] \in Nat
<1>1. obj[b] \in Seq(Serial)
  BY DEF ShapeOK
<1>2. Len(obj[b]) \in Nat /\ \A i \in 1..Len(obj[b]) : obj[b][i] \in Serial
  BY <1>1
<1>3. \A n \in Serial : n \in Nat
  BY SerialAssumption DEF Serial
<1>4. \A i \in 1..Len(obj[b]) : obj[b][i] \in Nat
  BY <1>2, <1>3, Zenon
<1> QED BY <1>1, <1>2, <1>4

\* Steps that move no message, batch or point.
LEMMA QuietStep == Account /\ UNCHANGED accountVars => Account'
<1> SUFFICES ASSUME Account, UNCHANGED accountVars PROVE Account'
  OBVIOUS
<1> USE DEF accountVars, inVars, storeVars, persistVars
<1>1. \A b : PointsOf(b)' = PointsOf(b)
  BY DEF PointsOf, Elems, MetricOf
<1>2. /\ CachedAddrs' = CachedAddrs /\ HeldAddrs' = HeldAddrs
      /\ InFlightAddrs' = InFlightAddrs /\ BehindAddrs' = BehindAddrs
      /\ LiveAddrs' = LiveAddrs
  BY DEF CachedAddrs, HeldAddrs, InFlightAddrs, BehindAddrs, LiveAddrs
<1>3. /\ Cached' = Cached /\ InHand' = InHand /\ InFlight' = InFlight
      /\ PointsAt(BehindAddrs)' = PointsAt(BehindAddrs)
      /\ PointsAt(Elems(confirmChan))' = PointsAt(Elems(confirmChan))
  BY <1>1, <1>2 DEF Cached, InHand, InFlight, PointsAt
<1>4. MapOK' /\ QueueFresh' /\ NoLoss' /\ SizeExact' /\ BehindOK'
  BY <1>2, <1>3 DEF Account, MapOK, QueueFresh, NoLoss, SizeExact, BehindOK
<1>5. ObjectsOK' /\ AcceptedOK' /\ InputOK'
  BY <1>1, <1>2 DEF Account, ObjectsOK, AcceptedOK, InputOK
<1> QED BY <1>4, <1>5 DEF Account

\* A receiver's message is a new object with new points.
LEMMA ReceiveStep ==
    ASSUME IInv, NEW m \in Metric, NEW k \in 1..MaxBatch, Receive(m, k)
    PROVE  Account'
<1>1. ShapeOK /\ Account /\ ShapeOK'
  BY ShapeStep DEF IInv, Next, Environment
<1>2. PICK a, new : a = <<m, next[m]>> /\ new = [i \in 1..k |-> next[m] + i - 1]
  OBVIOUS
<1>3. /\ obj' = [obj EXCEPT ![a] = new]
      /\ inputChan' = Append(inputChan, a)
      /\ next' = [next EXCEPT ![m] = next[m] + k]
      /\ next[m] + k - 1 <= MaxSerial
      /\ UNCHANGED <<data, size, metricCount, queue, values, p, notConfirmed,
                     outputChan, taken, confirmChan, written, accepted>>
  BY <1>2 DEF Receive, storeVars, workerVars, trackVars, queryVars, persistVars
<1>4. k \in Nat \ {0} /\ next[m] \in Nat \ {0} /\ next \in [Metric -> Nat \ {0}]
  <2>1. next \in [Metric -> Nat \ {0}]
    BY <1>1 DEF ShapeOK
  <2> QED BY <2>1, SerialAssumption
<1>5. a \in Addr /\ a[1] = m /\ a[2] = next[m]
  BY <1>2, <1>3, <1>4, SerialAssumption DEF Addr, Point, Serial
<1>6. a \notin LiveAddrs
  BY <1>1, <1>4, <1>5 DEF Account, ObjectsOK
<1>7. LiveAddrs \subseteq Addr
  BY <1>1, LiveAddrsType
<1>8. obj'[a] = new /\ \A b \in LiveAddrs : obj'[b] = obj[b]
  BY <1>1, <1>3, <1>5, <1>6, <1>7 DEF ShapeOK
<1>9. \A b \in LiveAddrs : PointsOf(b)' = PointsOf(b)
  BY <1>8 DEF PointsOf, Elems, MetricOf
<1>10. /\ CachedAddrs' = CachedAddrs /\ HeldAddrs' = HeldAddrs
       /\ InFlightAddrs' = InFlightAddrs /\ BehindAddrs' = BehindAddrs
       /\ Elems(confirmChan)' = Elems(confirmChan)
  BY <1>3 DEF CachedAddrs, HeldAddrs, InFlightAddrs, BehindAddrs, Elems
<1>11. Cached' = Cached /\ InHand' = InHand /\ InFlight' = InFlight
       /\ PointsAt(BehindAddrs)' = PointsAt(BehindAddrs)
       /\ PointsAt(Elems(confirmChan))' = PointsAt(Elems(confirmChan))
  <2>1. ASSUME NEW S \in SUBSET LiveAddrs PROVE PointsAt(S)' = PointsAt(S)
    BY <1>9 DEF PointsAt
  <2>2. /\ CachedAddrs \subseteq LiveAddrs /\ HeldAddrs \subseteq LiveAddrs
        /\ InFlightAddrs \subseteq LiveAddrs /\ BehindAddrs \subseteq LiveAddrs
        /\ Elems(confirmChan) \subseteq LiveAddrs
    BY DEF LiveAddrs, BehindAddrs
  <2> QED BY <1>9, <1>10, <2>2 DEF Cached, InHand, InFlight, PointsAt
<1>12. MapOK' /\ QueueFresh' /\ NoLoss' /\ SizeExact' /\ BehindOK'
  BY <1>1, <1>3, <1>10, <1>11 DEF Account, MapOK, QueueFresh, NoLoss, SizeExact, BehindOK
<1>13. LiveAddrs' = LiveAddrs \cup {a}
  <2>1. Elems(inputChan)' = Elems(inputChan) \cup {a}
    BY <1>1, <1>3, <1>5, ElemsAppend DEF ShapeOK
  <2> QED BY <2>1, <1>10 DEF LiveAddrs
<1>14. \A n \in Metric : next[n] <= next'[n] /\ next[n] \in Nat /\ next'[n] \in Nat
  BY <1>3, <1>4
<1>15. ObjectsOK'
  <2>2. ASSUME NEW b \in LiveAddrs
        PROVE  /\ obj'[b] # Empty /\ b[2] < next'[b[1]]
               /\ \A i \in 1..Len(obj'[b]) : obj'[b][i] < next'[b[1]]
               /\ \A i, j \in 1..Len(obj'[b]) : obj'[b][i] = obj'[b][j] => i = j
    <3>1. b[1] \in Metric /\ b[2] \in Nat
      BY <1>7 DEF Addr, Point, Serial
    <3>2. \A i \in 1..Len(obj[b]) : obj[b][i] \in Nat
      BY <1>1, <1>7, ObjectType
    <3>3. next[b[1]] <= next'[b[1]] /\ next[b[1]] \in Nat /\ next'[b[1]] \in Nat
      BY <1>14, <3>1
    <3>4. /\ obj[b] # Empty /\ b[2] < next[b[1]]
          /\ \A i \in 1..Len(obj[b]) : obj[b][i] < next[b[1]]
          /\ \A i, j \in 1..Len(obj[b]) : obj[b][i] = obj[b][j] => i = j
      BY <1>1 DEF Account, ObjectsOK
    <3>5. obj'[b] = obj[b]
      BY <1>8
    <3> QED BY <3>1, <3>2, <3>3, <3>4, <3>5
  <2>3. /\ obj'[a] # Empty /\ a[2] < next'[a[1]]
        /\ \A i \in 1..Len(obj'[a]) : obj'[a][i] < next'[a[1]]
        /\ \A i, j \in 1..Len(obj'[a]) : obj'[a][i] = obj'[a][j] => i = j
    <3>1. next'[m] = next[m] + k
      BY <1>3, <1>4
    <3>2. Len(new) = k /\ \A i \in 1..k : new[i] = next[m] + i - 1
      BY <1>2, <1>4
    <3>3. new # Empty
      BY <3>2, <1>4 DEF Empty
    <3> QED BY <1>4, <1>5, <1>8, <3>1, <3>2, <3>3
  <2> QED BY <1>13, <2>2, <2>3 DEF ObjectsOK
<1>16. \A x \in accepted : x[1] \in Metric /\ x[2] \in Nat /\ x[2] < next[x[1]]
  <2>1. \A x \in Point : x[1] \in Metric /\ x[2] \in Nat
    BY DEF Point, Serial
  <2> QED BY <1>1, <2>1 DEF ShapeOK, Account, AcceptedOK
<1>17. AcceptedOK'
  BY <1>3, <1>14, <1>16 DEF AcceptedOK
<1>18. InputOK'
  <2>1. \A x \in PointsOf(a)' : x[1] = m /\ x[2] \in Nat /\ x[2] >= next[m]
    <3>1. Len(new) = k /\ \A i \in 1..k : new[i] \in Nat /\ new[i] >= next[m]
      BY <1>2, <1>4
    <3>2. PointsOf(a)' = {<<m, n>> : n \in {new[i] : i \in 1..k}}
      BY <1>5, <1>8, <3>1 DEF PointsOf, Elems, MetricOf
    <3> QED BY <3>1, <3>2
  <2>2. PointsOf(a)' \cap accepted = {}
    <3>1. \A x \in accepted : x[1] = m => ~(x[2] >= next[m])
      BY <1>4, <1>16
    <3> QED BY <2>1, <3>1
  <2>3. ASSUME NEW b \in LiveAddrs, NEW x \in PointsOf(b), x[1] = m
        PROVE  ~(x[2] >= next[m])
    <3>1. PICK i \in 1..Len(obj[b]) : x = <<b[1], obj[b][i]>>
      BY DEF PointsOf, Elems, MetricOf
    <3>2. obj[b][i] \in Nat
      BY <1>1, <1>7, ObjectType
    <3>3. obj[b][i] < next[b[1]]
      BY <1>1 DEF Account, ObjectsOK
    <3> QED BY <1>4, <2>3, <3>1, <3>2, <3>3
  <2>4. \A b \in LiveAddrs : PointsOf(a)' \cap PointsOf(b)' = {}
    BY <1>9, <2>1, <2>3
  <2>5. /\ Len(inputChan) \in Nat /\ Len(inputChan') = Len(inputChan) + 1
        /\ inputChan'[Len(inputChan) + 1] = a
        /\ \A i \in 1..Len(inputChan) : inputChan'[i] = inputChan[i]
    <3>1. inputChan \in Seq(Addr)
      BY <1>1 DEF ShapeOK
    <3> QED BY <3>1, <1>3, <1>5
  <2>6. \A i \in 1..Len(inputChan) : inputChan[i] \in LiveAddrs
    BY DEF LiveAddrs, Elems
  <2>7. \A i \in 1..Len(inputChan') : i = Len(inputChan) + 1 \/ i \in 1..Len(inputChan)
    BY <2>5
  <2>8. \A i \in 1..Len(inputChan) : PointsOf(inputChan[i]) \cap accepted = {}
    BY <1>1 DEF Account, InputOK
  <2>9. \A i, j \in 1..Len(inputChan) :
            i # j => PointsOf(inputChan[i]) \cap PointsOf(inputChan[j]) = {}
    BY <1>1 DEF Account, InputOK
  <2>10. \A i \in 1..Len(inputChan) : (PointsOf(inputChan[i]))' = PointsOf(inputChan[i])
    BY <1>9, <2>5, <2>6 DEF PointsOf
  <2>11. \A i : i = Len(inputChan) + 1 => (PointsOf(inputChan[i]))' = PointsOf(a)'
    BY <2>5 DEF PointsOf, Elems, MetricOf
  <2>12. ASSUME NEW i \in 1..Len(inputChan') PROVE (PointsOf(inputChan[i]) \cap accepted)' = {}
    <3>1. CASE i = Len(inputChan) + 1
      BY <1>3, <2>2, <2>11, <3>1
    <3>2. CASE i \in 1..Len(inputChan)
      BY <1>3, <2>8, <2>10, <3>2
    <3> QED BY <2>7, <3>1, <3>2
  <2>13. ASSUME NEW i \in 1..Len(inputChan'), NEW j \in 1..Len(inputChan'), i # j
         PROVE  (PointsOf(inputChan[i]) \cap PointsOf(inputChan[j]))' = {}
    <3>1. CASE i = Len(inputChan) + 1 /\ j \in 1..Len(inputChan)
      <4>1. PointsOf(a)' \cap PointsOf(inputChan[j]) = {}
        BY <1>9, <2>4, <2>6, <3>1
      <4> QED BY <2>10, <2>11, <3>1, <4>1
    <3>2. CASE j = Len(inputChan) + 1 /\ i \in 1..Len(inputChan)
      <4>1. PointsOf(a)' \cap PointsOf(inputChan[i]) = {}
        BY <1>9, <2>4, <2>6, <3>2
      <4> QED BY <2>10, <2>11, <3>2, <4>1
    <3>3. CASE i \in 1..Len(inputChan) /\ j \in 1..Len(inputChan)
      BY <2>9, <2>10, <2>13, <3>3
    <3> QED BY <2>7, <2>13, <3>1, <3>2, <3>3
  <2> QED BY <2>12, <2>13 DEF InputOK
<1> QED BY <1>12, <1>15, <1>17, <1>18 DEF Account

\* Steps that hand objects on and change none: what concerns objects, points
\* and messages is kept if nothing new can be reached.
LEMMA MoveStep ==
    ASSUME IInv, UNCHANGED <<obj, next, inputChan, accepted>>, LiveAddrs' \subseteq LiveAddrs
    PROVE  /\ ObjectsOK' /\ AcceptedOK' /\ InputOK'
           /\ \A b : PointsOf(b)' = PointsOf(b)
<1>1. \A b : PointsOf(b)' = PointsOf(b)
  BY DEF PointsOf, Elems, MetricOf
<1>2. ObjectsOK' /\ AcceptedOK'
  BY DEF IInv, Account, ObjectsOK, AcceptedOK
<1>3. \A i : (PointsOf(inputChan[i]))' = PointsOf(inputChan[i])
  BY DEF PointsOf, Elems, MetricOf
<1>4. InputOK'
  <2>1. \A i \in 1..Len(inputChan') : (PointsOf(inputChan[i]) \cap accepted)' = {}
    BY <1>3 DEF IInv, Account, InputOK
  <2>2. \A i, j \in 1..Len(inputChan') :
            i # j => (PointsOf(inputChan[i]) \cap PointsOf(inputChan[j]))' = {}
    BY <1>3 DEF IInv, Account, InputOK
  <2> QED BY <2>1, <2>2 DEF InputOK
<1> QED BY <1>1, <1>2, <1>4

\* Points of two disjoint sets of points are counted by adding.
LEMMA DisjointCount ==
    ASSUME NEW S \in SUBSET Point, NEW T \in SUBSET Point, S \cap T = {}
    PROVE  /\ Cardinality(S \cup T) = Cardinality(S) + Cardinality(T)
           /\ Cardinality(S) \in Nat /\ Cardinality(T) \in Nat
<1>1. IsFiniteSet(S) /\ IsFiniteSet(T)
  BY PointFinite, FS_Subset
<1>2. Cardinality(S \cup T) = Cardinality(S) + Cardinality(T) - Cardinality(S \cap T)
  BY <1>1, FS_Union
<1>3. Cardinality(S) \in Nat /\ Cardinality(T) \in Nat /\ Cardinality(S \cap T) = 0
  BY <1>1, FS_CardinalityType, FS_EmptySet
<1> QED BY <1>2, <1>3

\* Pop moves a whole object from the map to the worker's hand and takes
\* exactly its points and its metric off the counters.
LEMMA PopStep ==
    ASSUME IInv, NEW q \in Seq(Addr), q # Empty, PopFrom(q), values = Nil,
           \A i \in 1..Len(q) : data[MetricOf(q[i])] = q[i],
           \A i, j \in 1..Len(q) : q[i] = q[j] => i = j,
           UNCHANGED <<obj, next, inputChan, p, notConfirmed, outputChan, taken,
                       confirmChan, written, accepted>>
    PROVE  Account'
<1>1. ShapeOK /\ Account
  BY DEF IInv
<1>2. PICK a : a = q[Len(q)]
  OBVIOUS
<1>3. Len(q) \in Nat \ {0} /\ a \in Addr /\ MetricOf(a) \in Metric /\ data[MetricOf(a)] = a
  <2>1. Len(q) \in Nat \ {0}
    BY DEF Empty
  <2>2. a \in Addr /\ data[MetricOf(a)] = a
    BY <1>2, <2>1
  <2> QED BY <2>1, <2>2 DEF MetricOf, Addr, Point
<1>4. /\ values' = a /\ data' = [data EXCEPT ![MetricOf(a)] = Nil]
      /\ size' = size - Len(obj[a]) /\ metricCount' = metricCount - 1
      /\ queue' = Front1(q)
  BY <1>2 DEF PopFrom, Last1, Remove
<1>5. data \in [Metric -> Addr \cup {Nil}] /\ Nil \notin Addr
  BY <1>1, NilAssumption DEF ShapeOK
<1>6. /\ \A m \in Metric : m # MetricOf(a) => data'[m] = data[m]
      /\ data'[MetricOf(a)] = Nil
  BY <1>3, <1>4, <1>5
<1>7. \A m \in Metric : data[m] = a => m = MetricOf(a)
  BY <1>1, <1>3, <1>5 DEF Account, MapOK
<1>8. a \in CachedAddrs /\ CachedAddrs' = CachedAddrs \ {a}
  <2>1. a \in CachedAddrs
    BY <1>3, <1>5 DEF CachedAddrs
  <2>2. CachedAddrs' \subseteq CachedAddrs \ {a}
    BY <1>5, <1>6, <1>7 DEF CachedAddrs
  <2>3. CachedAddrs \ {a} \subseteq CachedAddrs'
    BY <1>3, <1>5, <1>6 DEF CachedAddrs
  <2> QED BY <2>1, <2>2, <2>3
<1>9. HeldAddrs = {} /\ HeldAddrs' = {a}
  BY <1>3, <1>4, <1>5 DEF HeldAddrs
<1>10. /\ InFlightAddrs' = InFlightAddrs /\ BehindAddrs' = BehindAddrs
       /\ Elems(confirmChan)' = Elems(confirmChan) /\ Elems(inputChan)' = Elems(inputChan)
  BY DEF InFlightAddrs, BehindAddrs, Elems
<1>11. LiveAddrs' \subseteq LiveAddrs
  BY <1>8, <1>9, <1>10 DEF LiveAddrs
<1>12. ObjectsOK' /\ AcceptedOK' /\ InputOK' /\ \A b : PointsOf(b)' = PointsOf(b)
  BY <1>11, MoveStep
<1>13. /\ InFlight' = InFlight
       /\ PointsAt(BehindAddrs)' = PointsAt(BehindAddrs)
       /\ PointsAt(Elems(confirmChan))' = PointsAt(Elems(confirmChan))
       /\ InHand = {} /\ InHand' = PointsOf(a)
       /\ Cached = Cached' \cup PointsOf(a)
  BY <1>8, <1>9, <1>10, <1>12 DEF InFlight, InHand, Cached, PointsAt
<1>14. Cached' \cap PointsOf(a) = {}
  <2>1. \A b \in CachedAddrs : b # a => MetricOf(b) # MetricOf(a)
    BY <1>1, <1>3, <1>5 DEF CachedAddrs, Account, MapOK
  <2>2. \A b, c : MetricOf(b) # MetricOf(c) => PointsOf(b) \cap PointsOf(c) = {}
    BY DEF PointsOf
  <2>3. \A b \in CachedAddrs' : PointsOf(b) \cap PointsOf(a) = {}
    BY <1>8, <2>1, <2>2
  <2> QED BY <1>12, <2>3 DEF Cached, PointsAt
<1>15. MapOK'
  BY <1>1, <1>6 DEF Account, MapOK
<1>16. QueueFresh'
  <2>1. /\ Len(queue') = Len(q) - 1
        /\ \A i \in 1..Len(queue') : queue'[i] = q[i] /\ i \in 1..Len(q) /\ i # Len(q)
    BY <1>4, Front
  <2>2. ASSUME NEW i \in 1..Len(queue') PROVE data'[MetricOf(queue'[i])] = queue'[i]
    <3>1. q[i] \in Addr /\ data[MetricOf(q[i])] = q[i] /\ q[i] # a
      BY <1>2, <1>3, <2>1
    <3>2. MetricOf(q[i]) \in Metric /\ MetricOf(q[i]) # MetricOf(a)
      BY <1>3, <3>1 DEF MetricOf, Addr, Point
    <3> QED BY <1>6, <2>1, <3>1, <3>2
  <2>3. \A i, j \in 1..Len(queue') : queue'[i] = queue'[j] => i = j
    BY <2>1
  <2> QED BY <2>2, <2>3 DEF QueueFresh, MetricOf
<1>17. NoLoss'
  BY <1>1, <1>13, <1>14 DEF Account, NoLoss
<1>18. BehindOK'
  BY <1>1, <1>13 DEF Account, BehindOK
<1>19. SizeExact'
  <2>1. PointsOf(a) \subseteq Point /\ Cardinality(PointsOf(a)) = Len(obj[a])
    <3>1. a \in LiveAddrs
      BY <1>8 DEF LiveAddrs
    <3> QED BY <1>1, <1>3, <3>1, PointsOfObject DEF ShapeOK, Account, ObjectsOK
  <2>2. Cached' \subseteq Point
    <3>1. Cached \subseteq Point
      BY <1>1 DEF Account, NoLoss, ShapeOK
    <3> QED BY <1>13, <3>1
  <2>3. /\ Cardinality(Cached) = Cardinality(Cached') + Cardinality(PointsOf(a))
        /\ Cardinality(Cached') \in Nat /\ Cardinality(PointsOf(a)) \in Nat
    <3> HIDE DEF Cached
    <3>1. /\ Cardinality(Cached' \cup PointsOf(a)) = Cardinality(Cached') + Cardinality(PointsOf(a))
          /\ Cardinality(Cached') \in Nat /\ Cardinality(PointsOf(a)) \in Nat
      BY <1>14, <2>1, <2>2, DisjointCount, Zenon
    <3> QED BY <1>13, <3>1
  <2>4. size' = Cardinality(Cached')
    BY <1>1, <1>4, <2>1, <2>3 DEF Account, SizeExact
  <2>5. Cardinality(CachedAddrs') = Cardinality(CachedAddrs) - 1
    BY <1>1, <1>8, CachedFinite, FS_RemoveElement
  <2> QED BY <1>1, <1>4, <2>4, <2>5 DEF Account, SizeExact
<1> QED BY <1>12, <1>15, <1>16, <1>17, <1>18, <1>19 DEF Account

\* The hand-over to the tracker: the batch leaves the worker's hand and is
\* unconfirmed in the same step.
LEMMA SendStep == ASSUME IInv, SelectSend PROVE Account'
<1>1. ShapeOK /\ Account
  BY DEF IInv
<1>2. PICK a : a = values
  OBVIOUS
<1>3. /\ a \in Addr /\ MetricOf(a) \in Metric /\ p = Nil /\ p' = a /\ values' = Nil
      /\ notConfirmed' = [notConfirmed EXCEPT ![MetricOf(a)] = Append(@, a)]
      /\ UNCHANGED <<obj, next, inputChan, data, size, metricCount, queue, outputChan,
                     taken, confirmChan, written, accepted>>
  BY <1>1, <1>2 DEF SelectSend, AddNotConfirmed, ShapeOK, MetricOf, Addr, Point, inVars,
                    storeVars, persistVars
<1>4. Nil \notin Addr
  BY NilAssumption
<1>5. /\ CachedAddrs' = CachedAddrs /\ HeldAddrs = {a} /\ HeldAddrs' = {}
      /\ Elems(inputChan)' = Elems(inputChan) /\ Elems(confirmChan)' = Elems(confirmChan)
      /\ BehindAddrs' = BehindAddrs \cup {a}
  BY <1>2, <1>3, <1>4 DEF CachedAddrs, HeldAddrs, BehindAddrs, Elems
<1>6. InFlightAddrs' = InFlightAddrs \cup {a}
  <2>1. notConfirmed \in [Metric -> Seq(Addr)]
    BY <1>1 DEF ShapeOK
  <2>2. Elems(Append(notConfirmed[MetricOf(a)], a)) = Elems(notConfirmed[MetricOf(a)]) \cup {a}
    BY <1>3, <2>1, ElemsAppend
  <2>3. /\ \A m \in Metric : m # MetricOf(a) => notConfirmed'[m] = notConfirmed[m]
        /\ notConfirmed'[MetricOf(a)] = Append(notConfirmed[MetricOf(a)], a)
    BY <1>3, <2>1
  <2>4. \A m \in Metric : Elems(notConfirmed'[m]) =
            Elems(notConfirmed[m]) \cup (IF m = MetricOf(a) THEN {a} ELSE {})
    BY <2>2, <2>3
  <2>5. InFlightAddrs' = UNION {Elems(notConfirmed'[m]) : m \in Metric}
    BY DEF InFlightAddrs, Elems
  <2> QED BY <1>3, <2>4, <2>5 DEF InFlightAddrs
<1>7. LiveAddrs' \subseteq LiveAddrs
  BY <1>5, <1>6 DEF LiveAddrs
<1>8. ObjectsOK' /\ AcceptedOK' /\ InputOK' /\ \A b : PointsOf(b)' = PointsOf(b)
  BY <1>3, <1>7, MoveStep
<1>9. /\ Cached' = Cached /\ InHand = PointsOf(a) /\ InHand' = {}
      /\ InFlight' = InFlight \cup PointsOf(a)
      /\ PointsAt(BehindAddrs)' = PointsAt(BehindAddrs) \cup PointsOf(a)
      /\ PointsAt(Elems(confirmChan))' = PointsAt(Elems(confirmChan))
  BY <1>5, <1>6, <1>8 DEF Cached, InHand, InFlight, PointsAt
<1>10. MapOK' /\ QueueFresh' /\ SizeExact'
  BY <1>1, <1>3, <1>5, <1>9 DEF Account, MapOK, QueueFresh, SizeExact, MetricOf
<1>11. NoLoss' /\ BehindOK'
  BY <1>1, <1>3, <1>9 DEF Account, NoLoss, BehindOK
<1> QED BY <1>8, <1>10, <1>11 DEF Account

\* Behind the worker nothing but the unconfirmed batches and the history of
\* what is written changes, and a batch there goes from one place to the next.
LEMMA BehindStep ==
    ASSUME IInv,
           UNCHANGED <<obj, next, inputChan, data, size, metricCount, queue, values, accepted>>,
           BehindAddrs' \subseteq BehindAddrs,
           InFlightAddrs' \subseteq InFlightAddrs,
           InFlight \subseteq PointsAt(InFlightAddrs') \cup written,
           written \subseteq written', written' \subseteq written \cup PointsAt(BehindAddrs),
           PointsAt(Elems(confirmChan')) \subseteq written'
    PROVE  Account'
<1>1. ShapeOK /\ Account
  BY DEF IInv
<1>2. /\ CachedAddrs' = CachedAddrs /\ HeldAddrs' = HeldAddrs
      /\ Elems(inputChan)' = Elems(inputChan)
  BY DEF CachedAddrs, HeldAddrs, Elems
<1>3. LiveAddrs' \subseteq LiveAddrs
  BY <1>2 DEF LiveAddrs
<1>4. ObjectsOK' /\ AcceptedOK' /\ InputOK' /\ \A b : PointsOf(b)' = PointsOf(b)
  BY <1>3, MoveStep
<1>5. /\ Cached' = Cached /\ InHand' = InHand
      /\ InFlight' = PointsAt(InFlightAddrs') /\ InFlight' \subseteq InFlight
      /\ PointsAt(BehindAddrs)' \subseteq PointsAt(BehindAddrs)
      /\ PointsAt(Elems(confirmChan))' = PointsAt(Elems(confirmChan'))
  <2>1. Cached' = Cached /\ InHand' = InHand
    BY <1>2, <1>4 DEF Cached, InHand, PointsAt
  <2>2. InFlight' = PointsAt(InFlightAddrs') /\ InFlight' \subseteq InFlight
    BY <1>4 DEF InFlight, PointsAt
  <2>3. PointsAt(BehindAddrs)' \subseteq PointsAt(BehindAddrs)
    BY <1>4 DEF PointsAt
  <2>4. Elems(confirmChan)' = Elems(confirmChan')
    BY DEF Elems
  <2>5. PointsAt(Elems(confirmChan))' = PointsAt(Elems(confirmChan'))
    BY <1>4, <2>4 DEF PointsAt
  <2> QED BY <2>1, <2>2, <2>3, <2>5
<1>6. MapOK' /\ QueueFresh' /\ SizeExact'
  BY <1>1, <1>2, <1>5 DEF Account, MapOK, QueueFresh, SizeExact, MetricOf
<1>7. NoLoss'
  <2>1. written' \subseteq accepted /\ written' \cap (Cached \cup InHand) = {}
    BY <1>1 DEF Account, NoLoss, BehindOK
  <2> QED BY <1>1, <1>5, <2>1 DEF Account, NoLoss
<1>8. BehindOK'
  BY <1>1, <1>5 DEF Account, BehindOK
<1> QED BY <1>4, <1>6, <1>7, <1>8 DEF Account

\* The tracker's send, the persister's receive and its confirmation.
LEMMA PassOnStep ==
    ASSUME IInv, TrackerSend \/ Take \/ \E a \in Addr : Confirm(a)
    PROVE  Account'
<1> USE DEF inVars, storeVars, workerVars, trackVars, queryVars, fixedVars, persistVars,
            unchangedByTracker
<1>1. ShapeOK /\ Account
  BY DEF IInv
<1>2. /\ UNCHANGED <<obj, next, inputChan, data, size, metricCount, queue, values, accepted>>
      /\ UNCHANGED notConfirmed
  BY DEF TrackerSend, Take, Confirm
<1>3. InFlightAddrs' = InFlightAddrs /\ InFlight = PointsAt(InFlightAddrs')
  BY <1>2 DEF InFlightAddrs, InFlight
<1>4. PointsAt(Elems(confirmChan)) \subseteq written
  BY <1>1 DEF Account, BehindOK
<1>5. CASE TrackerSend
  <2>1. /\ p \in Addr /\ p' = Nil /\ outputChan \in Seq(Addr) /\ outputChan' = Append(outputChan, p)
        /\ UNCHANGED <<taken, confirmChan, written>>
    BY <1>1, <1>5 DEF TrackerSend, ShapeOK
  <2>2. Elems(outputChan') = Elems(outputChan) \cup {p}
    BY <2>1, ElemsAppend
  <2>3. BehindAddrs' = ({p'} \ {Nil}) \cup Elems(outputChan') \cup taken' \cup Elems(confirmChan')
    BY DEF BehindAddrs, Elems
  <2>4. BehindAddrs' \subseteq BehindAddrs
    BY <2>1, <2>2, <2>3, NilAssumption DEF BehindAddrs
  <2> QED BY <1>2, <1>3, <1>4, <2>1, <2>4, BehindStep
<1>6. CASE Take
  <2>1. /\ outputChan \in Seq(Addr) /\ outputChan # Empty /\ outputChan' = Tail(outputChan)
        /\ taken' = taken \cup {Head(outputChan)} /\ UNCHANGED <<p, confirmChan, written>>
    BY <1>1, <1>6 DEF Take, ShapeOK
  <2>2. Elems(outputChan) = {Head(outputChan)} \cup Elems(outputChan')
    BY <2>1, ElemsTail
  <2>3. BehindAddrs' = ({p'} \ {Nil}) \cup Elems(outputChan') \cup taken' \cup Elems(confirmChan')
    BY DEF BehindAddrs, Elems
  <2>4. BehindAddrs' \subseteq BehindAddrs
    BY <2>1, <2>2, <2>3 DEF BehindAddrs
  <2> QED BY <1>2, <1>3, <1>4, <2>1, <2>4, BehindStep
<1>7. ASSUME NEW a \in Addr, Confirm(a) PROVE Account'
  <2>1. /\ a \in taken /\ taken' = taken \ {a} /\ confirmChan \in Seq(Addr)
        /\ confirmChan' = Append(confirmChan, a) /\ written' = written \cup PointsOf(a)
        /\ UNCHANGED <<p, outputChan>>
    BY <1>1, <1>7 DEF Confirm, ShapeOK
  <2>2. Elems(confirmChan') = Elems(confirmChan) \cup {a}
    BY <2>1, ElemsAppend
  <2>3. BehindAddrs' = ({p'} \ {Nil}) \cup Elems(outputChan') \cup taken' \cup Elems(confirmChan')
    BY DEF BehindAddrs, Elems
  <2>4. BehindAddrs' \subseteq BehindAddrs /\ a \in BehindAddrs
    BY <2>1, <2>2, <2>3 DEF BehindAddrs
  <2>5. PointsOf(a) \subseteq PointsAt(BehindAddrs)
    BY <2>4 DEF PointsAt
  <2>6. PointsAt(Elems(confirmChan')) = PointsAt(Elems(confirmChan)) \cup PointsOf(a)
    BY <2>2 DEF PointsAt
  <2>7. written' \subseteq written \cup PointsAt(BehindAddrs)
        /\ PointsAt(Elems(confirmChan')) \subseteq written'
    BY <1>4, <2>1, <2>5, <2>6
  <2> QED BY <1>2, <1>3, <2>1, <2>4, <2>7, BehindStep
<1> QED BY <1>5, <1>6, <1>7

\* The tracker forgets a batch only when all its points are written.
LEMMA TrackerConfirmStep == ASSUME IInv, TrackerConfirm PROVE Account'
<1> USE DEF inVars, storeVars, workerVars, fixedVars, unchangedByTracker
<1>1. ShapeOK /\ Account
  BY DEF IInv
<1>2. PICK a : a = Head(confirmChan)
  OBVIOUS
<1>3. /\ confirmChan \in Seq(Addr) /\ confirmChan # Empty /\ confirmChan' = Tail(confirmChan)
      /\ notConfirmed' = [notConfirmed EXCEPT ![MetricOf(a)] = Forget(@, a)]
      /\ UNCHANGED <<obj, next, inputChan, data, size, metricCount, queue, values, accepted>>
      /\ UNCHANGED <<p, outputChan, taken, written>>
      /\ notConfirmed \in [Metric -> Seq(Addr)]
  BY <1>1, <1>2 DEF TrackerConfirm, ShapeOK
<1>4. Elems(confirmChan) = {a} \cup Elems(confirmChan')
  BY <1>2, <1>3, ElemsTail
<1>5. PointsOf(a) \subseteq written /\ PointsAt(Elems(confirmChan')) \subseteq written
  BY <1>1, <1>4 DEF Account, BehindOK, PointsAt
<1>6. BehindAddrs' \subseteq BehindAddrs
  <2>1. BehindAddrs' = ({p'} \ {Nil}) \cup Elems(outputChan') \cup taken' \cup Elems(confirmChan')
    BY DEF BehindAddrs, Elems
  <2> QED BY <1>3, <1>4, <2>1 DEF BehindAddrs
<1>7. ASSUME NEW m \in Metric
      PROVE  /\ Elems(notConfirmed'[m]) \subseteq Elems(notConfirmed[m])
             /\ Elems(notConfirmed[m]) \subseteq Elems(notConfirmed'[m]) \cup {a}
  <2>1. /\ Elems(Forget(notConfirmed[m], a)) \subseteq Elems(notConfirmed[m])
        /\ Elems(notConfirmed[m]) \subseteq Elems(Forget(notConfirmed[m], a)) \cup {a}
    BY <1>3, ForgetElems
  <2>2. notConfirmed'[m] = IF m = MetricOf(a) THEN Forget(notConfirmed[m], a) ELSE notConfirmed[m]
    BY <1>3
  <2> QED BY <2>1, <2>2
<1>8. InFlightAddrs' \subseteq InFlightAddrs /\ InFlightAddrs \subseteq InFlightAddrs' \cup {a}
  <2>1. InFlightAddrs' = UNION {Elems(notConfirmed'[m]) : m \in Metric}
    BY DEF InFlightAddrs, Elems
  <2> QED BY <1>7, <2>1 DEF InFlightAddrs
<1>9. InFlight \subseteq PointsAt(InFlightAddrs') \cup written
  BY <1>5, <1>8 DEF InFlight, PointsAt
<1> QED BY <1>3, <1>5, <1>6, <1>8, <1>9, BehindStep

\* The input channel after the worker has received from it.
LEMMA InputTail ==
    ASSUME IInv, inputChan # Empty, inputChan' = Tail(inputChan),
           \A b \in Elems(inputChan) : PointsOf(b)' = PointsOf(b),
           accepted' \subseteq accepted \cup PointsOf(Head(inputChan))
    PROVE  InputOK'
<1>1. inputChan \in Seq(Addr) /\ InputOK
  BY DEF IInv, ShapeOK, Account
<1>2. /\ Head(inputChan) = inputChan[1] /\ 1 \in 1..Len(inputChan)
      /\ \A i \in 1..Len(inputChan') :
            i + 1 \in 1..Len(inputChan) /\ i + 1 # 1 /\ inputChan'[i] = inputChan[i + 1]
  BY <1>1, ElemsTail
<1>3. \A i \in 1..Len(inputChan') : (PointsOf(inputChan[i]))' = PointsOf(inputChan[i + 1])
  <2>1. ASSUME NEW i \in 1..Len(inputChan') PROVE (PointsOf(inputChan[i]))' = PointsOf(inputChan[i + 1])
    <3>1. PICK b : b = inputChan[i + 1]
      OBVIOUS
    <3>2. b \in Elems(inputChan)
      BY <1>2, <3>1 DEF Elems
    <3>3. (PointsOf(inputChan[i]))' = PointsOf(b)'
      BY <1>2, <3>1 DEF PointsOf, Elems, MetricOf
    <3> QED BY <3>1, <3>2, <3>3
  <2> QED BY <2>1
<1>4. ASSUME NEW i \in 1..Len(inputChan') PROVE (PointsOf(inputChan[i]) \cap accepted)' = {}
  <2>1. PointsOf(inputChan[i + 1]) \cap (accepted \cup PointsOf(inputChan[1])) = {}
    BY <1>1, <1>2 DEF InputOK
  <2> QED BY <1>2, <1>3, <2>1
<1>5. ASSUME NEW i \in 1..Len(inputChan'), NEW j \in 1..Len(inputChan'), i # j
      PROVE  (PointsOf(inputChan[i]) \cap PointsOf(inputChan[j]))' = {}
  <2>1. i + 1 # j + 1
    BY <1>5
  <2>2. PointsOf(inputChan[i + 1]) \cap PointsOf(inputChan[j + 1]) = {}
    BY <1>1, <1>2, <2>1 DEF InputOK
  <2> QED BY <1>3, <2>2
<1> QED BY <1>4, <1>5 DEF InputOK

\* A message that leaves the input channel and is not added leaves no trace.
LEMMA InputDropStep ==
    ASSUME IInv, inputChan # Empty, inputChan' = Tail(inputChan),
           UNCHANGED <<obj, next, data, size, metricCount, queue, values, p, notConfirmed,
                       outputChan, taken, confirmChan, written, accepted>>
    PROVE  Account'
<1>1. ShapeOK /\ Account
  BY DEF IInv
<1>2. /\ inputChan \in Seq(Addr) /\ inputChan # Empty /\ inputChan' = Tail(inputChan)
      /\ UNCHANGED <<obj, next, data, size, metricCount, queue, values, p, notConfirmed,
                     outputChan, taken, confirmChan, written, accepted>>
  BY <1>1 DEF ShapeOK
<1>3. \A b : PointsOf(b)' = PointsOf(b)
  BY <1>2 DEF PointsOf, Elems, MetricOf
<1>4. /\ CachedAddrs' = CachedAddrs /\ HeldAddrs' = HeldAddrs /\ InFlightAddrs' = InFlightAddrs
      /\ BehindAddrs' = BehindAddrs /\ Elems(confirmChan)' = Elems(confirmChan)
  BY <1>2 DEF CachedAddrs, HeldAddrs, InFlightAddrs, BehindAddrs, Elems
<1>5. Elems(inputChan)' \subseteq Elems(inputChan)
  <2>1. Elems(inputChan') \subseteq Elems(inputChan)
    BY <1>2, ElemsTail
  <2> QED BY <2>1 DEF Elems
<1>6. /\ Cached' = Cached /\ InHand' = InHand /\ InFlight' = InFlight
      /\ PointsAt(BehindAddrs)' = PointsAt(BehindAddrs)
      /\ PointsAt(Elems(confirmChan))' = PointsAt(Elems(confirmChan))
  BY <1>3, <1>4 DEF Cached, InHand, InFlight, PointsAt
<1>7. MapOK' /\ QueueFresh' /\ SizeExact' /\ NoLoss' /\ BehindOK'
  BY <1>1, <1>2, <1>4, <1>6 DEF Account, MapOK, QueueFresh, SizeExact, NoLoss, BehindOK, MetricOf
<1>8. ObjectsOK' /\ AcceptedOK'
  <2>1. LiveAddrs' \subseteq LiveAddrs
    BY <1>4, <1>5 DEF LiveAddrs
  <2> QED BY <1>1, <1>2, <2>1 DEF Account, ObjectsOK, AcceptedOK
<1>9. InputOK'
  BY <1>2, <1>3, InputTail
<1> QED BY <1>7, <1>8, <1>9 DEF Account

\* So it is when the message is dropped because the cache is full.
LEMMA OverflowStep == ASSUME IInv, SelectOverflow PROVE Account'
BY InputDropStep DEF SelectOverflow, storeVars, trackVars, persistVars

\* What Add does to the accounts when the step has made the message's points
\* cached points, whether by extending an object or by filing the message.
LEMMA AddAccount ==
    ASSUME IInv, NEW a \in Elems(inputChan),
           accepted' = accepted \cup PointsOf(a),
           Cached' = Cached \cup PointsOf(a),
           InHand' = InHand, InFlight' = InFlight, UNCHANGED <<next, written>>,
           PointsAt(BehindAddrs)' = PointsAt(BehindAddrs),
           PointsAt(Elems(confirmChan))' = PointsAt(Elems(confirmChan)),
           size' = size + Len(obj[a])
    PROVE  AcceptedOK' /\ BehindOK' /\ NoLoss' /\ size' = Cardinality(Cached')
<1>1. ShapeOK /\ Account
  BY DEF IInv
<1>2. a \in LiveAddrs /\ a \in Addr
  BY <1>1, LiveAddrsType DEF LiveAddrs
<1>3. PointsOf(a) \cap accepted = {}
  BY <1>1 DEF Account, InputOK, Elems
<1>4. AcceptedOK'
  <2>1. \A x \in PointsOf(a) : x[2] < next[x[1]]
    BY <1>1, <1>2 DEF Account, ObjectsOK, PointsOf, Elems, MetricOf
  <2> QED BY <1>1, <2>1 DEF Account, AcceptedOK
<1>5. BehindOK' /\ NoLoss'
  BY <1>1, <1>3 DEF Account, BehindOK, NoLoss
<1>6. size' = Cardinality(Cached')
  <2>1. PointsOf(a) \subseteq Point /\ Cardinality(PointsOf(a)) = Len(obj[a])
    BY <1>1, <1>2, PointsOfObject DEF ShapeOK, Account, ObjectsOK
  <2>2. Cached \subseteq accepted /\ Cached \subseteq Point
    BY <1>1 DEF Account, NoLoss, ShapeOK
  <2>3. Cached \cap PointsOf(a) = {}
    BY <1>3, <2>2
  <2>4. Cardinality(Cached \cup PointsOf(a)) = Cardinality(Cached) + Cardinality(PointsOf(a))
    BY <2>1, <2>2, <2>3, DisjointCount, Zenon
  <2> QED BY <1>1, <2>1, <2>4 DEF Account, SizeExact
<1> QED BY <1>4, <1>5, <1>6

\* An object with a point in it is in one place only.
LEMMA Elsewhere ==
    ASSUME IInv, NEW b \in LiveAddrs
    PROVE  /\ PointsOf(b) # {}
           /\ b \in CachedAddrs => b \notin Elems(inputChan) \cup HeldAddrs \cup InFlightAddrs
                                                \cup BehindAddrs
<1>1. ShapeOK /\ Account
  BY DEF IInv
<1>2. PointsOf(b) # {}
  <2>1. obj[b] \in Seq(Serial) /\ obj[b] # Empty
    BY <1>1, LiveAddrsType, ObjectType DEF Account, ObjectsOK
  <2>2. 1 \in 1..Len(obj[b])
    BY <2>1, ElemsTail
  <2> QED BY <2>2 DEF PointsOf, Elems
<1>3. b \in CachedAddrs => PointsOf(b) \subseteq Cached
  BY DEF Cached, PointsAt
<1>4. b \in Elems(inputChan) => PointsOf(b) \cap Cached = {}
  <2>1. b \in Elems(inputChan) => PointsOf(b) \cap accepted = {}
    BY <1>1 DEF Account, InputOK, Elems
  <2> QED BY <1>1, <2>1 DEF Account, NoLoss
<1>5. b \in HeldAddrs => PointsOf(b) \cap Cached = {}
  BY <1>1 DEF Account, NoLoss, InHand, PointsAt
<1>6. b \in InFlightAddrs => PointsOf(b) \cap Cached = {}
  BY <1>1 DEF Account, NoLoss, InFlight, PointsAt
<1>7. b \in BehindAddrs => PointsOf(b) \cap Cached = {}
  BY <1>1 DEF Account, BehindOK, PointsAt
<1> QED BY <1>2, <1>3, <1>4, <1>5, <1>6, <1>7

\* Add to a metric that has no object: the message becomes that object.
LEMMA AddNewStep ==
    ASSUME IInv, SelectReceive, data[MetricOf(Head(inputChan))] = Nil
    PROVE  Account'
<1>1. ShapeOK /\ Account
  BY DEF IInv
<1>2. PICK a : a = Head(inputChan)
  OBVIOUS
<1>3. /\ inputChan \in Seq(Addr) /\ inputChan # Empty /\ inputChan' = Tail(inputChan)
      /\ data' = [data EXCEPT ![MetricOf(a)] = a] /\ metricCount' = metricCount + 1
      /\ size' = size + Len(obj[a]) /\ accepted' = accepted \cup PointsOf(a)
      /\ UNCHANGED <<obj, next, queue, values, p, notConfirmed, outputChan, taken,
                     confirmChan, written>>
  BY <1>1, <1>2 DEF SelectReceive, Add, ShapeOK, trackVars, persistVars
<1>4. /\ a \in Elems(inputChan) /\ a \in Addr /\ a \in LiveAddrs
      /\ Elems(inputChan') \subseteq Elems(inputChan)
  BY <1>2, <1>3, ElemsTail DEF LiveAddrs
<1>5. MetricOf(a) \in Metric /\ Nil \notin Addr /\ data \in [Metric -> Addr \cup {Nil}]
  BY <1>1, <1>4, NilAssumption DEF ShapeOK, MetricOf, Addr, Point
<1>6. \A b : PointsOf(b)' = PointsOf(b)
  BY <1>3 DEF PointsOf, Elems, MetricOf
<1>7. data[MetricOf(a)] = Nil
  BY <1>2
<1>8. data'[MetricOf(a)] = a /\ \A m \in Metric : m # MetricOf(a) => data'[m] = data[m]
  BY <1>3, <1>5
<1>9. CachedAddrs' = CachedAddrs \cup {a}
  <2>1. CachedAddrs' \subseteq CachedAddrs \cup {a}
    BY <1>5, <1>8 DEF CachedAddrs
  <2>2. CachedAddrs \subseteq CachedAddrs'
    BY <1>5, <1>7, <1>8 DEF CachedAddrs
  <2>3. a \in CachedAddrs'
    BY <1>4, <1>5, <1>8 DEF CachedAddrs
  <2> QED BY <2>1, <2>2, <2>3
<1>10. a \notin CachedAddrs
  BY <1>4, Elsewhere
<1>11. /\ HeldAddrs' = HeldAddrs /\ InFlightAddrs' = InFlightAddrs
       /\ BehindAddrs' = BehindAddrs /\ Elems(confirmChan)' = Elems(confirmChan)
  BY <1>3 DEF HeldAddrs, InFlightAddrs, BehindAddrs, Elems
<1>12. /\ InHand' = InHand /\ InFlight' = InFlight
       /\ PointsAt(BehindAddrs)' = PointsAt(BehindAddrs)
       /\ PointsAt(Elems(confirmChan))' = PointsAt(Elems(confirmChan))
       /\ Cached' = Cached \cup PointsOf(a)
  BY <1>6, <1>9, <1>11 DEF InHand, InFlight, Cached, PointsAt
<1>13. AcceptedOK' /\ BehindOK' /\ NoLoss' /\ size' = Cardinality(Cached')
  BY <1>3, <1>4, <1>12, AddAccount
<1>14. metricCount' = Cardinality(CachedAddrs')
  <2>1. Cardinality(CachedAddrs \cup {a}) = Cardinality(CachedAddrs) + 1
    BY <1>1, <1>10, CachedFinite, FS_AddElement
  <2> QED BY <1>1, <1>3, <1>9, <2>1 DEF Account, SizeExact
<1>15. MapOK'
  BY <1>1, <1>8 DEF Account, MapOK, MetricOf
<1>16. QueueFresh'
  <2>1. \A i \in 1..Len(queue) : queue[i] \in Addr /\ data[MetricOf(queue[i])] = queue[i]
    BY <1>1 DEF ShapeOK, Account, QueueFresh
  <2>2. \A b \in Addr : MetricOf(b) \in Metric
    BY DEF MetricOf, Addr, Point
  <2>3. \A i \in 1..Len(queue) : data'[MetricOf(queue[i])] = queue[i]
    BY <1>5, <1>7, <1>8, <2>1, <2>2
  <2> QED BY <1>1, <1>3, <2>3 DEF Account, QueueFresh, MetricOf
<1>17. ObjectsOK'
  <2>1. Elems(inputChan)' \subseteq Elems(inputChan)
    BY <1>4 DEF Elems
  <2>2. LiveAddrs' \subseteq LiveAddrs
    BY <1>4, <1>9, <1>11, <2>1 DEF LiveAddrs
  <2> QED BY <1>1, <1>3, <2>2 DEF Account, ObjectsOK
<1>18. InputOK'
  BY <1>2, <1>3, <1>6, InputTail
<1> QED BY <1>13, <1>14, <1>15, <1>16, <1>17, <1>18 DEF Account, SizeExact

\* Add to a metric that has an object: Append extends it in place, and no
\* other reader sees it, since it is in the map and nowhere else.
LEMMA AddExtendStep ==
    ASSUME IInv, SelectReceive, data[MetricOf(Head(inputChan))] # Nil
    PROVE  Account'
<1>1. ShapeOK /\ Account
  BY DEF IInv
<1>2. PICK a, d : a = Head(inputChan) /\ d = data[MetricOf(a)]
  OBVIOUS
<1>3. /\ inputChan \in Seq(Addr) /\ inputChan # Empty /\ inputChan' = Tail(inputChan)
      /\ obj' = [obj EXCEPT ![d] = @ \o obj[a]]
      /\ size' = size + Len(obj[a]) /\ accepted' = accepted \cup PointsOf(a)
      /\ UNCHANGED <<next, data, metricCount, queue, values, p, notConfirmed, outputChan,
                     taken, confirmChan, written>>
  BY <1>1, <1>2 DEF SelectReceive, Add, ShapeOK, trackVars, persistVars
<1>4. /\ a \in Elems(inputChan) /\ a \in Addr /\ a \in LiveAddrs
      /\ Elems(inputChan') \subseteq Elems(inputChan)
  BY <1>2, <1>3, ElemsTail DEF LiveAddrs
<1>5. /\ MetricOf(a) \in Metric /\ d \in Addr /\ MetricOf(d) = MetricOf(a)
      /\ d \in CachedAddrs /\ d \in LiveAddrs
  <2>1. MetricOf(a) \in Metric
    BY <1>4 DEF MetricOf, Addr, Point
  <2>2. d \in Addr /\ MetricOf(d) = MetricOf(a) /\ d \in CachedAddrs
    BY <1>1, <1>2, <2>1 DEF ShapeOK, Account, MapOK, CachedAddrs
  <2> QED BY <2>1, <2>2 DEF LiveAddrs
<1>6. d \notin Elems(inputChan) \cup HeldAddrs \cup InFlightAddrs \cup BehindAddrs
  BY <1>5, Elsewhere
<1>7. obj[a] \in Seq(Serial) /\ obj[d] \in Seq(Serial) /\ obj \in [Addr -> Seq(Serial)]
  BY <1>1, <1>4, <1>5 DEF ShapeOK
<1>8. obj'[d] = obj[d] \o obj[a] /\ \A b \in Addr : b # d => obj'[b] = obj[b]
  BY <1>3, <1>5, <1>7
<1>9. \A b \in Addr : b # d => PointsOf(b)' = PointsOf(b)
  BY <1>8 DEF PointsOf, Elems, MetricOf
<1>10. PointsOf(d)' = PointsOf(d) \cup PointsOf(a)
  <2>1. Elems(obj[d] \o obj[a]) = Elems(obj[d]) \cup Elems(obj[a])
    BY <1>7, ElemsConcat
  <2>2. PointsOf(d)' = {<<MetricOf(d), n>> : n \in Elems(obj'[d])}
    BY DEF PointsOf, Elems, MetricOf
  <2> QED BY <1>5, <1>8, <2>1, <2>2 DEF PointsOf
<1>11. LiveAddrs \subseteq Addr
  BY <1>1, LiveAddrsType
<1>12. /\ CachedAddrs' = CachedAddrs /\ HeldAddrs' = HeldAddrs
       /\ InFlightAddrs' = InFlightAddrs /\ BehindAddrs' = BehindAddrs
       /\ Elems(confirmChan)' = Elems(confirmChan)
  BY <1>3 DEF CachedAddrs, HeldAddrs, InFlightAddrs, BehindAddrs, Elems
<1>13. /\ InHand' = InHand /\ InFlight' = InFlight
       /\ PointsAt(BehindAddrs)' = PointsAt(BehindAddrs)
       /\ PointsAt(Elems(confirmChan))' = PointsAt(Elems(confirmChan))
  <2>1. \A b \in HeldAddrs \cup InFlightAddrs \cup BehindAddrs : PointsOf(b)' = PointsOf(b)
    BY <1>6, <1>9, <1>11 DEF LiveAddrs
  <2>2. \A b \in Elems(confirmChan) : PointsOf(b)' = PointsOf(b)
    BY <2>1 DEF BehindAddrs
  <2> QED BY <1>12, <2>1, <2>2 DEF InHand, InFlight, PointsAt
<1>14. Cached' = Cached \cup PointsOf(a)
  <2>1. CachedAddrs \subseteq Addr
    BY <1>11 DEF LiveAddrs
  <2> QED BY <1>5, <1>9, <1>10, <1>12, <2>1 DEF Cached, PointsAt
<1>15. AcceptedOK' /\ BehindOK' /\ NoLoss' /\ size' = Cardinality(Cached')
  BY <1>3, <1>4, <1>13, <1>14, AddAccount
<1>16. MapOK' /\ QueueFresh' /\ metricCount' = Cardinality(CachedAddrs')
  BY <1>1, <1>3, <1>12 DEF Account, MapOK, QueueFresh, SizeExact, MetricOf
<1>17. InputOK'
  <2>1. \A b \in Elems(inputChan) : PointsOf(b)' = PointsOf(b)
    BY <1>6, <1>9, <1>11 DEF LiveAddrs
  <2> QED BY <1>2, <1>3, <2>1, InputTail
<1>18. ObjectsOK'
  <2>1. LiveAddrs' \subseteq LiveAddrs
    <3>1. Elems(inputChan)' \subseteq Elems(inputChan)
      BY <1>4 DEF Elems
    <3> QED BY <1>12, <3>1 DEF LiveAddrs
  <2>2. ASSUME NEW b \in LiveAddrs, b # d
        PROVE  /\ obj'[b] # Empty /\ b[2] < next'[b[1]]
               /\ \A i \in 1..Len(obj'[b]) : obj'[b][i] < next'[b[1]]
               /\ \A i, j \in 1..Len(obj'[b]) : obj'[b][i] = obj'[b][j] => i = j
    <3>1. obj'[b] = obj[b] /\ next' = next
      BY <1>3, <1>8, <1>11, <2>2
    <3> QED BY <1>1, <3>1 DEF Account, ObjectsOK
  <2>3. /\ obj'[d] # Empty /\ d[2] < next'[d[1]]
        /\ \A i \in 1..Len(obj'[d]) : obj'[d][i] < next'[d[1]]
        /\ \A i, j \in 1..Len(obj'[d]) : obj'[d][i] = obj'[d][j] => i = j
    <3> DEFINE s == obj[d]
               t == obj[a]
    <3>1. /\ s # Empty /\ d[2] < next[d[1]]
          /\ \A i \in 1..Len(s) : s[i] < next[d[1]]
          /\ \A i, j \in 1..Len(s) : s[i] = s[j] => i = j
      BY <1>1, <1>5 DEF Account, ObjectsOK
    <3>2. /\ \A i \in 1..Len(t) : t[i] < next[d[1]]
          /\ \A i, j \in 1..Len(t) : t[i] = t[j] => i = j
      BY <1>1, <1>4, <1>5 DEF Account, ObjectsOK, MetricOf
    <3>3. \A i \in 1..Len(s), j \in 1..Len(t) : s[i] # t[j]
      <4>1. PointsOf(d) \cap PointsOf(a) = {}
        <5>1. PointsOf(d) \subseteq accepted
          BY <1>1, <1>5 DEF Account, NoLoss, Cached, PointsAt
        <5>2. PointsOf(a) \cap accepted = {}
          BY <1>1, <1>4 DEF Account, InputOK, Elems
        <5> QED BY <5>1, <5>2
      <4>2. \A i \in 1..Len(s) : <<MetricOf(d), s[i]>> \in PointsOf(d)
        BY DEF PointsOf, Elems
      <4>3. \A j \in 1..Len(t) : <<MetricOf(d), t[j]>> \in PointsOf(a)
        BY <1>5 DEF PointsOf, Elems
      <4> QED BY <4>1, <4>2, <4>3
    <3>4. s \in Seq(Serial) /\ t \in Seq(Serial)
      BY <1>7
    <3> HIDE DEF s, t
    <3>5. /\ Len(s \o t) = Len(s) + Len(t) /\ Len(s) \in Nat /\ Len(t) \in Nat
          /\ \A i \in 1..(Len(s) + Len(t)) :
                (s \o t)[i] = IF i <= Len(s) THEN s[i] ELSE t[i - Len(s)]
      BY <3>4
    <3>6. \A i \in 1..Len(s \o t) :
              \/ i \in 1..Len(s) /\ (s \o t)[i] = s[i]
              \/ i - Len(s) \in 1..Len(t) /\ (s \o t)[i] = t[i - Len(s)]
      BY <3>5
    <3>7. \A i \in 1..Len(s \o t) : (s \o t)[i] < next[d[1]]
      BY <3>1, <3>2, <3>6
    <3>8. \A i, j \in 1..Len(s \o t) : (s \o t)[i] = (s \o t)[j] => i = j
      BY <3>1, <3>2, <3>3, <3>5, <3>6
    <3>9. s \o t # Empty
      <4>1. Len(s) # 0
        BY <3>1, <3>4 DEF Empty
      <4> QED BY <3>5, <4>1 DEF Empty
    <3>10. obj'[d] = s \o t /\ next' = next
      BY <1>3, <1>8 DEF s, t
    <3> QED BY <3>1, <3>7, <3>8, <3>9, <3>10
  <2> QED BY <2>1, <2>2, <2>3 DEF ObjectsOK
<1> QED BY <1>15, <1>16, <1>17, <1>18 DEF Account, SizeExact

(***************************************************************************)
(* The invariant and what follows from it.                                 *)
(***************************************************************************)
\* SetWriteStrategy leaves one of the three strategies in force whatever
\* string it is given.
LEMMA StrategyKnown ==
    ASSUME NEW s
    PROVE  SetWriteStrategy(s) \in {"MaximumLength", "TimestampOrder", "Noop"}
<1>1. CASE s = "max"
  BY <1>1 DEF SetWriteStrategy
<1>2. CASE s = "sort"
  BY <1>2 DEF SetWriteStrategy
<1>3. CASE s = "noop"
  BY <1>3 DEF SetWriteStrategy
<1>4. CASE s \notin {"max", "sort", "noop"}
  BY <1>4 DEF SetWriteStrategy
<1> QED BY <1>1, <1>2, <1>3, <1>4

\* The cache that New makes satisfies the invariant.
LEMMA InitInv == Init => IInv
<1> SUFFICES ASSUME Init PROVE IInv
  OBVIOUS
<1>1. Empty \in Seq(Addr) /\ Empty \in Seq(Query) /\ Empty \in Seq(Serial) /\ Len(Empty) = 0
  BY DEF Empty
<1>2. Elems(Empty) = {}
  BY <1>1 DEF Elems
<1>3. ShapeOK
  <2>1. writeStrategy \in {"MaximumLength", "TimestampOrder", "Noop"}
    BY StrategyKnown DEF Init
  <2>2. NewQuery \in QueryObject
    BY <1>1 DEF NewQuery, QueryObject
  <2>3. query \in [Query -> QueryObject]
    BY <2>2 DEF Init
  <2>4. /\ workerPC = "loop" /\ held = Nil /\ Nil \notin Query
        /\ Len(queryChan) = 0 /\ Len(trackerChan) = 0
    BY <1>1, NilAssumption DEF Init
  <2>5. /\ obj \in [Addr -> Seq(Serial)] /\ next \in [Metric -> Nat \ {0}]
        /\ data \in [Metric -> Addr \cup {Nil}] /\ notConfirmed \in [Metric -> Seq(Addr)]
    BY <1>1 DEF Init
  <2>6. /\ inputChan \in Seq(Addr) /\ queue \in Seq(Addr) /\ outputChan \in Seq(Addr)
        /\ confirmChan \in Seq(Addr) /\ queryChan \in Seq(Query) /\ trackerChan \in Seq(Query)
    BY <1>1 DEF Init
  <2>7. /\ values \in Addr \cup {Nil} /\ p \in Addr \cup {Nil} /\ trackerPC = "run"
        /\ taken \in SUBSET Addr /\ exit \in BOOLEAN
        /\ accepted \in SUBSET Point /\ written \in SUBSET Point
    BY DEF Init
  <2>8. /\ \A i \in 1..Len(queryChan) : query[queryChan[i]].metric \in Metric
        /\ \A i \in 1..Len(trackerChan) : query[trackerChan[i]].metric \in Metric
    BY <2>4
  <2> QED BY <2>1, <2>3, <2>4, <2>5, <2>6, <2>7, <2>8 DEF ShapeOK
<1>4. CachedAddrs = {} /\ HeldAddrs = {} /\ InFlightAddrs = {} /\ BehindAddrs = {}
      /\ LiveAddrs = {} /\ Elems(confirmChan) = {}
  BY <1>2 DEF Init, CachedAddrs, HeldAddrs, InFlightAddrs, BehindAddrs, LiveAddrs
<1>5. Cached = {} /\ InHand = {} /\ InFlight = {} /\ PointsAt(BehindAddrs) = {}
      /\ PointsAt(Elems(confirmChan)) = {}
  BY <1>4 DEF Cached, InHand, InFlight, PointsAt
<1>6. MapOK /\ QueueFresh /\ ObjectsOK /\ AcceptedOK /\ InputOK
  <2>1. MapOK
    BY DEF Init, MapOK
  <2>2. QueueFresh /\ InputOK
    BY <1>1 DEF Init, QueueFresh, InputOK
  <2>3. ObjectsOK /\ AcceptedOK
    BY <1>4 DEF Init, ObjectsOK, AcceptedOK
  <2> QED BY <2>1, <2>2, <2>3
<1>7. BehindOK /\ NoLoss
  BY <1>5 DEF Init, BehindOK, NoLoss
<1>8. SizeExact
  BY <1>4, <1>5, FS_EmptySet DEF Init, SizeExact
<1> QED BY <1>3, <1>6, <1>7, <1>8 DEF IInv, Account

\* Every step of the cache keeps the accounts.
LEMMA AccountStep == IInv /\ [Next]_vars => Account'
<1> SUFFICES ASSUME IInv, [Next]_vars PROVE Account'
  OBVIOUS
<1>0. ShapeOK /\ Account
  BY DEF IInv
<1>1. CASE \/ LoopKeep \/ LoopEmpty \/ SelectQuery \/ ForwardQuery \/ SelectExit
           \/ TrackerQuery \/ TrackerExit \/ Stop \/ UNCHANGED vars
           \/ \E q \in Query, m \in Metric : Ask(q, m)
  <2>1. UNCHANGED accountVars
    BY <1>1 DEF LoopKeep, LoopEmpty, SelectQuery, ForwardQuery, SelectExit, TrackerQuery,
                TrackerExit, Stop, Ask, vars, accountVars, inVars, storeVars, workerVars,
                trackVars, queryVars, persistVars, fixedVars, unchangedByLoop,
                unchangedByTracker
  <2> QED BY <1>0, <2>1, QuietStep
<1>2. CASE LoopPopQueued \/ LoopRebuild
  <2>1. /\ values = Nil
        /\ UNCHANGED <<obj, next, inputChan, p, notConfirmed, outputChan, taken,
                       confirmChan, written, accepted>>
    BY <1>2 DEF LoopPopQueued, LoopRebuild, unchangedByLoop, inVars, trackVars, persistVars
  <2>2. CASE LoopPopQueued
    <3>1. queue \in Seq(Addr) /\ queue # Empty /\ PopFrom(queue)
      BY <1>0, <2>2 DEF LoopPopQueued, ShapeOK
    <3>2. /\ \A i \in 1..Len(queue) : data[MetricOf(queue[i])] = queue[i]
          /\ \A i, j \in 1..Len(queue) : queue[i] = queue[j] => i = j
      BY <1>0 DEF Account, QueueFresh
    <3> QED BY <2>1, <3>1, <3>2, PopStep
  <2>3. CASE LoopRebuild
    <3>1. PICK q \in updateQueue : PopFrom(q)
      BY <2>3 DEF LoopRebuild
    <3>2. /\ q \in Seq(Addr) /\ q # Empty
          /\ \A i \in 1..Len(q) : data[MetricOf(q[i])] = q[i]
          /\ \A i, j \in 1..Len(q) : q[i] = q[j] => i = j
      BY <1>0, <2>3, RebuiltQueue DEF LoopRebuild, Account
    <3> QED BY <2>1, <3>1, <3>2, PopStep
  <2> QED BY <1>2, <2>2, <2>3
<1>3. CASE SelectSend
  BY <1>3, SendStep
<1>4. CASE SelectReceive
  BY <1>4, AddNewStep, AddExtendStep
<1>5. CASE SelectOverflow
  BY <1>5, OverflowStep
<1>6. CASE TrackerSend \/ Take \/ \E a \in Addr : Confirm(a)
  BY <1>6, PassOnStep
<1>7. CASE TrackerConfirm
  BY <1>7, TrackerConfirmStep
<1>8. CASE \E m \in Metric, k \in 1..MaxBatch : Receive(m, k)
  BY <1>8, ReceiveStep
<1> QED BY <1>1, <1>2, <1>3, <1>4, <1>5, <1>6, <1>7, <1>8 DEF Next, Worker, Tracker, Environment

\* The invariant is inductive: it holds in every reachable state.
THEOREM Invariance == Spec => []IInv
<1>1. IInv /\ [Next]_vars => IInv'
  BY ShapeStep, AccountStep DEF IInv
<1> QED BY InitInv, <1>1, PTL DEF Spec

\* Every variable keeps its type.  That size and metricCount never pass below
\* zero, although Remove subtracts from unsigned counters, needs the exact
\* accounting, not only types.
THEOREM TypeCorrect == Spec => []TypeOK
<1>1. IInv => TypeOK
  <2> SUFFICES ASSUME IInv PROVE TypeOK
    OBVIOUS
  <2>1. Cached \subseteq Point
    BY DEF IInv, Account, NoLoss, ShapeOK
  <2>2. Cardinality(Cached) \in Nat
    BY <2>1, PointFinite, FS_Subset, FS_CardinalityType
  <2>3. Cardinality(CachedAddrs) \in Nat
    BY CachedFinite DEF IInv
  <2> QED BY <2>2, <2>3 DEF IInv, Account, SizeExact, TypeOK
<1> QED BY Invariance, <1>1, PTL

\* The write-out queue never holds a stale or a double pointer, for every set
\* of metrics and every strategy: Pop never deletes points it does not return.
THEOREM QueueAlwaysFresh == Spec => []QueueFresh
<1>1. IInv => QueueFresh
  BY DEF IInv, Account
<1> QED BY Invariance, <1>1, PTL

\* No accepted point is lost or cached twice, for every capacity and size
\* limit, every number of metrics and every order of confirmations.
THEOREM NothingLost == Spec => []NoLoss
<1>1. IInv => NoLoss
  BY DEF IInv, Account
<1> QED BY Invariance, <1>1, PTL

\* The size that overflow protection and the shutdown loop read is exact.
THEOREM SizeAlwaysExact == Spec => []SizeExact
<1>1. IInv => SizeExact
  BY DEF IInv, Account
<1> QED BY Invariance, <1>1, PTL

(***************************************************************************)
(* What the cache hands over to other goroutines: the confirm tracker's    *)
(* map is exact, an object that was handed out is never changed, and the   *)
(* size limit is never exceeded by a whole message.  First the invariant.  *)
(***************************************************************************)
\* No message of a receiver is longer than MaxBatch.
InputShort == \A a \in Elems(inputChan) : Len(obj[a]) <= MaxBatch

\* The tracker files a batch under the metric it was made for.
FiledOK ==
    \A m \in Metric : \A a \in Elems(notConfirmed[m]) : MetricOf(a) = m

\* No element of a sequence stands in it twice.
Once(s) == \A i, j \in 1..Len(s) : s[i] = s[j] => i = j

\* A batch behind the worker is in one place only: with the tracker, in one of
\* the two channels or with the persister.
OncePlaced ==
    /\ Once(outputChan) /\ Once(confirmChan)
    /\ p \notin Elems(outputChan) \cup taken \cup Elems(confirmChan)
    /\ Elems(outputChan) \cap taken = {}
    /\ Elems(outputChan) \cap Elems(confirmChan) = {}
    /\ taken \cap Elems(confirmChan) = {}

\* No two unconfirmed batches share a point.
InFlightApart ==
    \A a, b \in InFlightAddrs : a # b => PointsOf(a) \cap PointsOf(b) = {}

\* The batches that replies point to, for as long as their readers like.
Shown == UNION {Elems(query[q].inFlight) : q \in Query}

\* A batch that a reply points to has left the map for good.
ShownOK ==
    /\ Shown \cap (CachedAddrs \cup Elems(inputChan)) = {}
    /\ \A a \in Shown : a \in Addr /\ a[2] < next[a[1]]

HandOverOK == /\ InputShort /\ FiledOK /\ TrackerExact /\ OncePlaced
              /\ InFlightApart /\ ShownOK

TInv == IInv /\ HandOverOK

(***************************************************************************)
(* Sequences without repetition.                                           *)
(***************************************************************************)
\* A send of something new keeps a channel free of repetitions.
LEMMA OnceAppend ==
    ASSUME NEW S, NEW s \in Seq(S), NEW x \in S, Once(s), x \notin Elems(s)
    PROVE  Once(Append(s, x))
<1>1. /\ Len(Append(s, x)) = Len(s) + 1 /\ Len(s) \in Nat
      /\ \A i \in 1..(Len(s) + 1) :
            Append(s, x)[i] = IF i = Len(s) + 1 THEN x ELSE s[i]
  OBVIOUS
<1>2. \A i \in 1..Len(s) : s[i] # x
  BY DEF Elems
<1> QED BY <1>1, <1>2 DEF Once

\* What a receive takes from such a channel is not in it any more.
LEMMA OnceTail ==
    ASSUME NEW S, NEW s \in Seq(S), s # Empty, Once(s)
    PROVE  /\ Once(Tail(s)) /\ Head(s) \notin Elems(Tail(s))
           /\ Elems(Tail(s)) = Elems(s) \ {Head(s)}
<1>1. /\ Elems(s) = {Head(s)} \cup Elems(Tail(s))
      /\ Head(s) = s[1] /\ Len(s) \in Nat \ {0}
      /\ \A i \in 1..Len(Tail(s)) : i + 1 \in 1..Len(s) /\ Tail(s)[i] = s[i + 1]
  BY ElemsTail
<1>2. \A i \in 1..Len(Tail(s)) : Tail(s)[i] # s[1]
  <2>1. 1 \in 1..Len(s)
    BY <1>1
  <2>2. \A i \in 1..Len(Tail(s)) : i + 1 # 1
    OBVIOUS
  <2> QED BY <1>1, <2>1, <2>2 DEF Once
<1>3. Once(Tail(s))
  <2> SUFFICES ASSUME NEW i \in 1..Len(Tail(s)), NEW j \in 1..Len(Tail(s)),
                      Tail(s)[i] = Tail(s)[j]
               PROVE  i = j
    BY DEF Once
  <2>1. i + 1 = j + 1
    BY <1>1 DEF Once
  <2> QED BY <2>1
<1>4. Head(s) \notin Elems(Tail(s))
  BY <1>1, <1>2 DEF Elems
<1> QED BY <1>1, <1>3, <1>4

\* Two sequences put together, place by place.
LEMMA Concat ==
    ASSUME NEW S, NEW s \in Seq(S), NEW t \in Seq(S)
    PROVE  /\ s \o t \in Seq(S) /\ Len(s \o t) = Len(s) + Len(t)
           /\ \A i \in 1..(Len(s) + Len(t)) :
                 (s \o t)[i] = IF i <= Len(s) THEN s[i] ELSE t[i - Len(s)]
OBVIOUS

\* Sequences of the same length with the same elements are the same.
LEMMA SeqEqual ==
    ASSUME NEW S, NEW s \in Seq(S), NEW t \in Seq(S), Len(s) = Len(t),
           \A i \in 1..Len(s) : s[i] = t[i]
    PROVE  s = t
OBVIOUS

\* Forget takes the batch out of a list that holds it at most once, and leaves
\* the other batches in their places.
LEMMA ForgetOnce ==
    ASSUME NEW S, NEW s \in Seq(S), Once(s), NEW a
    PROVE  /\ Once(Forget(s, a))
           /\ Elems(Forget(s, a)) = Elems(s) \ {a}
           /\ \A i \in 1..Len(s) :
                 s[i] = a => Forget(s, a) = SubSeq(s, 1, i - 1) \o SubSeq(s, i + 1, Len(s))
<1>1. CASE a \notin Elems(s)
  <2>1. \A i \in 1..Len(s) : s[i] # a
    BY <1>1 DEF Elems
  <2>2. Forget(s, a) = s
    BY <2>1 DEF Forget, FirstAt
  <2> QED BY <1>1, <2>1, <2>2
<1>2. CASE a \in Elems(s)
  <2>1. PICK k \in 1..Len(s) : s[k] = a
    BY <1>2 DEF Elems
  <2>2. \A i \in 1..Len(s) : s[i] = a => i = k
    BY <2>1 DEF Once
  <2>3. FirstAt(s, a, k)
    <3>1. \A j \in 1..(k - 1) : j \in 1..Len(s) /\ j # k
      BY <2>1
    <3> QED BY <2>1, <2>2, <3>1 DEF FirstAt
  <2>4. k = CHOOSE i \in 1..Len(s) : FirstAt(s, a, i)
    <3>1. \A i \in 1..Len(s) : FirstAt(s, a, i) => i = k
      BY <2>2 DEF FirstAt
    <3> QED BY <2>3, <3>1
  <2>5. Forget(s, a) = SubSeq(s, 1, k - 1) \o SubSeq(s, k + 1, Len(s))
    BY <2>3, <2>4 DEF Forget
  <2>6. PICK front, back : front = SubSeq(s, 1, k - 1) /\ back = SubSeq(s, k + 1, Len(s))
    OBVIOUS
  <2>7. /\ front \in Seq(S) /\ Len(front) = k - 1
        /\ \A j \in 1..(k - 1) : front[j] = s[j]
    BY <2>1, <2>6
  <2>8. /\ back \in Seq(S) /\ Len(back) = Len(s) - k
        /\ \A j \in 1..(Len(s) - k) : back[j] = s[k + j]
    BY <2>1, <2>6
  <2>9. PICK t : t = front \o back
    OBVIOUS
  <2>10. Forget(s, a) = t
    BY <2>5, <2>6, <2>9
  <2>11. /\ Len(t) = Len(s) - 1 /\ Len(s) \in Nat /\ k \in Nat
         /\ \A i \in 1..(Len(s) - 1) : t[i] = IF i < k THEN s[i] ELSE s[i + 1]
    <3>0. Len(s) \in Nat /\ k \in Nat
      BY <2>1
    <3>1. /\ Len(t) = Len(front) + Len(back)
          /\ \A i \in 1..(Len(front) + Len(back)) :
                t[i] = IF i <= Len(front) THEN front[i] ELSE back[i - Len(front)]
      BY <2>7, <2>8, <2>9, Concat
    <3>2. ASSUME NEW i \in 1..(Len(s) - 1) PROVE t[i] = IF i < k THEN s[i] ELSE s[i + 1]
      <4>1. CASE i < k
        <5>1. i \in 1..(k - 1) /\ i \in 1..(Len(front) + Len(back)) /\ i <= Len(front)
          BY <2>1, <2>7, <2>8, <4>1
        <5> QED BY <2>7, <3>1, <4>1, <5>1
      <4>2. CASE ~(i < k)
        <5>1. i - (k - 1) \in 1..(Len(s) - k) /\ k + (i - (k - 1)) = i + 1
          BY <2>1, <4>2
        <5>2. i \in 1..(Len(front) + Len(back)) /\ ~(i <= Len(front))
          BY <2>1, <2>7, <2>8, <4>2
        <5>3. t[i] = back[i - (k - 1)]
          BY <2>7, <3>1, <5>2
        <5> QED BY <2>8, <4>2, <5>1, <5>3
      <4> QED BY <4>1, <4>2
    <3> QED BY <3>0, <2>7, <2>8, <3>1, <3>2
  <2>12. Once(t)
    <3> SUFFICES ASSUME NEW i \in 1..(Len(s) - 1), NEW j \in 1..(Len(s) - 1), t[i] = t[j]
                 PROVE  i = j
      BY <2>11 DEF Once
    <3>1. i \in 1..Len(s) /\ j \in 1..Len(s) /\ i + 1 \in 1..Len(s) /\ j + 1 \in 1..Len(s)
      BY <2>11
    <3>2. \A x, y \in 1..Len(s) : s[x] = s[y] => x = y
      BY DEF Once
    <3>3. CASE i < k /\ j < k
      BY <2>11, <3>1, <3>2, <3>3
    <3>4. CASE ~(i < k) /\ ~(j < k)
      <4>1. i + 1 = j + 1
        BY <2>11, <3>1, <3>2, <3>4
      <4> QED BY <4>1
    <3>5. CASE i < k /\ ~(j < k)
      <4>1. i = j + 1
        BY <2>11, <3>1, <3>2, <3>5
      <4> QED BY <2>11, <3>5, <4>1
    <3>6. CASE ~(i < k) /\ j < k
      <4>1. i + 1 = j
        BY <2>11, <3>1, <3>2, <3>6
      <4> QED BY <2>11, <3>6, <4>1
    <3> QED BY <3>3, <3>4, <3>5, <3>6
  <2>13. a \notin Elems(t)
    <3>1. ASSUME NEW i \in 1..(Len(s) - 1) PROVE t[i] # a
      <4>1. CASE i < k
        BY <2>2, <2>11, <4>1
      <4>2. CASE ~(i < k)
        <5>1. i + 1 \in 1..Len(s) /\ i + 1 # k
          BY <2>11, <4>2
        <5> QED BY <2>2, <2>11, <4>2, <5>1
      <4> QED BY <4>1, <4>2
    <3> QED BY <2>11, <3>1 DEF Elems
  <2>14. Elems(t) \subseteq Elems(s) /\ Elems(s) \ {a} \subseteq Elems(t)
    BY <2>10, ForgetElems
  <2> QED BY <2>2, <2>5, <2>10, <2>12, <2>13, <2>14
<1> QED BY <1>1, <1>2

(***************************************************************************)
(* Objects.                                                                *)
(***************************************************************************)
\* The only objects a step may change are the ones in the map: every other
\* object that has ever been made stays as it is.
LEMMA ObjectKept ==
    ASSUME IInv, [Next]_vars, NEW b \in Addr, b[2] < next[b[1]], b \notin CachedAddrs
    PROVE  obj'[b] = obj[b] /\ PointsOf(b)' = PointsOf(b)
<1>1. ShapeOK /\ Account
  BY DEF IInv
<1>2. CASE UNCHANGED obj
  BY <1>2 DEF PointsOf, Elems, MetricOf
<1>3. ASSUME NEW m \in Metric, NEW k \in 1..MaxBatch, Receive(m, k) PROVE obj'[b] = obj[b]
  <2>1. obj' = [obj EXCEPT ![<<m, next[m]>>] = [i \in 1..k |-> next[m] + i - 1]]
    BY <1>3 DEF Receive
  <2>2. next[m] \in Nat
    BY <1>1 DEF ShapeOK
  <2>3. b # <<m, next[m]>>
    BY <2>2
  <2> QED BY <1>1, <2>1, <2>3 DEF ShapeOK
<1>4. ASSUME SelectReceive, ~UNCHANGED obj PROVE obj'[b] = obj[b]
  <2>1. PICK d : d = data[MetricOf(Head(inputChan))]
    OBVIOUS
  <2>2. d # Nil /\ obj' = [obj EXCEPT ![d] = @ \o obj[Head(inputChan)]]
    BY <1>4, <2>1 DEF SelectReceive, Add
  <2>3. MetricOf(Head(inputChan)) \in Metric
    <3>1. Head(inputChan) \in Addr
      BY <1>1, <1>4, ElemsTail DEF SelectReceive, ShapeOK
    <3> QED BY <3>1 DEF MetricOf, Addr, Point
  <2>4. d \in CachedAddrs
    BY <2>1, <2>2, <2>3 DEF CachedAddrs
  <2> QED BY <1>1, <2>2, <2>4 DEF ShapeOK
<1>5. \/ UNCHANGED obj \/ SelectReceive
      \/ \E m \in Metric, k \in 1..MaxBatch : Receive(m, k)
  BY DEF Next, Worker, Tracker, Environment, LoopKeep, LoopPopQueued, LoopRebuild, LoopEmpty,
         SelectQuery, ForwardQuery, SelectSend, SelectOverflow, SelectExit, TrackerSend,
         TrackerConfirm, TrackerQuery, TrackerExit, Ask, Take, Confirm, Stop, vars,
         unchangedByLoop, unchangedByTracker
<1>6. obj'[b] = obj[b]
  BY <1>2, <1>3, <1>4, <1>5
<1> QED BY <1>6 DEF PointsOf, Elems, MetricOf

\* An object that can be reached and is not in the map is kept by every step.
LEMMA LiveKept ==
    ASSUME IInv, [Next]_vars, NEW b \in LiveAddrs, b \notin CachedAddrs
    PROVE  b \in Addr /\ obj'[b] = obj[b] /\ PointsOf(b)' = PointsOf(b)
<1>1. b \in Addr
  BY LiveAddrsType DEF IInv
<1>2. b[2] < next[b[1]]
  BY DEF IInv, Account, ObjectsOK
<1> QED BY <1>1, <1>2, ObjectKept

\* What the worker holds or has handed over is neither in the map nor in the
\* input channel, and what it holds is not in the tracker's map.
LEMMA HandedApart ==
    ASSUME IInv
    PROVE  /\ (HeldAddrs \cup InFlightAddrs \cup BehindAddrs)
                  \cap (CachedAddrs \cup Elems(inputChan)) = {}
           /\ HeldAddrs \cap InFlightAddrs = {}
           /\ Elems(inputChan) \cap CachedAddrs = {}
<1>1. Account
  BY DEF IInv
<1>2. \A b \in LiveAddrs : PointsOf(b) # {}
  BY Elsewhere
<1>3. \A b \in HeldAddrs \cup InFlightAddrs \cup BehindAddrs : PointsOf(b) \subseteq accepted
  BY <1>1 DEF Account, NoLoss, BehindOK, InHand, InFlight, PointsAt
<1>4. \A b \in Elems(inputChan) : PointsOf(b) \cap accepted = {}
  BY <1>1 DEF Account, InputOK, Elems
<1>5. (HeldAddrs \cup InFlightAddrs \cup BehindAddrs) \cap Elems(inputChan) = {}
  BY <1>2, <1>3, <1>4 DEF LiveAddrs
<1>6. (Elems(inputChan) \cup HeldAddrs \cup InFlightAddrs \cup BehindAddrs) \cap CachedAddrs = {}
  BY Elsewhere DEF LiveAddrs
<1>7. HeldAddrs \cap InFlightAddrs = {}
  <2>1. \A b \in HeldAddrs \cap InFlightAddrs : PointsOf(b) \subseteq InHand \cap InFlight
    BY DEF InHand, InFlight, PointsAt
  <2> QED BY <1>1, <1>2, <2>1 DEF Account, NoLoss, LiveAddrs
<1> QED BY <1>5, <1>6, <1>7

(***************************************************************************)
(* The hand-over, step by step.                                            *)
(***************************************************************************)
\* Steps in which no batch behind the worker moves.
LEMMA QuietHandOver ==
    ASSUME TInv, [Next]_vars, UNCHANGED <<notConfirmed, p, outputChan, taken, confirmChan>>
    PROVE  FiledOK' /\ TrackerExact' /\ OncePlaced' /\ InFlightApart'
<1>1. InFlightAddrs' = InFlightAddrs /\ BehindAddrs' = BehindAddrs
  BY DEF InFlightAddrs, BehindAddrs, Elems
<1>2. FiledOK' /\ TrackerExact' /\ OncePlaced'
  <2>1. /\ \A m : Elems(notConfirmed[m])' = Elems(notConfirmed[m])
        /\ Elems(outputChan)' = Elems(outputChan) /\ Once(outputChan)' = Once(outputChan)
        /\ Elems(confirmChan)' = Elems(confirmChan) /\ Once(confirmChan)' = Once(confirmChan)
    BY DEF Elems, Once
  <2>2. FiledOK'
    BY <2>1 DEF TInv, HandOverOK, FiledOK, MetricOf
  <2>3. TrackerExact'
    BY <1>1 DEF TInv, HandOverOK, TrackerExact
  <2>4. OncePlaced'
    BY <2>1 DEF TInv, HandOverOK, OncePlaced
  <2> QED BY <2>2, <2>3, <2>4
<1>3. \A a \in InFlightAddrs : PointsOf(a)' = PointsOf(a)
  BY LiveKept, HandedApart DEF TInv, LiveAddrs
<1>4. InFlightApart'
  BY <1>1, <1>3 DEF TInv, HandOverOK, InFlightApart
<1> QED BY <1>2, <1>4

\* The worker's batch reaches the tracker: it is new there, and its points are
\* nobody else's.
LEMMA SendHandOver ==
    ASSUME TInv, SelectSend
    PROVE  FiledOK' /\ TrackerExact' /\ OncePlaced' /\ InFlightApart'
<1>1. IInv /\ ShapeOK /\ Account /\ HandOverOK
  BY DEF TInv, IInv
<1>2. PICK a : a = values
  OBVIOUS
<1>3. /\ a \in Addr /\ MetricOf(a) \in Metric /\ p = Nil /\ p' = a
      /\ notConfirmed' = [notConfirmed EXCEPT ![MetricOf(a)] = Append(@, a)]
      /\ notConfirmed \in [Metric -> Seq(Addr)]
      /\ UNCHANGED <<obj, outputChan, taken, confirmChan>>
  BY <1>1, <1>2 DEF SelectSend, AddNotConfirmed, ShapeOK, MetricOf, Addr, Point, persistVars
<1>4. HeldAddrs = {a}
  BY <1>2, <1>3, NilAssumption DEF HeldAddrs
<1>5. a \notin InFlightAddrs /\ a \notin BehindAddrs
  BY <1>1, <1>4, HandedApart DEF HandOverOK, TrackerExact
<1>6. /\ \A m \in Metric : m # MetricOf(a) => notConfirmed'[m] = notConfirmed[m]
      /\ notConfirmed'[MetricOf(a)] = Append(notConfirmed[MetricOf(a)], a)
  BY <1>3
<1>7. \A m \in Metric : Elems(notConfirmed'[m]) =
          Elems(notConfirmed[m]) \cup (IF m = MetricOf(a) THEN {a} ELSE {})
  BY <1>3, <1>6, ElemsAppend
<1>8. InFlightAddrs' = InFlightAddrs \cup {a}
  <2>1. InFlightAddrs' = UNION {Elems(notConfirmed'[m]) : m \in Metric}
    BY DEF InFlightAddrs, Elems
  <2>2. MetricOf(a) \in Metric
    BY <1>3
  <2> QED BY <1>7, <2>1, <2>2 DEF InFlightAddrs
<1>9. BehindAddrs' = BehindAddrs \cup {a}
  BY <1>3, NilAssumption DEF BehindAddrs, Elems
<1>10. FiledOK'
  <2>1. \A m \in Metric : \A b \in Elems(notConfirmed'[m]) : MetricOf(b) = m
    BY <1>1, <1>7 DEF HandOverOK, FiledOK
  <2> QED BY <2>1 DEF FiledOK, Elems, MetricOf
<1>11. TrackerExact'
  <2>1. \A m \in Metric : Once(notConfirmed[m]) /\ a \notin Elems(notConfirmed[m])
    BY <1>1, <1>5 DEF HandOverOK, TrackerExact, Once, InFlightAddrs
  <2>2. \A m \in Metric : Once(notConfirmed'[m])
    BY <1>3, <1>6, <2>1, OnceAppend
  <2> QED BY <1>1, <1>8, <1>9, <2>2 DEF HandOverOK, TrackerExact, Once
<1>12. OncePlaced'
  <2>1. a \notin Elems(outputChan) \cup taken \cup Elems(confirmChan)
    BY <1>5 DEF BehindAddrs
  <2>2. /\ Elems(outputChan)' = Elems(outputChan) /\ Once(outputChan)' = Once(outputChan)
        /\ Elems(confirmChan)' = Elems(confirmChan) /\ Once(confirmChan)' = Once(confirmChan)
    BY <1>3 DEF Elems, Once
  <2> QED BY <1>1, <1>3, <2>1, <2>2 DEF HandOverOK, OncePlaced
<1>13. InFlightApart'
  <2>1. \A b : PointsOf(b)' = PointsOf(b)
    BY <1>3 DEF PointsOf, Elems, MetricOf
  <2>2. \A b \in InFlightAddrs : PointsOf(b) \cap PointsOf(a) = {}
    BY <1>1, <1>4 DEF Account, NoLoss, InHand, InFlight, PointsAt
  <2> QED BY <1>1, <1>8, <2>1, <2>2 DEF HandOverOK, InFlightApart
<1> QED BY <1>10, <1>11, <1>12, <1>13

\* The tracker's send, the persister's receive and its confirmation pass a
\* batch on to one next place.
LEMMA PassHandOver ==
    ASSUME TInv, TrackerSend \/ Take \/ \E a \in Addr : Confirm(a)
    PROVE  FiledOK' /\ TrackerExact' /\ OncePlaced' /\ InFlightApart'
<1> USE DEF trackVars, persistVars, unchangedByTracker
<1>1. ShapeOK /\ HandOverOK /\ OncePlaced
  BY DEF TInv, IInv, HandOverOK
<1>2. UNCHANGED <<obj, notConfirmed>>
  BY DEF TrackerSend, Take, Confirm
<1>3. InFlightAddrs' = InFlightAddrs /\ \A b : PointsOf(b)' = PointsOf(b)
  BY <1>2 DEF InFlightAddrs, PointsOf, Elems, MetricOf
<1>4. FiledOK' /\ InFlightApart'
  BY <1>1, <1>2, <1>3 DEF HandOverOK, FiledOK, InFlightApart, Elems, MetricOf
<1>5. BehindAddrs' = ({p'} \ {Nil}) \cup Elems(outputChan') \cup taken' \cup Elems(confirmChan')
  BY DEF BehindAddrs, Elems
<1>6. OncePlaced' = ( /\ Once(outputChan') /\ Once(confirmChan')
                      /\ p' \notin Elems(outputChan') \cup taken' \cup Elems(confirmChan')
                      /\ Elems(outputChan') \cap taken' = {}
                      /\ Elems(outputChan') \cap Elems(confirmChan') = {}
                      /\ taken' \cap Elems(confirmChan') = {} )
  BY DEF OncePlaced, Once, Elems
<1>7. outputChan \in Seq(Addr) /\ confirmChan \in Seq(Addr) /\ taken \subseteq Addr /\ Nil \notin Addr
  BY <1>1, NilAssumption DEF ShapeOK
<1>8. Elems(outputChan) \subseteq Addr /\ Elems(confirmChan) \subseteq Addr
  BY <1>7 DEF Elems
<1>9. CASE TrackerSend
  <2>1. /\ p \in Addr /\ p' = Nil /\ outputChan' = Append(outputChan, p)
        /\ UNCHANGED <<taken, confirmChan>>
    BY <1>1, <1>9 DEF TrackerSend, ShapeOK
  <2>2. Elems(outputChan') = Elems(outputChan) \cup {p} /\ Once(outputChan')
    BY <1>1, <1>7, <2>1, ElemsAppend, OnceAppend DEF OncePlaced
  <2>3. BehindAddrs' = BehindAddrs
    BY <1>5, <1>7, <2>1, <2>2 DEF BehindAddrs
  <2>4. OncePlaced'
    BY <1>1, <1>6, <1>7, <1>8, <2>1, <2>2 DEF OncePlaced
  <2> QED BY <1>1, <1>2, <1>3, <1>4, <2>3, <2>4 DEF HandOverOK, TrackerExact
<1>10. CASE Take
  <2>1. /\ outputChan # Empty /\ outputChan' = Tail(outputChan)
        /\ taken' = taken \cup {Head(outputChan)} /\ UNCHANGED <<p, confirmChan>>
    BY <1>10 DEF Take
  <2>2. /\ Elems(outputChan) = {Head(outputChan)} \cup Elems(outputChan')
        /\ Once(outputChan') /\ Head(outputChan) \notin Elems(outputChan')
    BY <1>1, <1>7, <2>1, ElemsTail, OnceTail DEF OncePlaced
  <2>3. BehindAddrs' = BehindAddrs
    BY <1>5, <2>1, <2>2 DEF BehindAddrs
  <2>4. OncePlaced'
    BY <1>1, <1>6, <2>1, <2>2 DEF OncePlaced
  <2> QED BY <1>1, <1>2, <1>3, <1>4, <2>3, <2>4 DEF HandOverOK, TrackerExact
<1>11. ASSUME NEW a \in Addr, Confirm(a) PROVE TrackerExact' /\ OncePlaced'
  <2>1. /\ a \in taken /\ taken' = taken \ {a} /\ confirmChan' = Append(confirmChan, a)
        /\ UNCHANGED <<p, outputChan>>
    BY <1>11 DEF Confirm
  <2>2. Elems(confirmChan') = Elems(confirmChan) \cup {a} /\ Once(confirmChan')
    BY <1>1, <1>7, <2>1, ElemsAppend, OnceAppend DEF OncePlaced
  <2>3. BehindAddrs' = BehindAddrs
    BY <1>5, <2>1, <2>2 DEF BehindAddrs
  <2>4. OncePlaced'
    BY <1>1, <1>6, <2>1, <2>2 DEF OncePlaced
  <2> QED BY <1>1, <1>2, <1>3, <2>3, <2>4 DEF HandOverOK, TrackerExact
<1> QED BY <1>4, <1>9, <1>10, <1>11

\* The tracker's map after confirm: the batch is gone, the others are there.
LEMMA ForgetInFlight ==
    ASSUME TInv, TrackerConfirm, NEW a, a = Head(confirmChan)
    PROVE  /\ \A m \in Metric : /\ Once(notConfirmed'[m])
                                 /\ Elems(notConfirmed'[m]) = Elems(notConfirmed[m]) \ {a}
           /\ InFlightAddrs' = InFlightAddrs \ {a}
<1>1. ShapeOK /\ HandOverOK
  BY DEF TInv, IInv
<1>3. /\ notConfirmed' = [notConfirmed EXCEPT ![MetricOf(a)] = Forget(@, a)]
      /\ notConfirmed \in [Metric -> Seq(Addr)]
  BY <1>1 DEF TrackerConfirm, ShapeOK
<1>4. \A m \in Metric : notConfirmed[m] \in Seq(Addr) /\ Once(notConfirmed[m])
  BY <1>1, <1>3 DEF HandOverOK, TrackerExact, Once
<1>5. \A m \in Metric : Once(notConfirmed'[m]) /\ Elems(notConfirmed'[m]) = Elems(notConfirmed[m]) \ {a}
  <2> SUFFICES ASSUME NEW m \in Metric
               PROVE  Once(notConfirmed'[m]) /\ Elems(notConfirmed'[m]) = Elems(notConfirmed[m]) \ {a}
    OBVIOUS
  <2>1. CASE m = MetricOf(a)
    <3>1. notConfirmed'[m] = Forget(notConfirmed[m], a)
      BY <1>3, <2>1
    <3> QED BY <1>4, <3>1, ForgetOnce
  <2>2. CASE m # MetricOf(a)
    <3>1. notConfirmed'[m] = notConfirmed[m]
      BY <1>3, <2>2
    <3>2. a \notin Elems(notConfirmed[m])
      BY <1>1, <2>2 DEF HandOverOK, FiledOK
    <3> QED BY <1>4, <3>1, <3>2
  <2> QED BY <2>1, <2>2
<1>6. InFlightAddrs' = InFlightAddrs \ {a}
  <2>1. InFlightAddrs' = UNION {Elems(notConfirmed'[m]) : m \in Metric}
    BY DEF InFlightAddrs, Elems
  <2> QED BY <1>5, <2>1 DEF InFlightAddrs
<1> QED BY <1>5, <1>6

\* The tracker reads a confirmation: the batch was in its map once, and is
\* nowhere behind the worker any more.
LEMMA ForgetHandOver ==
    ASSUME TInv, TrackerConfirm
    PROVE  FiledOK' /\ TrackerExact' /\ OncePlaced' /\ InFlightApart'
<1> USE DEF unchangedByTracker
<1>1. ShapeOK /\ HandOverOK
  BY DEF TInv, IInv
<1>2. PICK a : a = Head(confirmChan)
  OBVIOUS
<1>3. /\ confirmChan \in Seq(Addr) /\ confirmChan # Empty /\ confirmChan' = Tail(confirmChan)
      /\ notConfirmed' = [notConfirmed EXCEPT ![MetricOf(a)] = Forget(@, a)]
      /\ notConfirmed \in [Metric -> Seq(Addr)]
      /\ UNCHANGED <<obj, p, outputChan, taken>>
  BY <1>1, <1>2 DEF TrackerConfirm, ShapeOK
<1>4. /\ Elems(confirmChan) = {a} \cup Elems(confirmChan') /\ a \in Addr
      /\ Once(confirmChan') /\ a \notin Elems(confirmChan')
  BY <1>1, <1>2, <1>3, ElemsTail, OnceTail DEF HandOverOK, OncePlaced
<1>5. /\ \A m \in Metric : Once(notConfirmed'[m]) /\ Elems(notConfirmed'[m]) = Elems(notConfirmed[m]) \ {a}
      /\ InFlightAddrs' = InFlightAddrs \ {a}
  BY <1>2, ForgetInFlight
<1>8. BehindAddrs' = BehindAddrs \ {a}
  <2>1. BehindAddrs' = ({p'} \ {Nil}) \cup Elems(outputChan') \cup taken' \cup Elems(confirmChan')
    BY DEF BehindAddrs, Elems
  <2>2. a \notin ({p} \ {Nil}) \cup Elems(outputChan) \cup taken
    BY <1>1, <1>4 DEF HandOverOK, OncePlaced
  <2> QED BY <1>3, <1>4, <2>1, <2>2 DEF BehindAddrs
<1>9. FiledOK'
  <2>1. \A m \in Metric : \A b \in Elems(notConfirmed'[m]) : MetricOf(b) = m
    BY <1>1, <1>5 DEF HandOverOK, FiledOK
  <2> QED BY <2>1 DEF FiledOK, Elems, MetricOf
<1>10. TrackerExact'
  BY <1>1, <1>5, <1>8 DEF HandOverOK, TrackerExact, Once
<1>11. OncePlaced'
  <2>1. Elems(confirmChan') = Elems(confirmChan)' /\ Once(confirmChan') = Once(confirmChan)'
    BY DEF Elems, Once
  <2>2. Elems(outputChan)' = Elems(outputChan) /\ Once(outputChan)' = Once(outputChan)
    BY <1>3 DEF Elems, Once
  <2> QED BY <1>1, <1>3, <1>4, <2>1, <2>2 DEF HandOverOK, OncePlaced
<1>12. InFlightApart'
  <2>1. \A b : PointsOf(b)' = PointsOf(b)
    BY <1>3 DEF PointsOf, Elems, MetricOf
  <2> QED BY <1>1, <1>5, <2>1 DEF HandOverOK, InFlightApart
<1> QED BY <1>9, <1>10, <1>11, <1>12

(***************************************************************************)
(* Where objects come from.                                                *)
(***************************************************************************)
\* The serial numbers given out only grow.
LEMMA NextGrows ==
    ASSUME IInv, [Next]_vars, NEW m \in Metric
    PROVE  next[m] \in Nat /\ next'[m] \in Nat /\ next[m] <= next'[m]
<1>1. ShapeOK
  BY DEF IInv
<1>2. next \in [Metric -> Nat \ {0}]
  BY <1>1 DEF ShapeOK
<1>3. CASE UNCHANGED next
  BY <1>2, <1>3
<1>4. ASSUME NEW n \in Metric, NEW k \in 1..MaxBatch, Receive(n, k)
      PROVE  next'[m] \in Nat /\ next[m] <= next'[m]
  <2>1. next' = [next EXCEPT ![n] = @ + k] /\ k \in Nat
    BY <1>4 DEF Receive
  <2> QED BY <1>2, <2>1
<1>5. UNCHANGED next \/ \E n \in Metric, k \in 1..MaxBatch : Receive(n, k)
  BY DEF Next, Worker, Tracker, Environment, LoopKeep, LoopPopQueued, LoopRebuild, LoopEmpty,
         SelectQuery, ForwardQuery, SelectSend, SelectReceive, SelectOverflow, SelectExit,
         TrackerSend, TrackerConfirm, TrackerQuery, TrackerExit, Ask, Take, Confirm, Stop, vars,
         unchangedByLoop, unchangedByTracker, inVars
<1> QED BY <1>2, <1>3, <1>4, <1>5

\* The map gets its objects from the input channel, and the input channel from
\* the receivers, which make them.
LEMMA FromReceivers ==
    ASSUME IInv, [Next]_vars, NEW b, b \in (CachedAddrs \cup Elems(inputChan))'
    PROVE  b \in CachedAddrs \cup Elems(inputChan) \/ b[2] = next[b[1]]
<1>1. ShapeOK /\ Account
  BY DEF IInv
<1>2. inputChan \in Seq(Addr) /\ data \in [Metric -> Addr \cup {Nil}]
  BY <1>1 DEF ShapeOK
<1>3. Elems(inputChan)' = Elems(inputChan') /\ CachedAddrs' = {data'[m] : m \in Metric} \ {Nil}
  BY DEF Elems, CachedAddrs
<1>4. CASE UNCHANGED <<data, inputChan>>
  BY <1>3, <1>4 DEF CachedAddrs
<1>5. CASE UNCHANGED inputChan /\ \E a \in Addr : data' = [data EXCEPT ![MetricOf(a)] = Nil]
  <2>1. \A m \in Metric : data'[m] = Nil \/ data'[m] = data[m]
    BY <1>2, <1>5
  <2>2. CachedAddrs' \subseteq CachedAddrs
    BY <1>3, <2>1 DEF CachedAddrs
  <2> QED BY <1>3, <1>5, <2>2
<1>6. CASE SelectReceive \/ SelectOverflow
  <2>1. PICK a : a = Head(inputChan)
    OBVIOUS
  <2>2. /\ inputChan # Empty /\ inputChan' = Tail(inputChan)
        /\ data' = data \/ data' = [data EXCEPT ![MetricOf(a)] = a]
    BY <1>6, <2>1 DEF SelectReceive, SelectOverflow, Add, storeVars
  <2>3. Elems(inputChan) = {a} \cup Elems(inputChan')
    BY <1>2, <2>1, <2>2, ElemsTail
  <2>4. \A m \in Metric : data'[m] = a \/ data'[m] = data[m]
    BY <1>2, <2>2
  <2>5. CachedAddrs' \subseteq CachedAddrs \cup {a}
    BY <1>3, <2>4 DEF CachedAddrs
  <2> QED BY <1>3, <2>3, <2>5
<1>7. ASSUME NEW m \in Metric, NEW k \in 1..MaxBatch, Receive(m, k)
      PROVE  b \in CachedAddrs \cup Elems(inputChan) \/ b[2] = next[b[1]]
  <2>1. PICK a : a = <<m, next[m]>>
    OBVIOUS
  <2>2. inputChan' = Append(inputChan, a) /\ UNCHANGED data
    BY <1>7, <2>1 DEF Receive, storeVars
  <2>3. a \in Addr
    <3>1. next[m] + k - 1 <= MaxSerial /\ next[m] \in Nat \ {0} /\ k \in Nat \ {0} /\ MaxSerial \in Nat
      BY <1>1, <1>7, SerialAssumption DEF Receive, ShapeOK
    <3>2. next[m] \in 1..MaxSerial
      BY <3>1
    <3> QED BY <2>1, <3>2 DEF Addr, Point, Serial
  <2>4. Elems(inputChan') = Elems(inputChan) \cup {a}
    BY <1>2, <2>2, <2>3, ElemsAppend
  <2> QED BY <1>3, <2>1, <2>2, <2>4 DEF CachedAddrs
<1>8. CASE LoopPopQueued \/ LoopRebuild
  <2>1. PICK q \in Seq(Addr) : q # Empty /\ PopFrom(q)
    <3>1. CASE LoopPopQueued
      BY <1>1, <3>1 DEF LoopPopQueued, ShapeOK
    <3>2. CASE LoopRebuild
      BY <1>1, <3>2, RebuiltQueue DEF LoopRebuild, Account
    <3> QED BY <1>8, <3>1, <3>2
  <2>2. Last1(q) \in Addr
    BY <2>1 DEF Last1, Empty
  <2>3. data' = [data EXCEPT ![MetricOf(Last1(q))] = Nil]
    BY <2>1 DEF PopFrom, Remove
  <2>4. UNCHANGED inputChan
    BY <1>8 DEF LoopPopQueued, LoopRebuild, unchangedByLoop, inVars
  <2> QED BY <1>5, <2>2, <2>3, <2>4
<1>9. \/ UNCHANGED <<data, inputChan>> \/ LoopPopQueued \/ LoopRebuild
      \/ SelectReceive \/ SelectOverflow
      \/ \E m \in Metric, k \in 1..MaxBatch : Receive(m, k)
  BY DEF Next, Worker, Tracker, Environment, LoopKeep, LoopEmpty,
         SelectQuery, ForwardQuery, SelectSend, SelectExit,
         TrackerSend, TrackerConfirm, TrackerQuery, TrackerExit, Ask, Take, Confirm, Stop, vars,
         unchangedByLoop, unchangedByTracker, inVars, storeVars
<1> QED BY <1>4, <1>6, <1>7, <1>8, <1>9

\* Replies get their batches from the tracker's map.
LEMMA FromTracker ==
    ASSUME IInv, [Next]_vars
    PROVE  Shown' \subseteq Shown \cup InFlightAddrs
<1>1. ShapeOK
  BY DEF IInv
<1>2. query \in [Query -> QueryObject]
  BY <1>1 DEF ShapeOK
<1>3. SUFFICES ASSUME NEW q \in Query
               PROVE  Elems(query'[q].inFlight) \subseteq Shown \cup InFlightAddrs
  BY DEF Shown, Elems
<1>4. Elems(query[q].inFlight) \subseteq Shown
  BY DEF Shown
<1>5. CASE query'[q].inFlight = query[q].inFlight
  BY <1>4, <1>5
<1>6. CASE TrackerQuery
  <2>1. PICK r : r = Head(trackerChan)
    OBVIOUS
  <2>2. query' = [query EXCEPT ![r].status = "replied", ![r].inFlight = notConfirmed[query[r].metric]]
    BY <1>6, <2>1 DEF TrackerQuery
  <2>3. query[r].metric \in Metric /\ r \in Query
    <3>1. trackerChan \in Seq(Query) /\ trackerChan # Empty
      BY <1>1, <1>6 DEF TrackerQuery, ShapeOK
    <3>2. 1 \in 1..Len(trackerChan) /\ r = trackerChan[1] /\ r \in Query
      BY <2>1, <3>1, ElemsTail
    <3> QED BY <1>1, <3>2 DEF ShapeOK
  <2>4. CASE q = r
    <3>1. query'[q].inFlight = notConfirmed[query[r].metric]
      <4>1. query[r] \in QueryObject
        BY <1>2, <2>3
      <4>2. query'[r] = [query[r] EXCEPT !.status = "replied", !.inFlight = notConfirmed[query[r].metric]]
        BY <1>2, <2>2, <2>3
      <4> QED BY <2>4, <4>1, <4>2 DEF QueryObject
    <3> QED BY <2>3, <3>1 DEF InFlightAddrs
  <2>5. CASE q # r
    BY <1>2, <1>5, <2>2, <2>5
  <2> QED BY <2>4, <2>5
<1>7. CASE SelectQuery
  <2>1. PICK r, c, d : query' = [query EXCEPT ![r].status = "handled", ![r].cacheData = c, ![r].due = d]
    BY <1>7 DEF SelectQuery
  <2>2. query[q] \in QueryObject
    BY <1>2
  <2>3. query'[q].inFlight = query[q].inFlight
    BY <1>2, <2>1, <2>2 DEF QueryObject
  <2> QED BY <1>5, <2>3
<1>8. ASSUME NEW r \in Query, NEW m \in Metric, Ask(r, m)
      PROVE  Elems(query'[q].inFlight) \subseteq Shown \cup InFlightAddrs
  <2>1. query' = [query EXCEPT ![r].status = "waiting", ![r].metric = m]
    BY <1>8 DEF Ask
  <2>2. query[q] \in QueryObject
    BY <1>2
  <2>3. query'[q].inFlight = query[q].inFlight
    BY <1>2, <2>1, <2>2 DEF QueryObject
  <2> QED BY <1>5, <2>3
<1>9. UNCHANGED query \/ SelectQuery \/ TrackerQuery \/ \E r \in Query, m \in Metric : Ask(r, m)
  BY DEF Next, Worker, Tracker, Environment, LoopKeep, LoopPopQueued, LoopRebuild, LoopEmpty,
         ForwardQuery, SelectSend, SelectReceive, SelectOverflow, SelectExit, TrackerSend,
         TrackerConfirm, TrackerExit, Receive, Take, Confirm, Stop, vars,
         unchangedByLoop, unchangedByTracker, queryVars
<1> QED BY <1>5, <1>6, <1>7, <1>8, <1>9

\* A batch that a reply points to never comes back into the cache.
LEMMA ShownStep == ASSUME TInv, [Next]_vars PROVE ShownOK'
<1>1. IInv /\ ShapeOK /\ Account /\ ShownOK
  BY DEF TInv, IInv, HandOverOK
<1>2. \A b \in Shown \cup InFlightAddrs :
          b \in Addr /\ b[2] < next[b[1]] /\ b \notin CachedAddrs \cup Elems(inputChan)
  <2>1. InFlightAddrs \subseteq LiveAddrs /\ LiveAddrs \subseteq Addr
    BY <1>1, LiveAddrsType DEF LiveAddrs
  <2> QED BY <1>1, <2>1, HandedApart DEF ShownOK, Account, ObjectsOK
<1>3. \A b \in Addr : b[1] \in Metric /\ b[2] \in Nat
  BY DEF Addr, Point, Serial
<1>4. ASSUME NEW b \in Shown'
      PROVE  b \in Addr /\ b[2] < next'[b[1]] /\ b \notin (CachedAddrs \cup Elems(inputChan))'
  <2>1. /\ b \in Addr /\ b[1] \in Metric /\ b[2] \in Nat /\ b[2] < next[b[1]]
        /\ b \notin CachedAddrs \cup Elems(inputChan)
    BY <1>1, <1>2, <1>3, FromTracker
  <2>2. next[b[1]] \in Nat /\ next'[b[1]] \in Nat /\ next[b[1]] <= next'[b[1]]
    BY <1>1, <2>1, NextGrows
  <2>3. b \notin (CachedAddrs \cup Elems(inputChan))'
    BY <1>1, <2>1, <2>2, FromReceivers
  <2> QED BY <2>1, <2>2, <2>3
<1> QED BY <1>4 DEF ShownOK

\* The messages on their way to the worker are as the receivers made them.
LEMMA InputShortStep == ASSUME TInv, [Next]_vars PROVE InputShort'
<1>1. IInv /\ ShapeOK /\ InputShort /\ inputChan \in Seq(Addr)
  BY DEF TInv, IInv, HandOverOK, ShapeOK
<1>2. \A b \in Elems(inputChan) : Len(obj'[b]) <= MaxBatch
  <2>1. \A b \in Elems(inputChan) : obj'[b] = obj[b]
    BY <1>1, LiveKept, HandedApart DEF LiveAddrs
  <2> QED BY <1>1, <2>1 DEF InputShort
<1>3. SUFFICES \A b \in Elems(inputChan') : Len(obj'[b]) <= MaxBatch
  BY DEF InputShort, Elems
<1>4. CASE UNCHANGED inputChan
  BY <1>2, <1>4
<1>5. CASE SelectReceive \/ SelectOverflow
  <2>1. inputChan # Empty /\ inputChan' = Tail(inputChan)
    BY <1>5 DEF SelectReceive, SelectOverflow
  <2> QED BY <1>1, <1>2, <2>1, ElemsTail
<1>6. ASSUME NEW m \in Metric, NEW k \in 1..MaxBatch, Receive(m, k)
      PROVE  \A b \in Elems(inputChan') : Len(obj'[b]) <= MaxBatch
  <2>1. PICK a : a = <<m, next[m]>>
    OBVIOUS
  <2>2. inputChan' = Append(inputChan, a) /\ obj' = [obj EXCEPT ![a] = [i \in 1..k |-> next[m] + i - 1]]
    BY <1>6, <2>1 DEF Receive
  <2>3. a \in Addr /\ k \in Nat /\ k <= MaxBatch
    <3>1. next[m] + k - 1 <= MaxSerial /\ next[m] \in Nat \ {0} /\ k \in Nat \ {0} /\ MaxSerial \in Nat
          /\ k <= MaxBatch
      BY <1>1, <1>6, SerialAssumption DEF Receive, ShapeOK
    <3>2. next[m] \in 1..MaxSerial
      BY <3>1
    <3> QED BY <2>1, <3>1, <3>2 DEF Addr, Point, Serial
  <2>4. Len(obj'[a]) <= MaxBatch
    <3>1. obj'[a] = [i \in 1..k |-> next[m] + i - 1]
      BY <1>1, <2>2, <2>3 DEF ShapeOK
    <3>2. Len([i \in 1..k |-> next[m] + i - 1]) = k
      BY <2>3
    <3> QED BY <2>3, <3>1, <3>2
  <2>5. Elems(inputChan') = Elems(inputChan) \cup {a}
    BY <1>1, <2>2, <2>3, ElemsAppend
  <2> QED BY <1>2, <2>4, <2>5
<1>7. \/ UNCHANGED inputChan \/ SelectReceive \/ SelectOverflow
      \/ \E m \in Metric, k \in 1..MaxBatch : Receive(m, k)
  BY DEF Next, Worker, Tracker, Environment, LoopKeep, LoopPopQueued, LoopRebuild, LoopEmpty,
         SelectQuery, ForwardQuery, SelectSend, SelectExit,
         TrackerSend, TrackerConfirm, TrackerQuery, TrackerExit, Ask, Take, Confirm, Stop, vars,
         unchangedByLoop, unchangedByTracker, inVars
<1> QED BY <1>4, <1>5, <1>6, <1>7

(***************************************************************************)
(* The invariant and what follows from it.                                 *)
(***************************************************************************)
\* Nothing has been handed over by a new cache.
LEMMA InitHandOver == Init => HandOverOK
<1> SUFFICES ASSUME Init PROVE HandOverOK
  OBVIOUS
<1>1. Empty \in Seq(Addr) /\ Len(Empty) = 0 /\ Elems(Empty) = {} /\ Once(Empty)
  BY DEF Empty, Elems, Once
<1>2. /\ Elems(inputChan) = {} /\ Elems(outputChan) = {} /\ Elems(confirmChan) = {}
      /\ Once(outputChan) /\ Once(confirmChan) /\ taken = {} /\ p = Nil
      /\ \A m \in Metric : Elems(notConfirmed[m]) = {} /\ Once(notConfirmed[m])
  BY <1>1 DEF Init
<1>3. InFlightAddrs = {} /\ BehindAddrs = {} /\ CachedAddrs = {}
  BY <1>2 DEF Init, InFlightAddrs, BehindAddrs, CachedAddrs
<1>4. Shown = {}
  <2>1. \A q \in Query : query[q].inFlight = Empty
    BY DEF Init, NewQuery
  <2> QED BY <1>1, <2>1 DEF Shown
<1>5. InputShort /\ FiledOK /\ OncePlaced
  BY <1>2 DEF InputShort, FiledOK, OncePlaced
<1>6. TrackerExact
  BY <1>2, <1>3 DEF TrackerExact, Once
<1>7. InFlightApart /\ ShownOK
  BY <1>3, <1>4 DEF InFlightApart, ShownOK
<1> QED BY <1>5, <1>6, <1>7 DEF HandOverOK

\* Every step of the cache keeps the hand-over in order.
LEMMA HandOverStep == TInv /\ [Next]_vars => HandOverOK'
<1> SUFFICES ASSUME TInv, [Next]_vars PROVE HandOverOK'
  OBVIOUS
<1>1. InputShort' /\ ShownOK'
  BY InputShortStep, ShownStep
<1>2. FiledOK' /\ TrackerExact' /\ OncePlaced' /\ InFlightApart'
  <2>1. \/ UNCHANGED <<notConfirmed, p, outputChan, taken, confirmChan>>
        \/ SelectSend \/ TrackerConfirm
        \/ TrackerSend \/ Take \/ \E a \in Addr : Confirm(a)
    BY DEF Next, Worker, Tracker, Environment, LoopKeep, LoopPopQueued, LoopRebuild, LoopEmpty,
           SelectQuery, ForwardQuery, SelectReceive, SelectOverflow, SelectExit,
           TrackerQuery, TrackerExit, Ask, Receive, Stop, vars,
           unchangedByLoop, unchangedByTracker, trackVars, persistVars
  <2> QED BY <2>1, QuietHandOver, SendHandOver, ForgetHandOver, PassHandOver
<1> QED BY <1>1, <1>2 DEF HandOverOK

\* The strengthened invariant is inductive.
THEOREM HandOverInvariance == Spec => []TInv
<1>1. Init => TInv
  BY InitInv, InitHandOver DEF TInv
<1>2. TInv /\ [Next]_vars => TInv'
  BY ShapeStep, AccountStep, HandOverStep DEF TInv, IInv
<1> QED BY <1>1, <1>2, PTL DEF Spec

\* The tracker's map is exact, for every capacity of the channels and every
\* order of confirmations: a batch is forgotten by pointer and exactly once,
\* so no unsaved batch is hidden from a query and none is remembered for ever.
THEOREM TrackerAlwaysExact == Spec => []TrackerExact
<1>1. TInv => TrackerExact
  BY DEF TInv, HandOverOK
<1> QED BY HandOverInvariance, <1>1, PTL

\* What other goroutines hold without a lock never changes under them: the
\* worker's Append (cache.go:149) only ever reaches an object of the map, and
\* no object comes back into the map.
THEOREM Frozen == Spec => HandedOutFrozen
<1>1. TInv /\ [Next]_vars => \A a \in HandedOut : obj'[a] = obj[a]
  <2> SUFFICES ASSUME TInv, [Next]_vars, NEW a \in HandedOut PROVE obj'[a] = obj[a]
    OBVIOUS
  <2>1. IInv /\ ShownOK
    BY DEF TInv, HandOverOK
  <2>2. CASE a \in HeldAddrs \cup InFlightAddrs \cup BehindAddrs
    BY <2>1, <2>2, LiveKept, HandedApart DEF LiveAddrs
  <2>3. CASE a \in Shown
    BY <2>1, <2>3, ObjectKept DEF ShownOK
  <2> QED BY <2>2, <2>3 DEF HandedOut, Shown
<1> QED BY HandOverInvariance, <1>1, PTL DEF Spec, HandedOutFrozen

\* A size limit is exceeded by less than a message: the check before Add
\* compares the old size only, and a message is as long as its receiver made
\* it when Add reads it.
THEOREM Overshoot == Spec => []OvershootBounded
<1>1. Init => OvershootBounded
  BY SerialAssumption, MaxSizeAssumption DEF Init, OvershootBounded
<1>2. TInv /\ TInv' /\ OvershootBounded /\ [Next]_vars => OvershootBounded'
  <2> SUFFICES ASSUME TInv, TInv', OvershootBounded, [Next]_vars PROVE OvershootBounded'
    OBVIOUS
  <2>1. IInv /\ ShapeOK /\ Account /\ InputShort
    BY DEF TInv, IInv, HandOverOK
  <2>2. size \in Nat /\ size' \in Nat
    <3>1. Cached \subseteq Point /\ Cached' \subseteq Point
      BY DEF TInv, IInv, Account, NoLoss, ShapeOK
    <3>2. Cardinality(Cached) \in Nat /\ Cardinality(Cached') \in Nat
      BY <3>1, PointFinite, FS_Subset, FS_CardinalityType
    <3> QED BY <3>2 DEF TInv, IInv, Account, SizeExact
  <2>3. CASE UNCHANGED size
    BY <2>3 DEF OvershootBounded
  <2>4. CASE SelectReceive
    <3>1. PICK a : a = Head(inputChan)
      OBVIOUS
    <3>2. size' = size + Len(obj[a]) /\ (MaxSize = 0 \/ size < MaxSize)
      BY <2>4, <3>1 DEF SelectReceive, Add, hasRoom
    <3>3. a \in Elems(inputChan) /\ a \in Addr
      BY <2>1, <2>4, <3>1, ElemsTail DEF SelectReceive, ShapeOK
    <3>4. Len(obj[a]) <= MaxBatch /\ Len(obj[a]) \in Nat
      BY <2>1, <3>3, ObjectType DEF InputShort
    <3> QED BY <2>2, <3>2, <3>4, SerialAssumption, MaxSizeAssumption DEF OvershootBounded
  <2>5. CASE LoopPopQueued \/ LoopRebuild
    <3>1. PICK q \in Seq(Addr) : q # Empty /\ PopFrom(q)
      <4>1. CASE LoopPopQueued
        BY <2>1, <4>1 DEF LoopPopQueued, ShapeOK
      <4>2. CASE LoopRebuild
        BY <2>1, <4>2, RebuiltQueue DEF LoopRebuild, Account
      <4> QED BY <2>5, <4>1, <4>2
    <3>2. Last1(q) \in Addr
      BY <3>1 DEF Last1, Empty
    <3>3. size' = size - Len(obj[Last1(q)]) /\ Len(obj[Last1(q)]) \in Nat
      BY <2>1, <3>1, <3>2, ObjectType DEF PopFrom, Remove
    <3> QED BY <2>2, <3>3, SerialAssumption, MaxSizeAssumption DEF OvershootBounded
  <2>6. UNCHANGED size \/ SelectReceive \/ LoopPopQueued \/ LoopRebuild
    BY DEF Next, Worker, Tracker, Environment, LoopKeep, LoopEmpty,
           SelectQuery, ForwardQuery, SelectSend, SelectOverflow, SelectExit,
           TrackerSend, TrackerConfirm, TrackerQuery, TrackerExit, Ask, Receive, Take, Confirm,
           Stop, vars, unchangedByLoop, unchangedByTracker, storeVars
  <2> QED BY <2>3, <2>4, <2>5, <2>6
<1> QED BY HandOverInvariance, <1>1, <1>2, PTL DEF Spec

(***************************************************************************)
(* The order of points.                                                    *)
(***************************************************************************)
\* Points of S came before points of T of the same metric.
Older(S, T) == \A x \in S, y \in T : x[1] = y[1] => x[2] < y[2]

\* The input channel keeps the order of arrival, and is younger than all that
\* was accepted.
InputOrder ==
    /\ \A i \in 1..Len(inputChan) : Older(accepted, PointsOf(inputChan[i]))
    /\ \A i, j \in 1..Len(inputChan) :
           i < j => Older(PointsOf(inputChan[i]), PointsOf(inputChan[j]))

\* The three stages of the cache keep it, too.
StageOrder == Older(InFlight, InHand \cup Cached) /\ Older(InHand, Cached)

OrderOK == InputOrder /\ StageOrder

\* All steps but the worker's receive leave the objects that can be reached as
\* they are.
LEMMA AllKept ==
    ASSUME IInv, [Next]_vars, ~SelectReceive, NEW b \in LiveAddrs
    PROVE  PointsOf(b)' = PointsOf(b)
<1>1. ShapeOK /\ Account
  BY DEF IInv
<1>2. CASE UNCHANGED obj
  BY <1>2 DEF PointsOf, Elems, MetricOf
<1>3. ASSUME NEW m \in Metric, NEW k \in 1..MaxBatch, Receive(m, k) PROVE PointsOf(b)' = PointsOf(b)
  <2>1. obj' = [obj EXCEPT ![<<m, next[m]>>] = [i \in 1..k |-> next[m] + i - 1]]
    BY <1>3 DEF Receive
  <2>2. next[m] \in Nat /\ b \in Addr /\ b[2] < next[b[1]]
    BY <1>1, LiveAddrsType DEF ShapeOK, Account, ObjectsOK
  <2>3. b # <<m, next[m]>>
    BY <2>2
  <2>4. obj'[b] = obj[b]
    BY <1>1, <2>1, <2>2, <2>3 DEF ShapeOK
  <2> QED BY <2>4 DEF PointsOf, Elems, MetricOf
<1>4. UNCHANGED obj \/ \E m \in Metric, k \in 1..MaxBatch : Receive(m, k)
  BY DEF Next, Worker, Tracker, Environment, LoopKeep, LoopPopQueued, LoopRebuild, LoopEmpty,
         SelectQuery, ForwardQuery, SelectSend, SelectOverflow, SelectExit, TrackerSend,
         TrackerConfirm, TrackerQuery, TrackerExit, Ask, Take, Confirm, Stop, vars,
         unchangedByLoop, unchangedByTracker
<1> QED BY <1>2, <1>3, <1>4

\* The tracker's map changes by the hand-over and by confirmations only.
LEMMA InFlightStep ==
    ASSUME TInv, [Next]_vars
    PROVE  \/ InFlightAddrs' = InFlightAddrs
           \/ SelectSend /\ values \in Addr /\ InFlightAddrs' = InFlightAddrs \cup {values}
           \/ TrackerConfirm /\ InFlightAddrs' = InFlightAddrs \ {Head(confirmChan)}
<1>1. ShapeOK
  BY DEF TInv, IInv
<1>2. CASE UNCHANGED notConfirmed
  BY <1>2 DEF InFlightAddrs, Elems
<1>3. CASE SelectSend
  <2>1. PICK a : a = values
    OBVIOUS
  <2>2. /\ a \in Addr /\ notConfirmed \in [Metric -> Seq(Addr)]
        /\ notConfirmed' = [notConfirmed EXCEPT ![MetricOf(a)] = Append(@, a)]
    BY <1>1, <1>3, <2>1 DEF SelectSend, AddNotConfirmed, ShapeOK
  <2>3. MetricOf(a) \in Metric
    BY <2>2 DEF MetricOf, Addr, Point
  <2>4. \A m \in Metric : Elems(notConfirmed'[m]) =
            Elems(notConfirmed[m]) \cup (IF m = MetricOf(a) THEN {a} ELSE {})
    BY <2>2, <2>3, ElemsAppend
  <2>5. InFlightAddrs' = UNION {Elems(notConfirmed'[m]) : m \in Metric}
    BY DEF InFlightAddrs, Elems
  <2>6. InFlightAddrs' = InFlightAddrs \cup {a}
    BY <2>3, <2>4, <2>5 DEF InFlightAddrs
  <2> QED BY <1>3, <2>1, <2>2, <2>6
<1>4. CASE TrackerConfirm
  BY <1>4, ForgetInFlight
<1>5. UNCHANGED notConfirmed \/ SelectSend \/ TrackerConfirm
  BY DEF Next, Worker, Tracker, Environment, LoopKeep, LoopPopQueued, LoopRebuild, LoopEmpty,
         SelectQuery, ForwardQuery, SelectReceive, SelectOverflow, SelectExit, TrackerSend,
         TrackerQuery, TrackerExit, Ask, Receive, Take, Confirm, Stop, vars,
         unchangedByLoop, unchangedByTracker, trackVars
<1> QED BY <1>2, <1>3, <1>4, <1>5

\* A point leaves the tracker's map only when it is written, and comes there
\* from the worker's hand only.
LEMMA InFlightMoves ==
    ASSUME TInv, [Next]_vars
    PROVE  /\ InFlight \ written \subseteq InFlight' /\ written \subseteq written'
           /\ InFlight' \subseteq InFlight \cup (IF SelectSend THEN InHand ELSE {})
<1>1. IInv /\ Account
  BY DEF TInv, IInv
<1>2. \A b \in InFlightAddrs \cup HeldAddrs : PointsOf(b)' = PointsOf(b)
  BY <1>1, LiveKept, HandedApart DEF LiveAddrs
<1>3. written \subseteq written'
  BY DEF Next, Worker, Tracker, Environment, LoopKeep, LoopPopQueued, LoopRebuild, LoopEmpty,
         SelectQuery, ForwardQuery, SelectSend, SelectReceive, SelectOverflow, SelectExit,
         TrackerSend, TrackerConfirm, TrackerQuery, TrackerExit, Ask, Receive, Take, Confirm,
         Stop, vars, unchangedByLoop, unchangedByTracker, persistVars
<1>4. CASE InFlightAddrs' = InFlightAddrs
  <2>1. InFlight' = InFlight
    BY <1>2, <1>4 DEF InFlight, PointsAt
  <2> QED BY <1>3, <2>1
<1>5. CASE SelectSend /\ values \in Addr /\ InFlightAddrs' = InFlightAddrs \cup {values}
  <2>1. values \in HeldAddrs
    BY <1>5, NilAssumption DEF HeldAddrs
  <2>2. InFlight' = InFlight \cup PointsOf(values) /\ PointsOf(values) \subseteq InHand
    BY <1>2, <1>5, <2>1 DEF InFlight, InHand, PointsAt
  <2> QED BY <1>3, <1>5, <2>2
<1>6. CASE TrackerConfirm /\ InFlightAddrs' = InFlightAddrs \ {Head(confirmChan)}
  <2>1. Head(confirmChan) \in Elems(confirmChan)
    BY <1>1, <1>6, ElemsTail DEF TrackerConfirm, IInv, ShapeOK
  <2>2. PointsOf(Head(confirmChan)) \subseteq written
    BY <1>1, <2>1 DEF Account, BehindOK, PointsAt
  <2>3. InFlight' \subseteq InFlight /\ InFlight \subseteq InFlight' \cup PointsOf(Head(confirmChan))
    BY <1>2, <1>6 DEF InFlight, PointsAt
  <2> QED BY <1>3, <2>2, <2>3
<1> QED BY <1>4, <1>5, <1>6, InFlightStep

\* What is in the three stages was accepted.
LEMMA StagesAccepted ==
    ASSUME IInv
    PROVE  Cached \cup InHand \cup InFlight \cup written \subseteq accepted /\ accepted \subseteq Point
BY DEF IInv, Account, NoLoss, ShapeOK

\* The order of the stages is kept.
LEMMA StageOrderStep == ASSUME TInv, OrderOK, [Next]_vars PROVE StageOrder'
<1>1. TInv /\ IInv /\ ShapeOK /\ Account /\ InputOrder /\ StageOrder
  BY DEF OrderOK, TInv, IInv
<1>2. InFlight' \subseteq InFlight \cup (IF SelectSend THEN InHand ELSE {})
  BY <1>1, InFlightMoves
<1>3. CASE SelectReceive
  <2>1. PICK a : a = Head(inputChan)
    OBVIOUS
  <2>2. a \in Elems(inputChan) /\ a \in Addr /\ a = inputChan[1] /\ 1 \in 1..Len(inputChan)
    BY <1>1, <1>3, <2>1, ElemsTail DEF SelectReceive, ShapeOK
  <2>3. accepted' = accepted \cup PointsOf(a) /\ UNCHANGED values
    BY <1>3, <2>1 DEF SelectReceive, Add
  <2>4. InHand' = InHand
    <3>1. \A b \in HeldAddrs : PointsOf(b)' = PointsOf(b)
      BY <1>1, LiveKept, HandedApart DEF LiveAddrs
    <3> QED BY <2>3, <3>1 DEF InHand, HeldAddrs, PointsAt
  <2>5. Cached' \subseteq Cached \cup PointsOf(a)
    <3>1. IInv'
      BY <1>1, ShapeStep, AccountStep DEF IInv
    <3>2. Cached' \subseteq accepted' /\ Cached' \cap InHand' = {} /\ Cached' \cap InFlight' = {}
          /\ written' \cap Cached' = {}
      BY <3>1 DEF IInv, Account, NoLoss
    <3>3. UNCHANGED <<written, notConfirmed>>
      BY <1>3 DEF SelectReceive, trackVars, persistVars
    <3>4. InFlight' = InFlight
      <4>1. InFlightAddrs' = InFlightAddrs
        BY <3>3 DEF InFlightAddrs, Elems
      <4>2. \A b \in InFlightAddrs : PointsOf(b)' = PointsOf(b)
        BY <1>1, LiveKept, HandedApart DEF LiveAddrs
      <4> QED BY <4>1, <4>2 DEF InFlight, PointsAt
    <3> QED BY <1>1, <2>3, <2>4, <3>2, <3>3, <3>4 DEF Account, NoLoss
  <2>6. InFlight' \subseteq InFlight
    <3>1. ~SelectSend
      BY <1>3 DEF SelectReceive, SelectSend
    <3> QED BY <1>2, <3>1
  <2>7. Older(accepted, PointsOf(a))
    BY <1>1, <2>2 DEF InputOrder
  <2>8. InFlight \cup InHand \subseteq accepted
    BY <1>1, StagesAccepted
  <2> QED BY <1>1, <2>4, <2>5, <2>6, <2>7, <2>8 DEF StageOrder, Older
<1>4. CASE SelectSend
  <2>1. UNCHANGED <<obj, data>> /\ values' = Nil
    BY <1>4 DEF SelectSend, storeVars
  <2>2. Cached' = Cached /\ InHand' = {}
    <3>1. CachedAddrs' = CachedAddrs /\ HeldAddrs' = {} /\ \A b : PointsOf(b)' = PointsOf(b)
      BY <2>1 DEF CachedAddrs, HeldAddrs, PointsOf, Elems, MetricOf
    <3> QED BY <3>1 DEF Cached, InHand, PointsAt
  <2>3. InFlight' \subseteq InFlight \cup InHand
    BY <1>2
  <2> QED BY <1>1, <2>2, <2>3 DEF StageOrder, Older
<1>5. CASE LoopPopQueued \/ LoopRebuild
  <2>1. PICK q \in Seq(Addr) : /\ q # Empty /\ PopFrom(q)
                               /\ \A i \in 1..Len(q) : data[MetricOf(q[i])] = q[i]
    <3>1. CASE LoopPopQueued
      BY <1>1, <3>1 DEF LoopPopQueued, ShapeOK, Account, QueueFresh
    <3>2. CASE LoopRebuild
      BY <1>1, <3>2, RebuiltQueue DEF LoopRebuild, Account
    <3> QED BY <1>5, <3>1, <3>2
  <2>2. PICK a, m : a = q[Len(q)] /\ m = MetricOf(a)
    OBVIOUS
  <2>3. a \in Addr /\ m \in Metric /\ data[m] = a /\ a \in CachedAddrs /\ Nil \notin Addr
    <3>1. Len(q) \in Nat \ {0}
      BY <2>1 DEF Empty
    <3>2. a \in Addr /\ data[m] = a
      BY <2>1, <2>2, <3>1
    <3>3. m \in Metric
      BY <2>2, <3>2 DEF MetricOf, Addr, Point
    <3> QED BY <3>2, <3>3, NilAssumption DEF CachedAddrs
  <2>4. values' = a /\ data' = [data EXCEPT ![m] = Nil] /\ values = Nil /\ UNCHANGED obj
    BY <1>5, <2>1, <2>2 DEF PopFrom, Last1, Remove, LoopPopQueued, LoopRebuild, unchangedByLoop
  <2>5. \A b : PointsOf(b)' = PointsOf(b)
    BY <2>4 DEF PointsOf, Elems, MetricOf
  <2>6. InHand' = PointsOf(a) /\ InHand' \subseteq Cached
    <3>1. HeldAddrs' = {a}
      BY <2>3, <2>4 DEF HeldAddrs
    <3> QED BY <2>3, <2>5, <3>1 DEF InHand, Cached, PointsAt
  <2>7. \A b \in CachedAddrs' : b \in CachedAddrs /\ MetricOf(b) # m
    <3>1. data \in [Metric -> Addr \cup {Nil}] /\ MapOK
      BY <1>1 DEF ShapeOK, Account
    <3>2. CachedAddrs' = {data'[n] : n \in Metric} \ {Nil}
      BY DEF CachedAddrs
    <3>3. \A n \in Metric : data'[n] = IF n = m THEN Nil ELSE data[n]
      BY <2>3, <2>4, <3>1
    <3> QED BY <3>1, <3>2, <3>3 DEF MapOK, CachedAddrs
  <2>8. Cached' \subseteq Cached /\ \A x \in Cached' : x[1] # m
    <3>1. Cached' = UNION {PointsOf(b) : b \in CachedAddrs'}
      BY <2>5 DEF Cached, PointsAt
    <3>2. \A b : \A x \in PointsOf(b) : x[1] = MetricOf(b)
      BY DEF PointsOf
    <3> QED BY <2>7, <3>1, <3>2 DEF Cached, PointsAt
  <2>9. \A x \in InHand' : x[1] = m
    BY <2>2, <2>6 DEF PointsOf
  <2>10. InFlight' \subseteq InFlight
    <3>1. ~SelectSend
      BY <1>5 DEF LoopPopQueued, LoopRebuild, SelectSend
    <3> QED BY <1>2, <3>1
  <2> QED BY <1>1, <2>6, <2>8, <2>9, <2>10 DEF StageOrder, Older
<1>6. CASE UNCHANGED <<data, values>> /\ ~SelectReceive /\ ~SelectSend
  <2>1. CachedAddrs' = CachedAddrs /\ HeldAddrs' = HeldAddrs
    BY <1>6 DEF CachedAddrs, HeldAddrs
  <2>2. \A b \in CachedAddrs \cup HeldAddrs : PointsOf(b)' = PointsOf(b)
    BY <1>1, <1>6, AllKept DEF LiveAddrs
  <2>3. Cached' = Cached /\ InHand' = InHand
    BY <2>1, <2>2 DEF Cached, InHand, PointsAt
  <2>4. InFlight' \subseteq InFlight
    BY <1>2, <1>6
  <2> QED BY <1>1, <2>3, <2>4 DEF StageOrder, Older
<1>7. \/ UNCHANGED <<data, values>> \/ SelectReceive \/ SelectSend
      \/ LoopPopQueued \/ LoopRebuild
  BY DEF Next, Worker, Tracker, Environment, LoopKeep, LoopEmpty, SelectQuery, ForwardQuery,
         SelectOverflow, SelectExit, TrackerSend, TrackerConfirm, TrackerQuery, TrackerExit, Ask,
         Receive, Take, Confirm, Stop, vars, unchangedByLoop, unchangedByTracker, storeVars,
         workerVars
<1> QED BY <1>3, <1>4, <1>5, <1>6, <1>7

\* The points of a receiver's message are younger than all there are.
LEMMA FreshYounger ==
    ASSUME IInv, NEW m \in Metric, NEW k \in 1..MaxBatch, Receive(m, k), NEW a, a = <<m, next[m]>>
    PROVE  /\ a \in Addr /\ inputChan' = Append(inputChan, a) /\ UNCHANGED accepted
           /\ Older(accepted, PointsOf(a)')
           /\ \A b \in LiveAddrs : Older(PointsOf(b), PointsOf(a)')
<1>1. ShapeOK /\ Account
  BY DEF IInv
<1>2. inputChan' = Append(inputChan, a) /\ UNCHANGED accepted
      /\ obj' = [obj EXCEPT ![a] = [i \in 1..k |-> next[m] + i - 1]]
  BY DEF Receive
<1>3. next[m] + k - 1 <= MaxSerial /\ next[m] \in Nat \ {0} /\ k \in Nat \ {0} /\ MaxSerial \in Nat
  BY <1>1, SerialAssumption DEF Receive, ShapeOK
<1>4. a \in Addr /\ MetricOf(a) = m
  <2>1. next[m] \in 1..MaxSerial
    BY <1>3
  <2> QED BY <2>1 DEF Addr, Point, Serial, MetricOf
<1>5. \A y \in PointsOf(a)' : y[1] = m /\ y[2] \in Nat /\ y[2] >= next[m]
  <2>1. PICK new : new = [i \in 1..k |-> next[m] + i - 1]
    OBVIOUS
  <2>2. Len(new) = k /\ \A i \in 1..k : new[i] \in Nat /\ new[i] >= next[m]
    BY <1>3, <2>1
  <2>3. obj'[a] = new
    BY <1>1, <1>2, <1>4, <2>1 DEF ShapeOK
  <2>4. PointsOf(a)' = {<<m, n>> : n \in {new[i] : i \in 1..k}}
    BY <1>4, <2>2, <2>3 DEF PointsOf, Elems, MetricOf
  <2> QED BY <2>2, <2>4
<1>6. \A x \in accepted : x[2] \in Nat /\ x[2] < next[x[1]]
  <2>1. \A x \in Point : x[2] \in Nat
    BY DEF Point, Serial
  <2> QED BY <1>1, <2>1 DEF ShapeOK, Account, AcceptedOK
<1>7. \A b \in LiveAddrs : \A x \in PointsOf(b) : x[2] \in Nat /\ x[2] < next[x[1]]
  <2> SUFFICES ASSUME NEW b \in LiveAddrs, NEW x \in PointsOf(b)
               PROVE  x[2] \in Nat /\ x[2] < next[x[1]]
    OBVIOUS
  <2>1. PICK i \in 1..Len(obj[b]) : x = <<b[1], obj[b][i]>>
    BY DEF PointsOf, Elems, MetricOf
  <2>2. obj[b][i] \in Nat
    BY <1>1, LiveAddrsType, ObjectType
  <2>3. obj[b][i] < next[b[1]]
    BY <1>1 DEF Account, ObjectsOK
  <2> QED BY <2>1, <2>2, <2>3
<1>8. Older(accepted, PointsOf(a)')
  BY <1>3, <1>5, <1>6 DEF Older
<1>9. \A b \in LiveAddrs : Older(PointsOf(b), PointsOf(a)')
  BY <1>3, <1>5, <1>7 DEF Older
<1> QED BY <1>2, <1>4, <1>8, <1>9

\* The order in the input channel is kept.
LEMMA InputOrderStep == ASSUME IInv, InputOrder, [Next]_vars PROVE InputOrder'
<1>1. IInv /\ ShapeOK /\ Account /\ InputOrder /\ inputChan \in Seq(Addr)
  BY DEF IInv, ShapeOK
<1>2. \A i \in 1..Len(inputChan) : inputChan[i] \in Elems(inputChan)
  BY DEF Elems
<1>3. \A b \in Elems(inputChan) : PointsOf(b)' = PointsOf(b) /\ b \in LiveAddrs
  BY <1>1, LiveKept, HandedApart DEF LiveAddrs
<1>4. CASE UNCHANGED <<inputChan, accepted>>
  <2>1. \A i \in 1..Len(inputChan) : (PointsOf(inputChan[i]))' = PointsOf(inputChan[i])
    <3>1. ASSUME NEW i \in 1..Len(inputChan) PROVE (PointsOf(inputChan[i]))' = PointsOf(inputChan[i])
      <4>1. PICK b : b = inputChan[i]
        OBVIOUS
      <4>2. (PointsOf(inputChan[i]))' = PointsOf(b)'
        BY <1>4, <4>1 DEF PointsOf, Elems, MetricOf
      <4> QED BY <1>2, <1>3, <4>1, <4>2
    <3> QED BY <3>1
  <2> QED BY <1>1, <1>4, <2>1 DEF InputOrder, Older
<1>5. CASE SelectReceive \/ SelectOverflow
  <2>1. /\ inputChan # Empty /\ inputChan' = Tail(inputChan)
        /\ accepted' \subseteq accepted \cup PointsOf(Head(inputChan))
    BY <1>5 DEF SelectReceive, SelectOverflow, Add
  <2>2. /\ Head(inputChan) = inputChan[1] /\ 1 \in 1..Len(inputChan)
        /\ \A i \in 1..Len(inputChan') :
              i + 1 \in 1..Len(inputChan) /\ 1 < i + 1 /\ inputChan'[i] = inputChan[i + 1]
    BY <1>1, <2>1, ElemsTail
  <2>3. ASSUME NEW i \in 1..Len(inputChan') PROVE (PointsOf(inputChan[i]))' = PointsOf(inputChan[i + 1])
    <3>1. PICK b : b = inputChan[i + 1]
      OBVIOUS
    <3>2. (PointsOf(inputChan[i]))' = PointsOf(b)'
      BY <2>2, <3>1 DEF PointsOf, Elems, MetricOf
    <3> QED BY <1>2, <1>3, <2>2, <3>1, <3>2
  <2>4. ASSUME NEW i \in 1..Len(inputChan') PROVE Older(accepted', (PointsOf(inputChan[i]))')
    <3>1. Older(accepted, PointsOf(inputChan[i + 1])) /\ Older(PointsOf(inputChan[1]), PointsOf(inputChan[i + 1]))
      BY <1>1, <2>2 DEF InputOrder
    <3> QED BY <2>1, <2>2, <2>3, <3>1 DEF Older
  <2>5. ASSUME NEW i \in 1..Len(inputChan'), NEW j \in 1..Len(inputChan'), i < j
        PROVE  Older((PointsOf(inputChan[i]))', (PointsOf(inputChan[j]))')
    <3>1. i + 1 < j + 1
      BY <2>5
    <3>2. Older(PointsOf(inputChan[i + 1]), PointsOf(inputChan[j + 1]))
      BY <1>1, <2>2, <3>1 DEF InputOrder
    <3> QED BY <2>3, <3>2
  <2> QED BY <2>4, <2>5 DEF InputOrder, Older
<1>6. ASSUME NEW m \in Metric, NEW k \in 1..MaxBatch, Receive(m, k) PROVE InputOrder'
  <2>1. PICK a : a = <<m, next[m]>>
    OBVIOUS
  <2>2. /\ a \in Addr /\ inputChan' = Append(inputChan, a) /\ UNCHANGED accepted
        /\ Older(accepted, PointsOf(a)')
        /\ \A b \in LiveAddrs : Older(PointsOf(b), PointsOf(a)')
    BY <1>1, <1>6, <2>1, FreshYounger
  <2>3. /\ Len(inputChan) \in Nat /\ Len(inputChan') = Len(inputChan) + 1
        /\ inputChan'[Len(inputChan) + 1] = a
        /\ \A i \in 1..Len(inputChan) : inputChan'[i] = inputChan[i]
    BY <1>1, <2>2
  <2>4. \A i \in 1..Len(inputChan') : i = Len(inputChan) + 1 \/ i \in 1..Len(inputChan)
    BY <2>3
  <2>5. ASSUME NEW i \in 1..Len(inputChan) PROVE (PointsOf(inputChan[i]))' = PointsOf(inputChan[i])
    <3>1. PICK b : b = inputChan[i]
      OBVIOUS
    <3>2. (PointsOf(inputChan[i]))' = PointsOf(b)'
      BY <2>3, <3>1 DEF PointsOf, Elems, MetricOf
    <3> QED BY <1>2, <1>3, <3>1, <3>2
  <2>6. \A i : i = Len(inputChan) + 1 => (PointsOf(inputChan[i]))' = PointsOf(a)'
    BY <2>3 DEF PointsOf, Elems, MetricOf
  <2>7. ASSUME NEW i \in 1..Len(inputChan') PROVE Older(accepted', (PointsOf(inputChan[i]))')
    <3>1. CASE i = Len(inputChan) + 1
      BY <2>2, <2>6, <3>1
    <3>2. CASE i \in 1..Len(inputChan)
      BY <1>1, <2>2, <2>5, <3>2 DEF InputOrder
    <3> QED BY <2>4, <3>1, <3>2
  <2>8. ASSUME NEW i \in 1..Len(inputChan'), NEW j \in 1..Len(inputChan'), i < j
        PROVE  Older((PointsOf(inputChan[i]))', (PointsOf(inputChan[j]))')
    <3>1. i \in 1..Len(inputChan)
      BY <2>3, <2>8
    <3>2. CASE j = Len(inputChan) + 1
      <4>1. inputChan[i] \in LiveAddrs
        BY <1>2, <1>3, <3>1
      <4>2. Older(PointsOf(inputChan[i]), PointsOf(a)')
        BY <2>2, <4>1
      <4> QED BY <2>5, <2>6, <3>1, <3>2, <4>2
    <3>3. CASE j \in 1..Len(inputChan)
      <4>1. Older(PointsOf(inputChan[i]), PointsOf(inputChan[j]))
        BY <1>1, <2>8, <3>1, <3>3 DEF InputOrder
      <4> QED BY <2>5, <3>1, <3>3, <4>1
    <3> QED BY <2>4, <3>2, <3>3
  <2> QED BY <2>7, <2>8 DEF InputOrder, Older
<1>7. \/ UNCHANGED <<inputChan, accepted>> \/ SelectReceive \/ SelectOverflow
      \/ \E m \in Metric, k \in 1..MaxBatch : Receive(m, k)
  BY DEF Next, Worker, Tracker, Environment, LoopKeep, LoopPopQueued, LoopRebuild, LoopEmpty,
         SelectQuery, ForwardQuery, SelectSend, SelectExit, TrackerSend, TrackerConfirm,
         TrackerQuery, TrackerExit, Ask, Take, Confirm, Stop, vars, unchangedByLoop,
         unchangedByTracker, inVars
<1> QED BY <1>4, <1>5, <1>6, <1>7

\* A new cache is in order.
LEMMA InitOrder == Init => OrderOK
<1> SUFFICES ASSUME Init PROVE OrderOK
  OBVIOUS
<1>1. Len(Empty) = 0 /\ Elems(Empty) = {}
  BY DEF Empty, Elems
<1>2. InputOrder
  BY <1>1 DEF Init, InputOrder
<1>3. CachedAddrs = {} /\ HeldAddrs = {} /\ InFlightAddrs = {}
  BY <1>1 DEF Init, CachedAddrs, HeldAddrs, InFlightAddrs
<1>4. StageOrder
  BY <1>3 DEF StageOrder, Older, Cached, InHand, InFlight, PointsAt
<1> QED BY <1>2, <1>4 DEF OrderOK
=============================================================================

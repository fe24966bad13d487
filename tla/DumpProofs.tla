----------------------------- MODULE DumpProofs -----------------------------
(***************************************************************************)
(* Proofs about GraceStopDump: what a dump loses and what it keeps, and    *)
(* that no point is in its files twice or out of order.                    *)
(***************************************************************************)
EXTENDS Dump, CacheProofs

(***************************************************************************)
(* The invariant.                                                          *)
(***************************************************************************)
\* The cache runs, and its tracker is exact (CacheProofs).
Early == dumpPC \in {"run", "stopCache", "closeOut"}

\* The cache has been stopped and the snapshot has been begun.
Late == dumpPC \in {"snapOut", "snapMap", "stopListeners", "waitInput", "waitXlog",
                    "flushXlog", "stopPersister", "blocked", "restore", "restored"}

DumpShape ==
    /\ Early \/ Late \/ dumpPC = "fatal"
    /\ snap \in Seq(Point) /\ xlog \in Seq(Point) /\ xlogBuf \in Seq(Point)

\* Every object holds its metric's points in the order of arrival.
ObjectsAscend ==
    \A a \in Addr : \A i, j \in 1..Len(obj[a]) : i < j => obj[a][i] < obj[a][j]

\* The batches on their way from the tracker to the persister's confirmation.
OnWay == ({p} \ {Nil}) \cup Elems(outputChan) \cup taken

\* They are in one place each, share no points, and are remembered by the
\* tracker; and what the tracker remembers is on its way, or written, or saved.
WayOK ==
    /\ Once(outputChan)
    /\ p \notin Elems(outputChan) \cup taken /\ Elems(outputChan) \cap taken = {}
    /\ \A a, b \in OnWay : a # b => PointsOf(a) \cap PointsOf(b) = {}
    /\ OnWay \subseteq InFlightAddrs
    /\ InFlight \subseteq PointsAt(OnWay) \cup written \cup Elems(snap)

\* They have not been written, and are in the order of arrival.
WayOrder ==
    /\ PointsAt(OnWay) \cap written = {}
    /\ \A i, j \in 1..Len(outputChan) :
           i < j => Older(PointsOf(outputChan[i]), PointsOf(outputChan[j]))
    /\ \A i \in 1..Len(outputChan) : Older(PointsOf(outputChan[i]), PointsAt({p} \ {Nil}))

\* What the input log has received, the lines in its buffer included.
Logged == xlog \o xlogBuf

\* It is in the order of arrival, was never accepted by the cache, and is older
\* than what waits in the input channel; and nothing that was received is
\* missing.
LogOK ==
    /\ Ascending(Logged)
    /\ Elems(Logged) \cap accepted = {}
    /\ \A x \in Elems(Logged) : x[2] < next[x[1]]
    /\ \A i \in 1..Len(inputChan) : Older(Elems(Logged), PointsOf(inputChan[i]))
    /\ MaxSize = 0 => Received \subseteq accepted \cup Elems(Logged) \cup PointsAt(Elems(inputChan))

\* What is in the snapshot came from the tracker or from the map, is neither
\* written nor on its way, and is in the order of arrival.
SnapOK ==
    /\ Elems(snap) \subseteq Cached \cup InFlight
    /\ Elems(snap) \cap (written \cup PointsAt(OnWay)) = {}
    /\ Ascending(snap)

\* The objects of the map that are still to be saved.
ToSave == IF dumpPC = "snapOut" THEN CachedAddrs ELSE left

\* While the dump runs, the cache stands still, and what is still to be saved
\* is younger than what has been.
SaveOK ==
    /\ workerPC = "done" /\ trackerPC = "done"
    /\ ToSave \subseteq CachedAddrs
    /\ PointsAt(CachedAddrs \ ToSave) \subseteq Elems(snap)
    /\ Older(Elems(snap), PointsAt(ToSave))
    /\ \A i \in 1..Len(outputChan) : Older(Elems(snap), PointsOf(outputChan[i]))

\* Every wait of GraceStopDump has left what it waited for behind it.
PhaseOK ==
    /\ dumpPC # "snapOut" => outputChan = Empty
    /\ dumpPC \notin {"snapOut", "snapMap"} => left = {}
    /\ dumpPC \notin {"snapOut", "snapMap", "stopListeners"} => ~listening
    /\ dumpPC \notin {"snapOut", "snapMap", "stopListeners", "waitInput", "blocked"} => inputChan = Empty
    /\ Finished => taken = {}

DumpInv ==
    /\ IInv /\ OrderOK /\ DumpShape /\ ObjectsAscend /\ WayOK /\ WayOrder /\ LogOK /\ SnapOK
    /\ Early => TInv /\ snap = Empty
    /\ Late => SaveOK /\ PhaseOK

(***************************************************************************)
(* Lines and files.                                                        *)
(***************************************************************************)
\* An object's lines are its points, in order.
LEMMA LinesOf ==
    ASSUME ShapeOK, ObjectsAscend, NEW a \in Addr
    PROVE  /\ Lines(a) \in Seq(Point) /\ Elems(Lines(a)) = PointsOf(a)
           /\ Ascending(Lines(a))
<1>1. /\ obj[a] \in Seq(Serial) /\ Len(obj[a]) \in Nat /\ MetricOf(a) \in Metric
      /\ \A i \in 1..Len(obj[a]) : obj[a][i] \in Serial
  BY ObjectType DEF MetricOf, Addr, Point
<1>2. PICK n, f : n = Len(obj[a]) /\ f = [i \in 1..n |-> <<MetricOf(a), obj[a][i]>>]
  OBVIOUS
<1>3. Lines(a) = f
  BY <1>2 DEF Lines
<1>4. \A i \in 1..n : f[i] = <<MetricOf(a), obj[a][i]>> /\ f[i] \in Point
  BY <1>1, <1>2 DEF Point
<1>5. f \in Seq(Point) /\ Len(f) = n
  <2>1. n \in Nat /\ f \in [1..n -> Point]
    BY <1>1, <1>2, <1>4
  <2> QED BY <2>1
<1>6. Elems(f) = PointsOf(a)
  BY <1>2, <1>4, <1>5 DEF Elems, PointsOf
<1>7. Ascending(f)
  <2>1. \A i, j \in 1..n : i < j => obj[a][i] < obj[a][j]
    BY <1>2 DEF ObjectsAscend
  <2>2. \A i \in 1..n : f[i][2] = obj[a][i]
    BY <1>4
  <2> QED BY <1>5, <2>1, <2>2 DEF Ascending
<1> QED BY <1>3, <1>5, <1>6, <1>7

\* Younger lines are written behind older ones.
LEMMA AscendingConcat ==
    ASSUME NEW s \in Seq(Point), NEW t \in Seq(Point), Ascending(s), Ascending(t),
           Older(Elems(s), Elems(t))
    PROVE  Ascending(s \o t)
<1>1. PICK m, n, u : m = Len(s) /\ n = Len(t) /\ u = s \o t
  OBVIOUS
<1>2. /\ m \in Nat /\ n \in Nat /\ Len(u) = m + n
      /\ \A i \in 1..(m + n) : u[i] = IF i <= m THEN s[i] ELSE t[i - m]
  BY <1>1, Concat
<1>3. \A i \in 1..m : s[i] \in Elems(s)
  BY <1>1 DEF Elems
<1>4. \A i \in 1..n : t[i] \in Elems(t)
  BY <1>1 DEF Elems
<1>5. SUFFICES ASSUME NEW i \in 1..(m + n), NEW j \in 1..(m + n), i < j, u[i][1] = u[j][1]
               PROVE  u[i][2] < u[j][2]
  BY <1>1, <1>2 DEF Ascending
<1>6. CASE j <= m
  <2>1. i \in 1..m /\ j \in 1..m /\ u[i] = s[i] /\ u[j] = s[j]
    BY <1>2, <1>5, <1>6
  <2> QED BY <1>1, <1>5, <2>1 DEF Ascending
<1>7. CASE i <= m /\ ~(j <= m)
  <2>1. i \in 1..m /\ (j - m) \in 1..n /\ u[i] = s[i] /\ u[j] = t[j - m]
    BY <1>2, <1>5, <1>7
  <2> QED BY <1>3, <1>4, <1>5, <2>1 DEF Older
<1>8. CASE ~(i <= m)
  <2>1. /\ (i - m) \in 1..n /\ (j - m) \in 1..n /\ i - m < j - m
        /\ u[i] = t[i - m] /\ u[j] = t[j - m]
    BY <1>2, <1>5, <1>8
  <2> QED BY <1>1, <1>5, <2>1 DEF Ascending
<1> QED BY <1>5, <1>6, <1>7, <1>8

\* A file in order has no line twice, and its parts are in order and apart.
LEMMA AscendingParts ==
    ASSUME NEW s \in Seq(Point), NEW t \in Seq(Point), Ascending(s \o t)
    PROVE  Ascending(s) /\ Elems(s) \cap Elems(t) = {}
<1>1. PICK m, n, u : m = Len(s) /\ n = Len(t) /\ u = s \o t
  OBVIOUS
<1>2. /\ m \in Nat /\ n \in Nat /\ Len(u) = m + n
      /\ \A i \in 1..(m + n) : u[i] = IF i <= m THEN s[i] ELSE t[i - m]
  BY <1>1, Concat
<1>3. \A i \in 1..m : i \in 1..(m + n) /\ u[i] = s[i]
  BY <1>2
<1>4. \A i, j \in 1..(m + n) : i < j /\ u[i][1] = u[j][1] => u[i][2] < u[j][2]
  BY <1>1, <1>2 DEF Ascending
<1>5. Ascending(s)
  BY <1>1, <1>3, <1>4 DEF Ascending
<1>6. ASSUME NEW x \in Elems(s), x \in Elems(t) PROVE FALSE
  <2>1. PICK i \in 1..m : x = s[i]
    BY <1>1 DEF Elems
  <2>2. PICK j \in 1..n : x = t[j]
    BY <1>1, <1>6 DEF Elems
  <2>3. j + m \in 1..(m + n) /\ i < j + m /\ u[j + m] = t[j]
    BY <1>2
  <2>4. x[2] < x[2]
    BY <1>3, <1>4, <2>1, <2>2, <2>3
  <2>5. x[2] \in Nat
    <3>1. x \in Point
      BY <1>1, <2>1
    <3> QED BY <3>1 DEF Point, Serial
  <2> QED BY <2>4, <2>5
<1> QED BY <1>5, <1>6

\* Handing on a part of Glue's buffer keeps the order of what it has received.
LEMMA SplitLog ==
    ASSUME NEW f \in Seq(Point), NEW b \in Seq(Point), NEW l \in Seq(Point),
           NEW d \in 0..Len(b \o l)
    PROVE  /\ f \o SubSeq(b \o l, 1, d) \in Seq(Point)
           /\ SubSeq(b \o l, d + 1, Len(b \o l)) \in Seq(Point)
           /\ (f \o SubSeq(b \o l, 1, d)) \o SubSeq(b \o l, d + 1, Len(b \o l)) = (f \o b) \o l
<1>1. PICK k, m, n, all : k = Len(f) /\ m = Len(b) /\ n = Len(l) /\ all = b \o l
  OBVIOUS
<1>2. /\ k \in Nat /\ m \in Nat /\ n \in Nat
      /\ all \in Seq(Point) /\ Len(all) = m + n /\ d \in Nat /\ d <= m + n
      /\ \A i \in 1..(m + n) : all[i] = IF i <= m THEN b[i] ELSE l[i - m]
  BY <1>1, Concat
<1>3. PICK u, w : u = SubSeq(all, 1, d) /\ w = SubSeq(all, d + 1, m + n)
  OBVIOUS
<1>4. /\ u \in Seq(Point) /\ Len(u) = d /\ \A i \in 1..d : u[i] = all[i]
  BY <1>2, <1>3
<1>5. /\ w \in Seq(Point) /\ Len(w) = (m + n) - d
      /\ \A i \in 1..((m + n) - d) : w[i] = all[d + i]
  BY <1>2, <1>3
<1>6. PICK fu, fb : fu = f \o u /\ fb = f \o b
  OBVIOUS
<1>7. /\ fu \in Seq(Point) /\ Len(fu) = k + d
      /\ \A i \in 1..(k + d) : fu[i] = IF i <= k THEN f[i] ELSE u[i - k]
  <2>1. /\ f \o u \in Seq(Point) /\ Len(f \o u) = Len(f) + Len(u)
        /\ \A i \in 1..(Len(f) + Len(u)) : (f \o u)[i] = IF i <= Len(f) THEN f[i] ELSE u[i - Len(f)]
    BY <1>4, Concat, Zenon
  <2> QED BY <1>1, <1>4, <1>6, <2>1, Zenon
<1>8. /\ fb \in Seq(Point) /\ Len(fb) = k + m
      /\ \A i \in 1..(k + m) : fb[i] = IF i <= k THEN f[i] ELSE b[i - k]
  BY <1>1, <1>6, Concat
<1>9. PICK x, y : x = fu \o w /\ y = fb \o l
  OBVIOUS
<1>10. /\ x \in Seq(Point) /\ Len(x) = k + (m + n)
       /\ \A i \in 1..(k + (m + n)) : x[i] = IF i <= k + d THEN fu[i] ELSE w[i - (k + d)]
  <2>1. /\ x \in Seq(Point) /\ Len(x) = (k + d) + ((m + n) - d)
        /\ \A i \in 1..((k + d) + ((m + n) - d)) : x[i] = IF i <= k + d THEN fu[i] ELSE w[i - (k + d)]
    <3>1. /\ fu \o w \in Seq(Point) /\ Len(fu \o w) = Len(fu) + Len(w)
          /\ \A i \in 1..(Len(fu) + Len(w)) : (fu \o w)[i] = IF i <= Len(fu) THEN fu[i] ELSE w[i - Len(fu)]
      BY <1>5, <1>7, Concat, Zenon
    <3>2. Len(fu) = k + d /\ Len(w) = (m + n) - d
      BY <1>5, <1>7
    <3> QED BY <1>9, <3>1, <3>2, Zenon
  <2>2. (k + d) + ((m + n) - d) = k + (m + n)
    BY <1>2
  <2> QED BY <2>1, <2>2
<1>11. /\ y \in Seq(Point) /\ Len(y) = k + (m + n)
       /\ \A i \in 1..(k + (m + n)) : y[i] = IF i <= k + m THEN fb[i] ELSE l[i - (k + m)]
  <2>1. /\ y \in Seq(Point) /\ Len(y) = (k + m) + n
        /\ \A i \in 1..((k + m) + n) : y[i] = IF i <= k + m THEN fb[i] ELSE l[i - (k + m)]
    <3>1. /\ fb \o l \in Seq(Point) /\ Len(fb \o l) = Len(fb) + Len(l)
          /\ \A i \in 1..(Len(fb) + Len(l)) : (fb \o l)[i] = IF i <= Len(fb) THEN fb[i] ELSE l[i - Len(fb)]
      BY <1>8, Concat, Zenon
    <3>2. Len(fb) = k + m /\ Len(l) = n
      BY <1>1, <1>8
    <3> QED BY <1>9, <3>1, <3>2, Zenon
  <2>2. (k + m) + n = k + (m + n)
    BY <1>2
  <2> QED BY <2>1, <2>2
<1>12. ASSUME NEW i \in 1..(k + (m + n)) PROVE x[i] = y[i]
  <2>1. CASE i <= k
    <3>1. i \in 1..(k + d) /\ i \in 1..(k + m) /\ i <= k + d /\ i <= k + m
      BY <1>2, <2>1
    <3> QED BY <1>7, <1>8, <1>10, <1>11, <2>1, <3>1
  <2>2. CASE ~(i <= k)
    <3>1. PICK j : j = i - k
      OBVIOUS
    <3>2. j \in 1..(m + n) /\ i = k + j
      BY <1>2, <2>2, <3>1
    <3>3. x[i] = all[j]
      <4>1. CASE j <= d
        <5>1. i \in 1..(k + d) /\ i <= k + d /\ j \in 1..d
          BY <1>2, <2>2, <3>2, <4>1
        <5>2. x[i] = fu[i] /\ fu[i] = u[j] /\ u[j] = all[j]
          BY <1>4, <1>7, <1>10, <2>2, <3>1, <5>1
        <5> QED BY <5>2
      <4>2. CASE ~(j <= d)
        <5>1. ~(i <= k + d) /\ i - (k + d) = j - d /\ (j - d) \in 1..((m + n) - d) /\ d + (j - d) = j
          BY <1>2, <3>2, <4>2
        <5>2. x[i] = w[j - d] /\ w[j - d] = all[d + (j - d)]
          BY <1>5, <1>10, <5>1
        <5> QED BY <5>1, <5>2
      <4> QED BY <4>1, <4>2
    <3>4. y[i] = all[j]
      <4>1. CASE j <= m
        <5>1. i \in 1..(k + m) /\ i <= k + m
          BY <1>2, <3>2, <4>1
        <5>2. y[i] = fb[i] /\ fb[i] = b[j]
          BY <1>8, <1>11, <2>2, <3>1, <5>1
        <5> QED BY <1>2, <3>2, <4>1, <5>2
      <4>2. CASE ~(j <= m)
        <5>1. ~(i <= k + m) /\ i - (k + m) = j - m
          BY <1>2, <3>2, <4>2
        <5> QED BY <1>2, <1>11, <3>2, <4>2, <5>1
      <4> QED BY <4>1, <4>2
    <3> QED BY <3>3, <3>4
  <2> QED BY <2>1, <2>2
<1>13. x = y
  BY <1>10, <1>11, <1>12, SeqEqual
<1> QED BY <1>1, <1>2, <1>3, <1>5, <1>6, <1>7, <1>9, <1>13

\* Glue keeps no more than it has.
LEMMA KeptSome == ASSUME NEW n \in Nat PROVE n - Kept(n) \in 0..n
<1>1. CASE n = 0
  BY <1>1 DEF Kept
<1>2. CASE n # 0
  <2>1. PICK k \in Nat : k = n - 1
    BY <1>2
  <2>2. ChunkLines \in Nat \ {0}
    BY DumpAssumption
  <2>3. PICK q, r : q = k \div ChunkLines /\ r = k % ChunkLines
    OBVIOUS
  <2>4. q \in Nat /\ r \in Nat /\ k = ChunkLines * q + r
    BY <2>1, <2>2, <2>3
  <2>5. ChunkLines * q \in Nat
    BY <2>2, <2>4
  <2>6. r <= k
    BY <2>1, <2>4, <2>5
  <2>7. Kept(n) = 1 + r
    BY <1>2, <2>1, <2>3 DEF Kept
  <2> QED BY <2>1, <2>4, <2>6, <2>7
<1> QED BY <1>1, <1>2

(***************************************************************************)
(* Steps of the cache.                                                     *)
(***************************************************************************)
\* Add appends younger points to an object, so that its points stay in order.
LEMMA AscendStep ==
    ASSUME IInv, InputOrder, ObjectsAscend, [Next]_vars
    PROVE  ObjectsAscend'
<1>1. ShapeOK /\ Account /\ obj \in [Addr -> Seq(Serial)]
  BY DEF IInv, ShapeOK
<1>2. CASE UNCHANGED obj
  BY <1>2 DEF ObjectsAscend
<1>3. ASSUME NEW m \in Metric, NEW k \in 1..MaxBatch, Receive(m, k) PROVE ObjectsAscend'
  <2>1. PICK a, new : a = <<m, next[m]>> /\ new = [i \in 1..k |-> next[m] + i - 1]
    OBVIOUS
  <2>2. obj' = [obj EXCEPT ![a] = new]
    BY <1>3, <2>1 DEF Receive
  <2>3. k \in Nat /\ next[m] \in Nat
    BY <1>1 DEF ShapeOK
  <2>4. Len(new) = k /\ \A i, j \in 1..k : i < j => new[i] < new[j]
    BY <2>1, <2>3
  <2>5. \A b \in Addr : obj'[b] = new \/ obj'[b] = obj[b]
    BY <1>1, <2>2
  <2> QED BY <2>4, <2>5 DEF ObjectsAscend
<1>4. CASE SelectReceive /\ ~UNCHANGED obj
  <2>1. PICK a, m, d : a = Head(inputChan) /\ m = MetricOf(a) /\ d = data[m]
    OBVIOUS
  <2>2. d # Nil /\ obj' = [obj EXCEPT ![d] = @ \o obj[a]]
    BY <1>4, <2>1 DEF SelectReceive, Add
  <2>3. a \in Addr /\ a = inputChan[1] /\ 1 \in 1..Len(inputChan) /\ m \in Metric
    <3>1. a \in Addr /\ a = inputChan[1] /\ 1 \in 1..Len(inputChan)
      BY <1>1, <1>4, <2>1, ElemsTail DEF SelectReceive, ShapeOK
    <3> QED BY <2>1, <3>1 DEF MetricOf, Addr, Point
  <2>4. d \in Addr /\ d \in CachedAddrs /\ MetricOf(d) = m
    BY <1>1, <2>1, <2>2, <2>3 DEF ShapeOK, CachedAddrs, Account, MapOK
  <2>5. PICK s, t, u : s = obj[d] /\ t = obj[a] /\ u = s \o t
    OBVIOUS
  <2>6. /\ s \in Seq(Serial) /\ t \in Seq(Serial)
        /\ \A i \in 1..Len(s) : s[i] \in Nat
        /\ \A i \in 1..Len(t) : t[i] \in Nat
    BY <1>1, <2>3, <2>4, <2>5, ObjectType
  <2>7. \A i \in 1..Len(s) : \A j \in 1..Len(t) : s[i] < t[j]
    <3> SUFFICES ASSUME NEW i \in 1..Len(s), NEW j \in 1..Len(t) PROVE s[i] < t[j]
      OBVIOUS
    <3>1. <<m, s[i]>> \in PointsOf(d) /\ <<m, t[j]>> \in PointsOf(a)
      BY <2>1, <2>4, <2>5 DEF PointsOf, Elems
    <3>2. <<m, s[i]>> \in accepted
      BY <1>1, <2>4, <3>1 DEF Account, NoLoss, Cached, PointsAt
    <3>3. Older(accepted, PointsOf(a))
      BY <2>3 DEF InputOrder
    <3> QED BY <3>1, <3>2, <3>3 DEF Older
  <2>8. \A i, j \in 1..Len(s) : i < j => s[i] < s[j]
    BY <2>4, <2>5 DEF ObjectsAscend
  <2>9. \A i, j \in 1..Len(t) : i < j => t[i] < t[j]
    BY <2>3, <2>5 DEF ObjectsAscend
  <2>10. \A i, j \in 1..Len(u) : i < j => u[i] < u[j]
    <3>1. PICK k, n : k = Len(s) /\ n = Len(t)
      OBVIOUS
    <3>2. k \in Nat /\ n \in Nat /\ Len(u) = k + n
          /\ \A i \in 1..(k + n) : u[i] = IF i <= k THEN s[i] ELSE t[i - k]
      <4>1. k \in Nat /\ n \in Nat
        BY <2>6, <3>1
      <4>2. /\ Len(s \o t) = Len(s) + Len(t)
            /\ \A i \in 1..(Len(s) + Len(t)) : (s \o t)[i] = IF i <= Len(s) THEN s[i] ELSE t[i - Len(s)]
        BY <2>6, Concat, Zenon
      <4> QED BY <2>5, <3>1, <4>1, <4>2, Zenon
    <3> SUFFICES ASSUME NEW i \in 1..(k + n), NEW j \in 1..(k + n), i < j PROVE u[i] < u[j]
      BY <3>2
    <3>3. CASE j <= k
      <4>1. i \in 1..k /\ j \in 1..k /\ u[i] = s[i] /\ u[j] = s[j]
        BY <3>2, <3>3
      <4> QED BY <2>8, <3>1, <4>1
    <3>4. CASE i <= k /\ ~(j <= k)
      <4>1. i \in 1..k /\ j - k \in 1..n /\ u[i] = s[i] /\ u[j] = t[j - k]
        BY <3>2, <3>4
      <4> QED BY <2>7, <3>1, <4>1
    <3>5. CASE ~(i <= k)
      <4>1. /\ i - k \in 1..n /\ j - k \in 1..n /\ i - k < j - k
            /\ u[i] = t[i - k] /\ u[j] = t[j - k]
        BY <3>2, <3>5
      <4> QED BY <2>9, <3>1, <4>1
    <3> QED BY <3>3, <3>4, <3>5
  <2>11. \A b \in Addr : obj'[b] = u \/ obj'[b] = obj[b]
    BY <1>1, <2>2, <2>5
  <2> QED BY <2>10, <2>11 DEF ObjectsAscend
<1>5. UNCHANGED obj \/ SelectReceive \/ \E m \in Metric, k \in 1..MaxBatch : Receive(m, k)
  BY DEF Next, Worker, Tracker, Environment, LoopKeep, LoopPopQueued, LoopRebuild, LoopEmpty,
         SelectQuery, ForwardQuery, SelectSend, SelectOverflow, SelectExit, TrackerSend,
         TrackerConfirm, TrackerQuery, TrackerExit, Ask, Take, Confirm, Stop, vars,
         unchangedByLoop, unchangedByTracker
<1> QED BY <1>2, <1>3, <1>4, <1>5

\* Points of which the one came before the other are not the same.
LEMMA OlderApart ==
    ASSUME NEW X \in SUBSET Point, NEW Y, Older(X, Y)
    PROVE  X \cap Y = {}
<1>1. ASSUME NEW x \in X, x \in Y PROVE FALSE
  <2>1. x[2] < x[2]
    BY <1>1 DEF Older
  <2>2. x[2] \in Nat
    BY DEF Point, Serial
  <2> QED BY <2>1, <2>2
<1> QED BY <1>1

\* The messages in the input channel are as their receivers made them.
LEMMA InputKept ==
    ASSUME IInv, [Next]_vars
    PROVE  \A b \in Elems(inputChan) : PointsOf(b)' = PointsOf(b)
BY LiveKept, HandedApart DEF LiveAddrs

\* The points of a receiver's new message.
LEMMA FreshPoints ==
    ASSUME IInv, NEW m \in Metric, NEW k \in 1..MaxBatch, Receive(m, k), NEW a, a = <<m, next[m]>>
    PROVE  /\ next' = [next EXCEPT ![m] = next[m] + k] /\ next[m] \in Nat /\ k \in Nat
           /\ \A x \in Point : x[1] = m /\ next[m] <= x[2] /\ x[2] < next[m] + k => x \in PointsOf(a)'
           /\ \A y \in PointsOf(a)' : y[1] = m /\ y[2] \in Nat /\ next[m] <= y[2]
<1>1. ShapeOK /\ obj \in [Addr -> Seq(Serial)]
  BY DEF IInv, ShapeOK
<1>2. next[m] + k - 1 <= MaxSerial /\ next[m] \in Nat \ {0} /\ k \in Nat \ {0} /\ MaxSerial \in Nat
  <2>1. next[m] + k - 1 <= MaxSerial
    BY DEF Receive
  <2> QED BY <1>1, <2>1, SerialAssumption DEF ShapeOK
<1>3. a \in Addr /\ MetricOf(a) = m
  <2>1. next[m] \in 1..MaxSerial
    BY <1>2
  <2> QED BY <2>1 DEF Addr, Point, Serial, MetricOf
<1>4. PICK new : new = [i \in 1..k |-> next[m] + i - 1]
  OBVIOUS
<1>5. obj'[a] = new /\ Len(new) = k
  BY <1>1, <1>2, <1>3, <1>4 DEF Receive
<1>6. ASSUME NEW x \in Point, x[1] = m, next[m] <= x[2], x[2] < next[m] + k
      PROVE  x \in PointsOf(a)'
  <2>1. x = <<m, x[2]>> /\ x[2] \in Nat
    BY <1>6 DEF Point, Serial
  <2>2. PICK i : i = x[2] - next[m] + 1
    OBVIOUS
  <2>3. i \in 1..k /\ next[m] + i - 1 = x[2]
    BY <1>2, <1>6, <2>1, <2>2
  <2>4. new[i] = x[2]
    BY <1>4, <2>3
  <2>5. x[2] \in Elems(obj'[a])
    BY <1>5, <2>3, <2>4 DEF Elems
  <2> QED BY <1>3, <2>1, <2>5 DEF PointsOf, MetricOf, Elems
<1>7. ASSUME NEW y \in PointsOf(a)' PROVE y[1] = m /\ y[2] \in Nat /\ next[m] <= y[2]
  <2>1. PICK i \in 1..k : y = <<m, new[i]>>
    BY <1>3, <1>5 DEF PointsOf, MetricOf, Elems
  <2>2. new[i] \in Nat /\ next[m] <= new[i]
    BY <1>2, <1>4
  <2> QED BY <2>1, <2>2
<1> QED BY <1>2, <1>6, <1>7 DEF Receive

\* What the input log has received stays apart from what the cache accepts,
\* although both read the same channel.
LEMMA LogStep ==
    ASSUME IInv, InputOrder, DumpShape, LogOK, [Next]_vars, UNCHANGED <<xlog, xlogBuf>>
    PROVE  LogOK'
<1>1. ShapeOK /\ Account /\ inputChan \in Seq(Addr) /\ next \in [Metric -> Nat \ {0}]
  BY DEF IInv, ShapeOK
<1>2. PICK log, L : log = Logged /\ L = Elems(Logged)
  OBVIOUS
<1>3. /\ Logged' = log /\ Elems(Logged)' = L /\ Ascending(Logged)'
      /\ L \subseteq Point
  <2>1. Logged' = log
    BY <1>2 DEF Logged
  <2>2. Ascending(log) /\ L = Elems(log)
    BY <1>2 DEF LogOK
  <2>3. log \in Seq(Point)
    BY <1>2, ElemsConcat DEF Logged, DumpShape
  <2> QED BY <2>1, <2>2, <2>3 DEF Ascending, Elems
<1>4. /\ L \cap accepted = {} /\ \A x \in L : x[2] < next[x[1]]
      /\ \A i \in 1..Len(inputChan) : Older(L, PointsOf(inputChan[i]))
      /\ MaxSize = 0 => Received \subseteq accepted \cup L \cup PointsAt(Elems(inputChan))
  BY <1>2 DEF LogOK
<1>5. /\ \A b \in Elems(inputChan) : PointsOf(b)' = PointsOf(b)
      /\ \A i \in 1..Len(inputChan) : inputChan[i] \in Elems(inputChan)
  BY InputKept DEF Elems
<1>6. SUFFICES /\ L \cap accepted' = {} /\ \A x \in L : x[2] < next'[x[1]]
               /\ \A i \in 1..Len(inputChan') : Older(L, (PointsOf(inputChan[i]))')
               /\ MaxSize = 0 => Received' \subseteq accepted' \cup L \cup PointsAt(Elems(inputChan))'
  BY <1>3 DEF LogOK
<1>7. Received' = {x \in Point : x[2] < next'[x[1]]}
  BY DEF Received
<1>8. PointsAt(Elems(inputChan))' = UNION {PointsOf(b)' : b \in Elems(inputChan')}
  BY DEF PointsAt, Elems
<1>9. CASE UNCHANGED <<inputChan, accepted, next>>
  <2>1. \A i \in 1..Len(inputChan) : (PointsOf(inputChan[i]))' = PointsOf(inputChan[i])
    <3> SUFFICES ASSUME NEW i \in 1..Len(inputChan)
                 PROVE  (PointsOf(inputChan[i]))' = PointsOf(inputChan[i])
      OBVIOUS
    <3>1. PICK b : b = inputChan[i]
      OBVIOUS
    <3>2. (PointsOf(inputChan[i]))' = PointsOf(b)'
      BY <1>9, <3>1 DEF PointsOf, Elems, MetricOf
    <3> QED BY <1>5, <3>1, <3>2
  <2>2. PointsAt(Elems(inputChan))' = PointsAt(Elems(inputChan))
    BY <1>5, <1>8, <1>9 DEF PointsAt
  <2>3. Received' = Received
    BY <1>7, <1>9 DEF Received
  <2> QED BY <1>4, <1>9, <2>1, <2>2, <2>3
<1>10. CASE SelectReceive \/ SelectOverflow
  <2>1. PICK a : a = Head(inputChan)
    OBVIOUS
  <2>2. /\ inputChan # Empty /\ inputChan' = Tail(inputChan) /\ UNCHANGED next
        /\ accepted' \subseteq accepted \cup PointsOf(a) /\ accepted \subseteq accepted'
        /\ MaxSize = 0 => accepted' = accepted \cup PointsOf(a)
    BY <1>10, <2>1 DEF SelectReceive, SelectOverflow, Add, hasRoom
  <2>3. /\ a = inputChan[1] /\ 1 \in 1..Len(inputChan)
        /\ Elems(inputChan) = {a} \cup Elems(inputChan')
        /\ \A i \in 1..Len(inputChan') : i + 1 \in 1..Len(inputChan) /\ inputChan'[i] = inputChan[i + 1]
    BY <1>1, <2>1, <2>2, ElemsTail
  <2>4. L \cap accepted' = {}
    <3>1. Older(L, PointsOf(a))
      BY <1>4, <2>3
    <3>2. L \cap PointsOf(a) = {}
      BY <1>3, <3>1, OlderApart
    <3> QED BY <1>4, <2>2, <3>2
  <2>5. ASSUME NEW i \in 1..Len(inputChan') PROVE Older(L, (PointsOf(inputChan[i]))')
    <3>1. PICK b : b = inputChan[i + 1]
      OBVIOUS
    <3>2. (PointsOf(inputChan[i]))' = PointsOf(b)'
      BY <2>3, <3>1 DEF PointsOf, Elems, MetricOf
    <3> QED BY <1>4, <1>5, <2>3, <3>1, <3>2
  <2>6. PointsAt(Elems(inputChan)) \subseteq PointsOf(a) \cup PointsAt(Elems(inputChan))'
    <3>1. \A b \in Elems(inputChan') : PointsOf(b)' = PointsOf(b)
      BY <1>5, <2>3
    <3> QED BY <1>8, <2>3, <3>1 DEF PointsAt
  <2>7. Received' = Received
    BY <1>7, <2>2 DEF Received
  <2> QED BY <1>4, <2>2, <2>4, <2>5, <2>6, <2>7
<1>11. ASSUME NEW m \in Metric, NEW k \in 1..MaxBatch, Receive(m, k)
       PROVE  /\ L \cap accepted' = {} /\ \A x \in L : x[2] < next'[x[1]]
              /\ \A i \in 1..Len(inputChan') : Older(L, (PointsOf(inputChan[i]))')
              /\ MaxSize = 0 => Received' \subseteq accepted' \cup L \cup PointsAt(Elems(inputChan))'
  <2>1. PICK a : a = <<m, next[m]>>
    OBVIOUS
  <2>2. a \in Addr /\ inputChan' = Append(inputChan, a) /\ UNCHANGED accepted
    BY <1>11, <2>1, FreshYounger
  <2>3. /\ next' = [next EXCEPT ![m] = next[m] + k] /\ next[m] \in Nat /\ k \in Nat
        /\ \A x \in Point : x[1] = m /\ next[m] <= x[2] /\ x[2] < next[m] + k => x \in PointsOf(a)'
    BY <1>11, <2>1, FreshPoints
  <2>4. \A x \in Point : x[1] \in Metric /\ x[2] \in Nat /\ next[x[1]] \in Nat
    BY <1>1 DEF Point, Serial
  <2>5. \A x \in L : x[2] < next'[x[1]]
    BY <1>1, <1>3, <1>4, <2>3, <2>4
  <2>6. \A y \in PointsOf(a)' : y[1] = m /\ y[2] \in Nat /\ next[m] <= y[2]
    BY <1>11, <2>1, FreshPoints
  <2>7. Older(L, PointsOf(a)')
    BY <1>3, <1>4, <2>3, <2>4, <2>6 DEF Older
  <2>8. /\ Len(inputChan) \in Nat /\ Len(inputChan') = Len(inputChan) + 1
        /\ inputChan'[Len(inputChan) + 1] = a
        /\ \A i \in 1..Len(inputChan) : inputChan'[i] = inputChan[i]
    BY <1>1, <2>2
  <2>9. ASSUME NEW i \in 1..Len(inputChan') PROVE Older(L, (PointsOf(inputChan[i]))')
    <3>1. i = Len(inputChan) + 1 \/ i \in 1..Len(inputChan)
      BY <2>8
    <3>2. CASE i = Len(inputChan) + 1
      <4>1. (PointsOf(inputChan[i]))' = PointsOf(a)'
        BY <2>8, <3>2 DEF PointsOf, Elems, MetricOf
      <4> QED BY <2>7, <4>1
    <3>3. CASE i \in 1..Len(inputChan)
      <4>1. PICK b : b = inputChan[i]
        OBVIOUS
      <4>2. (PointsOf(inputChan[i]))' = PointsOf(b)'
        BY <2>8, <3>3, <4>1 DEF PointsOf, Elems, MetricOf
      <4> QED BY <1>4, <1>5, <3>3, <4>1, <4>2
    <3> QED BY <3>1, <3>2, <3>3
  <2>10. PointsAt(Elems(inputChan))' = PointsAt(Elems(inputChan)) \cup PointsOf(a)'
    <3>1. Elems(inputChan') = Elems(inputChan) \cup {a}
      BY <1>1, <2>2, ElemsAppend
    <3> QED BY <1>5, <1>8, <3>1 DEF PointsAt
  <2>11. Received' \subseteq Received \cup PointsOf(a)'
    <3>1. ASSUME NEW x \in Point, x[2] < next'[x[1]], ~(x[2] < next[x[1]]) PROVE x \in PointsOf(a)'
      <4>1. x[1] = m /\ x[2] < next[m] + k
        BY <1>1, <2>3, <2>4, <3>1
      <4>2. next[m] <= x[2]
        BY <2>3, <2>4, <3>1, <4>1
      <4> QED BY <2>3, <4>1, <4>2
    <3> QED BY <1>7, <3>1 DEF Received
  <2> QED BY <1>4, <2>2, <2>5, <2>9, <2>10, <2>11
<1>12. \/ UNCHANGED <<inputChan, accepted, next>> \/ SelectReceive \/ SelectOverflow
       \/ \E m \in Metric, k \in 1..MaxBatch : Receive(m, k)
  BY DEF Next, Worker, Tracker, Environment, LoopKeep, LoopPopQueued, LoopRebuild, LoopEmpty,
         SelectQuery, ForwardQuery, SelectSend, SelectExit, TrackerSend, TrackerConfirm,
         TrackerQuery, TrackerExit, Ask, Take, Confirm, Stop, vars, unchangedByLoop,
         unchangedByTracker, inVars
<1> QED BY <1>9, <1>10, <1>11, <1>12

(***************************************************************************)
(* Steps that leave the cache's objects where they are.                    *)
(***************************************************************************)
\* What is in the map, in the two hands and on its way.
stageVars == <<obj, data, values, p, notConfirmed, outputChan, taken, written>>

LEMMA SameStages ==
    ASSUME UNCHANGED stageVars
    PROVE  /\ \A b : PointsOf(b)' = PointsOf(b)
           /\ CachedAddrs' = CachedAddrs /\ InFlightAddrs' = InFlightAddrs /\ OnWay' = OnWay
           /\ Cached' = Cached /\ InHand' = InHand /\ InFlight' = InFlight
           /\ PointsAt(OnWay)' = PointsAt(OnWay)
           /\ PointsAt({p} \ {Nil})' = PointsAt({p} \ {Nil})
           /\ Elems(outputChan)' = Elems(outputChan) /\ Once(outputChan)' = Once(outputChan)
           /\ \A i : (PointsOf(outputChan[i]))' = PointsOf(outputChan[i])
<1>1. UNCHANGED <<obj, data, values, p, notConfirmed, outputChan, taken, written>>
  BY DEF stageVars
<1>2. \A b : PointsOf(b)' = PointsOf(b)
  BY <1>1 DEF PointsOf, Elems, MetricOf
<1>3. /\ CachedAddrs' = CachedAddrs /\ HeldAddrs' = HeldAddrs
      /\ InFlightAddrs' = InFlightAddrs /\ OnWay' = OnWay
      /\ Elems(outputChan)' = Elems(outputChan) /\ Once(outputChan)' = Once(outputChan)
  BY <1>1 DEF CachedAddrs, HeldAddrs, InFlightAddrs, OnWay, Elems, Once
<1>4. /\ Cached' = Cached /\ InHand' = InHand /\ InFlight' = InFlight
      /\ PointsAt(OnWay)' = PointsAt(OnWay)
      /\ PointsAt({p} \ {Nil})' = PointsAt({p} \ {Nil})
  BY <1>1, <1>2, <1>3 DEF Cached, InHand, InFlight, PointsAt
<1>5. \A i : (PointsOf(outputChan[i]))' = PointsOf(outputChan[i])
  BY <1>1 DEF PointsOf, Elems, MetricOf
<1> QED BY <1>2, <1>3, <1>4, <1>5

\* Then the order and the places of the batches are the same.
LEMMA SameWay ==
    ASSUME UNCHANGED stageVars, StageOrder, ObjectsAscend, WayOrder
    PROVE  StageOrder' /\ ObjectsAscend' /\ WayOrder'
<1>1. UNCHANGED <<obj, outputChan, written>>
  BY DEF stageVars
<1>2. StageOrder'
  BY SameStages DEF StageOrder, Older
<1>3. ObjectsAscend'
  BY <1>1 DEF ObjectsAscend
<1>4. WayOrder'
  BY <1>1, SameStages DEF WayOrder, Older
<1> QED BY <1>2, <1>3, <1>4

LEMMA SameSnap ==
    ASSUME UNCHANGED <<stageVars, snap>>, WayOK, SnapOK
    PROVE  WayOK' /\ SnapOK'
<1>1. UNCHANGED <<p, taken, written, snap>> /\ UNCHANGED stageVars
  BY DEF stageVars
<1>2. Elems(snap)' = Elems(snap) /\ Ascending(snap)' = Ascending(snap)
  BY <1>1 DEF Elems, Ascending
<1>3. WayOK'
  BY <1>1, <1>2, SameStages DEF WayOK
<1>4. SnapOK'
  BY <1>1, <1>2, SameStages DEF SnapOK
<1> QED BY <1>3, <1>4

\* The hand-over does not depend on the input channel, except that messages
\* in it are new.
LEMMA DropHandOver ==
    ASSUME TInv, IInv', inputChan # Empty, inputChan' = Tail(inputChan),
           UNCHANGED <<stageVars, confirmChan, query, next>>
    PROVE  TInv'
<1>1. /\ ShapeOK /\ HandOverOK /\ UNCHANGED stageVars
      /\ UNCHANGED <<obj, next, p, notConfirmed, outputChan, taken, confirmChan, query>>
  BY DEF TInv, IInv, stageVars
<1>2. Elems(inputChan') \subseteq Elems(inputChan) /\ Elems(inputChan)' = Elems(inputChan')
  BY <1>1, ElemsTail DEF ShapeOK, Elems
<1>3. /\ Elems(confirmChan)' = Elems(confirmChan) /\ Once(confirmChan)' = Once(confirmChan)
      /\ \A m : Elems(notConfirmed[m])' = Elems(notConfirmed[m])
      /\ BehindAddrs' = BehindAddrs /\ Shown' = Shown
  BY <1>1 DEF Elems, Once, BehindAddrs, Shown
<1>4. InputShort' /\ ShownOK'
  BY <1>1, <1>2, <1>3, SameStages DEF HandOverOK, InputShort, ShownOK
<1>5. FiledOK' /\ OncePlaced' /\ InFlightApart'
  BY <1>1, <1>3, SameStages DEF HandOverOK, FiledOK, OncePlaced, InFlightApart, MetricOf
<1>6. TrackerExact'
  BY <1>1, <1>3, SameStages DEF HandOverOK, TrackerExact
<1> QED BY <1>4, <1>5, <1>6 DEF TInv, HandOverOK

(***************************************************************************)
(* The input log.                                                          *)
(***************************************************************************)
\* What Glue receives goes to the end of the log.
LEMMA GlueEffect ==
    ASSUME DumpInv, GlueReceive, NEW a, a = Head(inputChan)
    PROVE  /\ a \in Addr /\ a = inputChan[1] /\ 1 \in 1..Len(inputChan) /\ inputChan # Empty
           /\ inputChan' = Tail(inputChan) /\ Elems(inputChan) = {a} \cup Elems(inputChan')
           /\ \A i \in 1..Len(inputChan') : i + 1 \in 1..Len(inputChan) /\ inputChan'[i] = inputChan[i + 1]
           /\ Logged' = Logged \o Lines(a) /\ Logged \in Seq(Point)
           /\ xlog' \in Seq(Point) /\ xlogBuf' \in Seq(Point)
           /\ Lines(a) \in Seq(Point) /\ Elems(Lines(a)) = PointsOf(a) /\ Ascending(Lines(a))
           /\ UNCHANGED <<stageVars, confirmChan, query, next, accepted, snap, left, dumpPC, listening>>
<1>1. ShapeOK /\ ObjectsAscend /\ inputChan \in Seq(Addr) /\ inputChan # Empty
      /\ xlog \in Seq(Point) /\ xlogBuf \in Seq(Point) /\ inputChan' = Tail(inputChan)
  BY DEF DumpInv, IInv, ShapeOK, DumpShape, GlueReceive
<1>2. /\ a \in Addr /\ a = inputChan[1] /\ 1 \in 1..Len(inputChan)
      /\ Elems(inputChan) = {a} \cup Elems(inputChan')
      /\ \A i \in 1..Len(inputChan') : i + 1 \in 1..Len(inputChan) /\ inputChan'[i] = inputChan[i + 1]
  BY <1>1, ElemsTail
<1>3. Lines(a) \in Seq(Point) /\ Elems(Lines(a)) = PointsOf(a) /\ Ascending(Lines(a))
  BY <1>1, <1>2, LinesOf
<1>4. PICK all, n, d : all = xlogBuf \o Lines(a) /\ n = Len(all) /\ d = n - Kept(n)
  OBVIOUS
<1>5. xlog' = xlog \o SubSeq(all, 1, d) /\ xlogBuf' = SubSeq(all, d + 1, n)
  BY <1>4 DEF GlueReceive
<1>6. n \in Nat
  <2>1. all \in Seq(Point)
    BY <1>1, <1>3, <1>4, ElemsConcat
  <2> QED BY <1>4, <2>1
<1>7. d \in 0..n
  BY <1>4, <1>6, KeptSome
<1>8. /\ xlog \o SubSeq(all, 1, d) \in Seq(Point) /\ SubSeq(all, d + 1, n) \in Seq(Point)
      /\ (xlog \o SubSeq(all, 1, d)) \o SubSeq(all, d + 1, n) = (xlog \o xlogBuf) \o Lines(a)
  <2>1. PICK l : l = Lines(a)
    OBVIOUS
  <2>2. l \in Seq(Point) /\ d \in 0..Len(xlogBuf \o l) /\ all = xlogBuf \o l /\ n = Len(xlogBuf \o l)
    BY <1>3, <1>4, <1>7, <2>1
  <2>3. /\ xlog \o SubSeq(xlogBuf \o l, 1, d) \in Seq(Point)
        /\ SubSeq(xlogBuf \o l, d + 1, Len(xlogBuf \o l)) \in Seq(Point)
        /\ (xlog \o SubSeq(xlogBuf \o l, 1, d)) \o SubSeq(xlogBuf \o l, d + 1, Len(xlogBuf \o l))
               = (xlog \o xlogBuf) \o l
    BY <1>1, <2>2, SplitLog, ZenonT(30)
  <2> QED BY <2>1, <2>2, <2>3
<1>9. Logged' = Logged \o Lines(a) /\ xlog' \in Seq(Point) /\ xlogBuf' \in Seq(Point)
  BY <1>5, <1>8 DEF Logged
<1>10. Logged \in Seq(Point)
  BY <1>1, ElemsConcat DEF Logged
<1>11. UNCHANGED <<stageVars, confirmChan, query, next, accepted, snap, left, dumpPC, listening>>
  BY DEF GlueReceive, stageVars, storeVars, workerVars, trackVars, queryVars, persistVars, snapVars
<1> QED BY <1>1, <1>2, <1>3, <1>9, <1>10, <1>11

\* To the cache it is as if the message had never come.
LEMMA GlueDrops ==
    ASSUME DumpInv, GlueReceive
    PROVE  IInv' /\ InputOrder' /\ (Early => TInv')
<1>1. PICK a : a = Head(inputChan)
  OBVIOUS
<1>2. IInv /\ ShapeOK /\ InputOrder /\ (Early => TInv)
  BY DEF DumpInv, IInv, OrderOK
<1>3. /\ inputChan # Empty /\ inputChan' = Tail(inputChan)
      /\ UNCHANGED <<stageVars, confirmChan, query, next, accepted>>
      /\ \A i \in 1..Len(inputChan') : i + 1 \in 1..Len(inputChan) /\ inputChan'[i] = inputChan[i + 1]
  BY <1>1, GlueEffect
<1>4. UNCHANGED <<obj, next, data, size, metricCount, queue, values, workerPC, held, queryChan,
                  trackerChan, trackerPC, p, notConfirmed, outputChan, taken, confirmChan, query,
                  writeStrategy, exit, accepted, written>>
  BY DEF GlueReceive, storeVars, workerVars, trackVars, queryVars, persistVars, fixedVars
<1>5. IInv'
  <2>1. Account'
    BY <1>2, <1>3, <1>4, InputDropStep
  <2>2. inputChan' \in Seq(Addr)
    BY <1>2, <1>3, ElemsTail DEF ShapeOK
  <2>3. ShapeOK'
    BY <1>2, <1>4, <2>2 DEF ShapeOK
  <2> QED BY <2>1, <2>3 DEF IInv
<1>6. InputOrder'
  <2>1. ASSUME NEW i \in 1..Len(inputChan') PROVE (PointsOf(inputChan[i]))' = PointsOf(inputChan[i + 1])
    BY <1>3, <1>4 DEF PointsOf, Elems, MetricOf
  <2>2. ASSUME NEW i \in 1..Len(inputChan') PROVE Older(accepted', (PointsOf(inputChan[i]))')
    BY <1>2, <1>3, <2>1 DEF InputOrder
  <2>3. ASSUME NEW i \in 1..Len(inputChan'), NEW j \in 1..Len(inputChan'), i < j
        PROVE  Older((PointsOf(inputChan[i]))', (PointsOf(inputChan[j]))')
    <3>1. i + 1 < j + 1
      BY <2>3
    <3>2. Older(PointsOf(inputChan[i + 1]), PointsOf(inputChan[j + 1]))
      BY <1>2, <1>3, <3>1 DEF InputOrder
    <3> QED BY <2>1, <3>2
  <2> QED BY <2>2, <2>3 DEF InputOrder, Older
<1>7. Early => TInv'
  BY <1>2, <1>3, <1>5, DropHandOver
<1> QED BY <1>5, <1>6, <1>7

\* And the log has it, once and behind the older ones.
LEMMA GlueLogs == ASSUME DumpInv, GlueReceive PROVE LogOK'
<1>1. PICK a, l : a = Head(inputChan) /\ l = Lines(a)
  OBVIOUS
<1>2. IInv /\ Account /\ InputOrder /\ LogOK
  BY DEF DumpInv, IInv, OrderOK
<1>3. /\ a \in Addr /\ a = inputChan[1] /\ 1 \in 1..Len(inputChan)
      /\ Elems(inputChan) = {a} \cup Elems(inputChan')
      /\ \A i \in 1..Len(inputChan') : i + 1 \in 1..Len(inputChan) /\ inputChan'[i] = inputChan[i + 1]
      /\ Logged' = Logged \o l /\ Logged \in Seq(Point)
      /\ l \in Seq(Point) /\ Elems(l) = PointsOf(a) /\ Ascending(l)
      /\ UNCHANGED <<stageVars, next, accepted>>
  BY <1>1, GlueEffect
<1>4. \A b : PointsOf(b)' = PointsOf(b)
  BY <1>3, SameStages
<1>5. Older(Elems(Logged), PointsOf(a))
  BY <1>2, <1>3 DEF LogOK
<1>6. Elems(Logged') = Elems(Logged) \cup PointsOf(a) /\ Ascending(Logged')
  BY <1>2, <1>3, <1>5, ElemsConcat, AscendingConcat DEF LogOK
<1>7. Elems(Logged)' = Elems(Logged') /\ Ascending(Logged)'
  BY <1>6 DEF Elems, Ascending
<1>8. PointsOf(a) \cap accepted = {}
  BY <1>2, <1>3 DEF Account, InputOK
<1>9. \A x \in PointsOf(a) : x[2] < next[x[1]]
  <2>1. a \in LiveAddrs
    BY <1>3 DEF LiveAddrs
  <2> QED BY <1>2, <2>1 DEF Account, ObjectsOK, PointsOf, Elems, MetricOf
<1>10. ASSUME NEW i \in 1..Len(inputChan')
       PROVE  Older(Elems(Logged'), (PointsOf(inputChan[i]))')
  <2>1. (PointsOf(inputChan[i]))' = PointsOf(inputChan[i + 1])
    <3>1. PICK b : b = inputChan[i + 1]
      OBVIOUS
    <3>2. (PointsOf(inputChan[i]))' = PointsOf(b)'
      BY <1>3, <3>1, SMTT(20) DEF PointsOf, Elems, MetricOf
    <3> QED BY <1>4, <3>1, <3>2
  <2>2. Older(Elems(Logged), PointsOf(inputChan[i + 1]))
    BY <1>2, <1>3 DEF LogOK
  <2>3. Older(PointsOf(a), PointsOf(inputChan[i + 1]))
    <3>1. i + 1 \in 1..Len(inputChan) /\ 1 < i + 1
      BY <1>3
    <3> QED BY <1>2, <1>3, <3>1 DEF InputOrder
  <2> QED BY <1>6, <2>1, <2>2, <2>3 DEF Older
<1>11. MaxSize = 0 => Received' \subseteq accepted' \cup Elems(Logged') \cup PointsAt(Elems(inputChan))'
  <2>1. Received' = Received
    BY <1>3 DEF Received
  <2>2. PointsAt(Elems(inputChan))' = UNION {PointsOf(b)' : b \in Elems(inputChan')}
    BY DEF PointsAt, Elems
  <2>3. PointsAt(Elems(inputChan)) \subseteq PointsOf(a) \cup PointsAt(Elems(inputChan))'
    BY <1>3, <1>4, <2>2 DEF PointsAt
  <2> QED BY <1>2, <1>3, <1>6, <2>1, <2>3 DEF LogOK
<1> QED BY <1>2, <1>3, <1>6, <1>7, <1>8, <1>9, <1>10, <1>11 DEF LogOK

\* Steps that move neither a point of the cache nor a line of the log.
LEMMA QuietCache ==
    ASSUME DumpInv, UNCHANGED <<vars, Logged>>
    PROVE  /\ IInv' /\ OrderOK' /\ ObjectsAscend' /\ WayOrder' /\ LogOK'
           /\ TInv => TInv'
           /\ UNCHANGED stageVars
<1>1. /\ IInv /\ InputOrder /\ StageOrder /\ ObjectsAscend /\ WayOrder /\ LogOK
      /\ [Next]_vars
  BY DEF DumpInv, OrderOK
<1>2. UNCHANGED stageVars /\ UNCHANGED <<next, inputChan, accepted, obj>>
  BY DEF vars, stageVars, inVars, storeVars, workerVars, trackVars, persistVars
<1>3. IInv'
  BY <1>1, ShapeStep, AccountStep DEF IInv
<1>4. OrderOK' /\ ObjectsAscend' /\ WayOrder'
  BY <1>1, <1>2, InputOrderStep, SameWay DEF OrderOK
<1>5. LogOK'
  <2>1. Elems(Logged)' = Elems(Logged) /\ Ascending(Logged)' = Ascending(Logged)
    BY DEF Elems, Ascending
  <2>2. /\ Received' = Received /\ \A i : (PointsOf(inputChan[i]))' = PointsOf(inputChan[i])
        /\ PointsAt(Elems(inputChan))' = PointsAt(Elems(inputChan))
    BY <1>2 DEF Received, PointsAt, PointsOf, Elems, MetricOf
  <2> QED BY <1>1, <1>2, <2>1, <2>2 DEF LogOK
<1>6. TInv => TInv'
  BY <1>1, <1>3, HandOverStep DEF TInv
<1> QED BY <1>2, <1>3, <1>4, <1>5, <1>6

\* And no line of the snapshot either, but perhaps the dump itself.
LEMMA QuietDump ==
    ASSUME DumpInv, UNCHANGED <<vars, snap, Logged>>
    PROVE  /\ IInv' /\ OrderOK' /\ ObjectsAscend' /\ WayOK' /\ WayOrder' /\ LogOK' /\ SnapOK'
           /\ TInv => TInv'
<1>1. /\ IInv' /\ OrderOK' /\ ObjectsAscend' /\ WayOrder' /\ LogOK'
      /\ TInv => TInv'
      /\ UNCHANGED stageVars
  BY QuietCache
<1>2. WayOK' /\ SnapOK'
  BY <1>1, SameSnap DEF DumpInv
<1> QED BY <1>1, <1>2

(***************************************************************************)
(* Steps of the dump that move no point.                                   *)
(***************************************************************************)
LEMMA SameSave ==
    ASSUME SaveOK, UNCHANGED <<stageVars, snap, workerPC, trackerPC>>, ToSave' = ToSave
    PROVE  SaveOK'
<1>1. UNCHANGED stageVars /\ UNCHANGED outputChan /\ Elems(snap)' = Elems(snap)
  BY DEF stageVars, Elems
<1>2. /\ PointsAt(CachedAddrs \ ToSave)' = PointsAt(CachedAddrs \ ToSave)
      /\ PointsAt(ToSave)' = PointsAt(ToSave)
  BY <1>1, SameStages DEF PointsAt
<1>3. \A i \in 1..Len(outputChan') : Older(Elems(snap), PointsOf(outputChan[i]))'
  <2>1. \A i : (PointsOf(outputChan[i]))' = PointsOf(outputChan[i])
    BY <1>1, SameStages
  <2> QED BY <1>1, <2>1 DEF SaveOK, Older
<1>4. Older(Elems(snap), PointsAt(ToSave))'
  BY <1>1, <1>2 DEF SaveOK, Older
<1> QED BY <1>1, <1>2, <1>3, <1>4, SameStages DEF SaveOK

\* Glue on the input channel.
LEMMA GlueStep == ASSUME DumpInv, Glue PROVE DumpInv'
<1>1. CASE GlueReceive
  <2>1. PICK a : a = Head(inputChan)
    OBVIOUS
  <2>2. /\ inputChan # Empty /\ xlog' \in Seq(Point) /\ xlogBuf' \in Seq(Point)
        /\ UNCHANGED <<stageVars, snap, left, dumpPC, listening>>
    BY <1>1, <2>1, GlueEffect
  <2>3. UNCHANGED <<workerPC, trackerPC, outputChan, taken>>
    BY <1>1 DEF GlueReceive, workerVars, trackVars, persistVars
  <2>4. IInv' /\ InputOrder' /\ (Early => TInv') /\ LogOK'
    BY <1>1, GlueDrops, GlueLogs
  <2>5. OrderOK' /\ ObjectsAscend' /\ WayOrder' /\ WayOK' /\ SnapOK'
    BY <2>2, <2>4, SameWay, SameSnap DEF DumpInv, OrderOK
  <2>6. /\ Early' = Early /\ Late' = Late /\ DumpShape'
        /\ Early => snap' = Empty
    BY <2>2 DEF DumpInv, DumpShape, Early, Late
  <2>7. ASSUME Late PROVE SaveOK' /\ PhaseOK'
    <3>1. SaveOK /\ PhaseOK
      BY <2>7 DEF DumpInv
    <3>2. ToSave' = ToSave
      BY <2>2, SameStages DEF ToSave
    <3>3. SaveOK'
      BY <2>2, <2>3, <3>1, <3>2, SameSave
    <3>4. PhaseOK'
      BY <2>2, <2>3, <3>1 DEF PhaseOK, Finished
    <3> QED BY <3>3, <3>4
  <2> QED BY <2>4, <2>5, <2>6, <2>7 DEF DumpInv
<1>2. CASE GlueTick \/ GlueExit
  <2>1. /\ UNCHANGED <<vars, dumpPC, listening, snapVars>>
        /\ (xlog' = xlog \o xlogBuf /\ xlogBuf' = Empty) \/ UNCHANGED <<xlog, xlogBuf>>
    BY <1>2 DEF GlueTick, GlueExit
  <2>2. xlog \in Seq(Point) /\ xlogBuf \in Seq(Point)
    BY DEF DumpInv, DumpShape
  <2>3. Logged' = Logged /\ xlog' \in Seq(Point) /\ xlogBuf' \in Seq(Point)
    <3>1. CASE UNCHANGED <<xlog, xlogBuf>>
      BY <2>2, <3>1 DEF Logged
    <3>2. CASE xlog' = xlog \o xlogBuf /\ xlogBuf' = Empty
      <4>1. xlog \o xlogBuf \in Seq(Point)
        BY <2>2, ElemsConcat
      <4>2. Logged' = Logged \o <<>>
        BY <3>2 DEF Logged, Empty
      <4>3. Logged \in Seq(Point)
        BY <4>1 DEF Logged
      <4>4. Logged \o <<>> = Logged
        BY <4>3
      <4> QED BY <3>2, <4>1, <4>2, <4>4 DEF Empty
    <3> QED BY <2>1, <3>1, <3>2
  <2>4. /\ UNCHANGED <<snap, left, dumpPC, listening, workerPC, trackerPC, outputChan, taken, inputChan>>
        /\ UNCHANGED stageVars
    BY <2>1 DEF snapVars, vars, workerVars, trackVars, persistVars, inVars, stageVars, storeVars
  <2>5. /\ IInv' /\ OrderOK' /\ ObjectsAscend' /\ WayOK' /\ WayOrder' /\ LogOK' /\ SnapOK'
        /\ TInv => TInv'
    BY <2>1, <2>3, <2>4, QuietDump
  <2>6. /\ Early' = Early /\ Late' = Late /\ DumpShape'
        /\ Early => snap' = Empty /\ TInv
    BY <2>3, <2>4 DEF DumpInv, DumpShape, Early, Late
  <2>7. ASSUME Late PROVE SaveOK' /\ PhaseOK'
    <3>1. SaveOK /\ PhaseOK
      BY <2>7 DEF DumpInv
    <3>2. ToSave' = ToSave
      BY <2>4, SameStages DEF ToSave
    <3>3. SaveOK'
      BY <2>4, <3>1, <3>2, SameSave
    <3>4. PhaseOK'
      BY <2>4, <3>1 DEF PhaseOK, Finished
    <3> QED BY <3>3, <3>4
  <2> QED BY <2>5, <2>6, <2>7 DEF DumpInv
<1> QED BY <1>1, <1>2 DEF Glue

\* The steps of GraceStopDump that only go on to the next stage, and Restore,
\* which reads the files.
Control ==
    \/ BeginDump \/ DumpFails \/ CloseOut \/ SnapOutEnds \/ SnapMapEnds \/ StopListeners
    \/ StopListenersBlocks \/ WaitInput \/ WaitXlog \/ FlushXlog \/ ProcessEnds \/ Restore
    \/ RestoreAgain

LEMMA ControlEffect ==
    ASSUME Control
    PROVE  /\ UNCHANGED <<vars, snap, xlog, xlogBuf>> /\ UNCHANGED stageVars
           /\ UNCHANGED <<inputChan, outputChan, taken, workerPC, trackerPC>>
           /\ UNCHANGED <<left, listening>> \/ SnapOutEnds \/ StopListeners \/ StopListenersBlocks
<1>1. UNCHANGED <<vars, snap, xlog, xlogBuf>>
  BY DEF Control, BeginDump, DumpFails, CloseOut, SnapOutEnds, SnapMapEnds, StopListeners,
         StopListenersBlocks, WaitInput, WaitXlog, FlushXlog, ProcessEnds, Restore, RestoreLine, RestoreRemove,
         RestoreEnds, RestoreAgain, snapVars, glueVars, dumpVars
<1>2. UNCHANGED <<left, listening>> \/ SnapOutEnds \/ StopListeners \/ StopListenersBlocks
  BY DEF Control, BeginDump, DumpFails, CloseOut, SnapMapEnds,
         WaitInput, WaitXlog, FlushXlog, ProcessEnds, Restore, RestoreLine, RestoreRemove,
         RestoreEnds, RestoreAgain, snapVars, glueVars, dumpVars
<1> QED BY <1>1, <1>2 DEF vars, inVars, workerVars, trackVars, persistVars, storeVars, stageVars

LEMMA ControlStep == ASSUME DumpInv, Control PROVE DumpInv'
<1>1. /\ UNCHANGED <<vars, snap, xlog, xlogBuf>> /\ UNCHANGED stageVars
      /\ UNCHANGED <<inputChan, outputChan, taken, workerPC, trackerPC>>
      /\ UNCHANGED <<left, listening>> \/ SnapOutEnds \/ StopListeners \/ StopListenersBlocks
  BY ControlEffect
<1>2. /\ IInv' /\ OrderOK' /\ ObjectsAscend' /\ WayOK' /\ WayOrder' /\ LogOK' /\ SnapOK'
      /\ TInv => TInv'
  BY <1>1, QuietDump DEF Logged
<1>3. /\ Early \/ Late \/ dumpPC = "fatal"
      /\ Early => TInv /\ snap = Empty
      /\ Late => SaveOK /\ PhaseOK
      /\ CachedAddrs' = CachedAddrs
  BY <1>1, SameStages DEF DumpInv, DumpShape
<1>4. CASE BeginDump
  <2>1. Early /\ Early' /\ ~Late' /\ DumpShape'
    BY <1>1, <1>4 DEF BeginDump, Goto, Early, Late, DumpShape, DumpInv
  <2> QED BY <1>1, <1>2, <1>3, <2>1 DEF DumpInv
<1>5. CASE DumpFails
  <2>1. ~Early' /\ ~Late' /\ DumpShape'
    BY <1>1, <1>5 DEF DumpFails, Goto, Early, Late, DumpShape, DumpInv
  <2> QED BY <1>2, <2>1 DEF DumpInv
<1>6. CASE CloseOut
  <2>1. /\ Early /\ dumpPC' = "snapOut" /\ ~Early' /\ Late' /\ DumpShape'
        /\ workerPC = "done" /\ trackerPC = "done"
    BY <1>1, <1>6 DEF CloseOut, Goto, Early, Late, DumpShape, DumpInv
  <2>2. ToSave' = CachedAddrs'
    BY <2>1 DEF ToSave
  <2>3. Elems(snap)' = {}
    BY <1>1, <1>3, <2>1 DEF Elems, Empty
  <2>4. PointsAt(CachedAddrs \ ToSave)' = {}
    BY <2>2 DEF PointsAt
  <2>5. SaveOK'
    BY <1>1, <2>1, <2>2, <2>3, <2>4 DEF SaveOK, Older
  <2>6. PhaseOK'
    BY <2>1 DEF PhaseOK, Finished
  <2> QED BY <1>2, <2>1, <2>5, <2>6 DEF DumpInv
<1>7. CASE SnapOutEnds
  <2>1. /\ Late /\ dumpPC = "snapOut" /\ dumpPC' = "snapMap" /\ ~Early' /\ Late' /\ DumpShape'
        /\ outputChan = Empty /\ left' = CachedAddrs
    BY <1>1, <1>7 DEF SnapOutEnds, Goto, Early, Late, DumpShape, DumpInv
  <2>2. ToSave' = ToSave
    BY <2>1 DEF ToSave
  <2>3. SaveOK'
    BY <1>1, <1>3, <2>1, <2>2, SameSave
  <2>4. PhaseOK'
    BY <1>1, <2>1 DEF PhaseOK, Finished
  <2> QED BY <1>2, <2>1, <2>3, <2>4 DEF DumpInv
<1>8. CASE \/ SnapMapEnds \/ StopListeners \/ StopListenersBlocks \/ WaitInput \/ WaitXlog
           \/ FlushXlog \/ ProcessEnds \/ RestoreEnds
  <2>1. /\ Late /\ Late' /\ ~Early' /\ DumpShape' /\ UNCHANGED left
        /\ dumpPC # "snapOut" /\ dumpPC' # "snapOut"
    BY <1>1, <1>8 DEF SnapMapEnds, StopListeners, StopListenersBlocks, WaitInput, WaitXlog,
                      FlushXlog, ProcessEnds, RestoreEnds, Goto, Early, Late, DumpShape, DumpInv, snapVars
  <2>2. ToSave' = ToSave
    BY <2>1 DEF ToSave
  <2>3. SaveOK'
    BY <1>1, <1>3, <2>1, <2>2, SameSave
  <2>4. PhaseOK'
    BY <1>1, <1>3, <1>8, <2>1 DEF PhaseOK, Finished, SnapMapEnds, StopListeners,
                      StopListenersBlocks, WaitInput, WaitXlog, FlushXlog, ProcessEnds, RestoreEnds, Goto
  <2> QED BY <1>2, <2>1, <2>3, <2>4 DEF DumpInv
<1>9. CASE RestoreLine \/ RestoreRemove \/ RestoreAgain
  <2>1. /\ UNCHANGED <<left, listening>> /\ Finished /\ Finished'
        /\ dumpPC \in {"restore", "restored"} /\ dumpPC' \in {"restore", "restored"}
    BY <1>9 DEF RestoreLine, RestoreRemove, RestoreAgain, Goto, Finished, dumpVars, snapVars
  <2>2. Late /\ Late' /\ ~Early' /\ DumpShape' /\ ToSave' = ToSave
    BY <1>1, <1>3, <2>1 DEF Early, Late, DumpShape, DumpInv, ToSave
  <2>3. SaveOK'
    BY <1>1, <1>3, <2>2, SameSave
  <2>4. PhaseOK'
    BY <1>1, <1>3, <2>1, <2>2 DEF PhaseOK
  <2> QED BY <1>1, <1>2, <1>3, <2>2, <2>3, <2>4 DEF DumpInv
<1> QED BY <1>4, <1>5, <1>6, <1>7, <1>8, <1>9 DEF Control, Restore

(***************************************************************************)
(* The snapshot.                                                           *)
(***************************************************************************)
\* A batch of the output channel goes into the snapshot, and so leaves the way
\* to the persister.
LEMMA SnapOutWay ==
    ASSUME DumpInv, SnapOut, NEW h, h = Head(outputChan)
    PROVE  /\ h \in Addr /\ h \in OnWay /\ h \in InFlightAddrs
           /\ h = outputChan[1] /\ 1 \in 1..Len(outputChan)
           /\ outputChan \in Seq(Addr) /\ outputChan # Empty /\ outputChan' = Tail(outputChan)
           /\ OnWay' = OnWay \ {h}
           /\ \A i \in 1..Len(outputChan') :
                 i + 1 \in 1..Len(outputChan) /\ 1 < i + 1 /\ outputChan'[i] = outputChan[i + 1]
           /\ Once(outputChan') /\ Elems(outputChan) = {h} \cup Elems(outputChan')
           /\ UNCHANGED <<obj, data, values, p, notConfirmed, taken, written, dumpPC, left,
                          listening, workerPC, trackerPC, inputChan, accepted, next, xlog, xlogBuf>>
           /\ snap' = snap \o Lines(h)
           /\ Lines(h) \in Seq(Point) /\ Elems(Lines(h)) = PointsOf(h) /\ Ascending(Lines(h))
<1>1. ShapeOK /\ ObjectsAscend /\ WayOK /\ outputChan \in Seq(Addr)
  BY DEF DumpInv, IInv, ShapeOK
<1>2. /\ outputChan # Empty /\ outputChan' = Tail(outputChan) /\ snap' = snap \o Lines(h)
      /\ UNCHANGED <<obj, data, values, p, notConfirmed, taken, written, dumpPC, left,
                     listening, workerPC, trackerPC, inputChan, accepted, next, xlog, xlogBuf>>
  BY DEF SnapOut, inVars, storeVars, workerVars, trackVars, glueVars
<1>3. /\ h \in Addr /\ h = outputChan[1] /\ 1 \in 1..Len(outputChan)
      /\ Elems(outputChan) = {h} \cup Elems(outputChan')
      /\ \A i \in 1..Len(outputChan') : i + 1 \in 1..Len(outputChan) /\ outputChan'[i] = outputChan[i + 1]
  BY <1>1, <1>2, ElemsTail
<1>4. \A i \in 1..Len(outputChan') : 1 < i + 1
  OBVIOUS
<1>5. Once(outputChan') /\ h \notin Elems(outputChan')
  BY <1>1, <1>2, OnceTail DEF WayOK
<1>6. h \in OnWay /\ h # p /\ h \notin taken
  BY <1>1, <1>3 DEF WayOK, OnWay
<1>7. OnWay' = ({p} \ {Nil}) \cup Elems(outputChan') \cup taken
  BY <1>2 DEF OnWay, Elems
<1>8. OnWay' = OnWay \ {h}
  BY <1>3, <1>5, <1>6, <1>7 DEF OnWay
<1>9. Lines(h) \in Seq(Point) /\ Elems(Lines(h)) = PointsOf(h) /\ Ascending(Lines(h))
  BY <1>1, <1>3, LinesOf
<1> QED BY <1>1, <1>2, <1>3, <1>4, <1>5, <1>6, <1>8, <1>9 DEF WayOK

LEMMA SnapOutStep == ASSUME DumpInv, SnapOut PROVE DumpInv'
<1>1. PICK h : h = Head(outputChan)
  OBVIOUS
<1>2. /\ h \in Addr /\ h \in OnWay /\ h \in InFlightAddrs
      /\ h = outputChan[1] /\ 1 \in 1..Len(outputChan)
      /\ outputChan \in Seq(Addr) /\ outputChan # Empty /\ outputChan' = Tail(outputChan)
      /\ OnWay' = OnWay \ {h}
      /\ \A i \in 1..Len(outputChan') :
            i + 1 \in 1..Len(outputChan) /\ 1 < i + 1 /\ outputChan'[i] = outputChan[i + 1]
      /\ Once(outputChan') /\ Elems(outputChan) = {h} \cup Elems(outputChan')
  BY <1>1, SnapOutWay
<1>3. /\ UNCHANGED <<obj, data, values, p, notConfirmed, taken, written, dumpPC, left,
                     listening, workerPC, trackerPC, inputChan, accepted, next, xlog, xlogBuf>>
      /\ snap' = snap \o Lines(h)
      /\ Lines(h) \in Seq(Point) /\ Elems(Lines(h)) = PointsOf(h) /\ Ascending(Lines(h))
  BY <1>1, SnapOutWay
<1>4. /\ IInv /\ ShapeOK /\ Account /\ InputOrder /\ StageOrder /\ DumpShape /\ ObjectsAscend
      /\ WayOK /\ WayOrder /\ LogOK /\ SnapOK /\ SaveOK /\ dumpPC = "snapOut"
  BY DEF DumpInv, IInv, OrderOK, SnapOut, Late
<1>5. /\ \A b : PointsOf(b)' = PointsOf(b)
      /\ CachedAddrs' = CachedAddrs /\ HeldAddrs' = HeldAddrs /\ InFlightAddrs' = InFlightAddrs
      /\ Cached' = Cached /\ InHand' = InHand /\ InFlight' = InFlight
  <2>1. \A b : PointsOf(b)' = PointsOf(b)
    BY <1>3 DEF PointsOf, Elems, MetricOf
  <2>2. CachedAddrs' = CachedAddrs /\ HeldAddrs' = HeldAddrs /\ InFlightAddrs' = InFlightAddrs
    BY <1>3 DEF CachedAddrs, HeldAddrs, InFlightAddrs, Elems
  <2> QED BY <2>1, <2>2 DEF Cached, InHand, InFlight, PointsAt
<1>6. ASSUME NEW i \in 1..Len(outputChan')
      PROVE  (PointsOf(outputChan[i]))' = PointsOf(outputChan[i + 1])
  <2>1. PICK b : b = outputChan[i + 1]
    OBVIOUS
  <2>2. (PointsOf(outputChan[i]))' = PointsOf(b)'
    BY <1>2, <2>1 DEF PointsOf, Elems, MetricOf
  <2> QED BY <1>5, <2>1, <2>2
<1>7. /\ PointsAt(OnWay) = PointsOf(h) \cup PointsAt(OnWay)'
      /\ PointsOf(h) \cap PointsAt(OnWay)' = {}
      /\ PointsOf(h) \subseteq InFlight
  <2>1. PointsAt(OnWay)' = UNION {PointsOf(b) : b \in OnWay \ {h}}
    BY <1>2, <1>5 DEF PointsAt
  <2>2. \A b \in OnWay \ {h} : PointsOf(h) \cap PointsOf(b) = {}
    BY <1>2, <1>4 DEF WayOK
  <2> QED BY <1>2, <2>1, <2>2 DEF PointsAt, InFlight
<1>8. /\ snap' \in Seq(Point) /\ Elems(snap)' = Elems(snap) \cup PointsOf(h) /\ Ascending(snap)'
  <2>1. snap \in Seq(Point) /\ Ascending(snap) /\ Older(Elems(snap), PointsOf(h))
    BY <1>2, <1>4 DEF DumpShape, SnapOK, SaveOK
  <2>2. PICK l : l = Lines(h)
    OBVIOUS
  <2>3. l \in Seq(Point) /\ Elems(l) = PointsOf(h) /\ Ascending(l) /\ snap' = snap \o l
    BY <1>3, <2>2
  <2>4. Elems(snap \o l) = Elems(snap) \cup Elems(l) /\ snap \o l \in Seq(Point)
    BY <2>1, <2>3, ElemsConcat
  <2>5. Ascending(snap \o l)
    BY <2>1, <2>3, AscendingConcat
  <2>6. Elems(snap)' = Elems(snap') /\ Ascending(snap)' = Ascending(snap')
    BY DEF Elems, Ascending
  <2> QED BY <2>3, <2>4, <2>5, <2>6
<1>9. IInv'
  <2>1. UNCHANGED <<next, inputChan, size, metricCount, queue, held, queryChan, trackerChan,
                    query, confirmChan, writeStrategy, exit, accepted>>
    BY DEF SnapOut, inVars, storeVars, workerVars, queryVars, fixedVars
  <2>2. BehindAddrs' \subseteq BehindAddrs
    <3>1. BehindAddrs' = ({p'} \ {Nil}) \cup Elems(outputChan') \cup taken' \cup Elems(confirmChan')
      BY DEF BehindAddrs, Elems
    <3> QED BY <1>2, <1>3, <2>1, <3>1 DEF BehindAddrs
  <2>3. PointsAt(Elems(confirmChan')) \subseteq written'
    BY <1>3, <1>4, <2>1 DEF Account, BehindOK
  <2>4. InFlight \subseteq PointsAt(InFlightAddrs') \cup written
    BY <1>5 DEF InFlight
  <2>5. Account'
    BY <1>3, <1>4, <1>5, <2>1, <2>2, <2>3, <2>4, BehindStep
  <2>6. outputChan' \in Seq(Addr)
    BY <1>2, ElemsTail
  <2>7. ShapeOK'
    BY <1>3, <1>4, <2>1, <2>6 DEF ShapeOK
  <2> QED BY <2>5, <2>7 DEF IInv
<1>10. OrderOK' /\ ObjectsAscend'
  <2>1. \A i : (PointsOf(inputChan[i]))' = PointsOf(inputChan[i])
    BY <1>3 DEF PointsOf, Elems, MetricOf
  <2>2. InputOrder'
    BY <1>3, <1>4, <2>1 DEF InputOrder, Older
  <2>3. StageOrder' /\ ObjectsAscend'
    BY <1>3, <1>4, <1>5 DEF StageOrder, Older, ObjectsAscend
  <2> QED BY <2>2, <2>3 DEF OrderOK
<1>11. WayOK'
  <2>1. /\ Once(outputChan)' /\ Elems(outputChan)' = Elems(outputChan')
    BY <1>2 DEF Once, Elems
  <2>2. \A a, b \in OnWay' : a # b => PointsOf(a)' \cap PointsOf(b)' = {}
    BY <1>2, <1>4, <1>5 DEF WayOK
  <2>3. InFlight \subseteq PointsAt(OnWay)' \cup written \cup Elems(snap)'
    BY <1>4, <1>7, <1>8 DEF WayOK
  <2> QED BY <1>2, <1>3, <1>4, <1>5, <2>1, <2>2, <2>3 DEF WayOK
<1>12. WayOrder'
  <2>1. PointsAt(OnWay)' \cap written' = {}
    BY <1>3, <1>4, <1>7 DEF WayOrder
  <2>2. ASSUME NEW i \in 1..Len(outputChan'), NEW j \in 1..Len(outputChan'), i < j
        PROVE  Older((PointsOf(outputChan[i]))', (PointsOf(outputChan[j]))')
    <3>1. i + 1 < j + 1
      BY <2>2
    <3>2. Older(PointsOf(outputChan[i + 1]), PointsOf(outputChan[j + 1]))
      BY <1>2, <1>4, <3>1 DEF WayOrder
    <3> QED BY <1>6, <3>2
  <2>3. ASSUME NEW i \in 1..Len(outputChan')
        PROVE  Older((PointsOf(outputChan[i]))', PointsAt({p} \ {Nil})')
    <3>1. PointsAt({p} \ {Nil})' = PointsAt({p} \ {Nil})
      BY <1>3, <1>5 DEF PointsAt
    <3>2. Older(PointsOf(outputChan[i + 1]), PointsAt({p} \ {Nil}))
      BY <1>2, <1>4 DEF WayOrder
    <3> QED BY <1>6, <3>1, <3>2
  <2> QED BY <2>1, <2>2, <2>3 DEF WayOrder, Older
<1>13. LogOK'
  <2>1. Logged' = Logged
    BY <1>3 DEF Logged
  <2>2. Elems(Logged)' = Elems(Logged) /\ Ascending(Logged)' = Ascending(Logged)
    BY <2>1 DEF Elems, Ascending
  <2>3. /\ Received' = Received /\ \A i : (PointsOf(inputChan[i]))' = PointsOf(inputChan[i])
        /\ PointsAt(Elems(inputChan))' = PointsAt(Elems(inputChan))
    BY <1>3 DEF Received, PointsAt, PointsOf, Elems, MetricOf
  <2> QED BY <1>3, <1>4, <2>1, <2>2, <2>3 DEF LogOK
<1>14. SnapOK'
  BY <1>3, <1>4, <1>5, <1>7, <1>8 DEF SnapOK, WayOrder
<1>15. SaveOK'
  <2>1. ToSave' = CachedAddrs /\ ToSave = CachedAddrs
    BY <1>3, <1>4, <1>5 DEF ToSave
  <2>2. PointsAt(CachedAddrs \ ToSave)' = {} /\ PointsAt(ToSave)' = Cached /\ PointsAt(ToSave) = Cached
    BY <1>5, <2>1 DEF PointsAt, Cached
  <2>3. Older(Elems(snap)', Cached)
    BY <1>4, <1>7, <1>8, <2>2 DEF SaveOK, StageOrder, Older
  <2>4. ASSUME NEW i \in 1..Len(outputChan') PROVE Older(Elems(snap)', (PointsOf(outputChan[i]))')
    <3>1. Older(Elems(snap), PointsOf(outputChan[i + 1]))
      BY <1>2, <1>4 DEF SaveOK
    <3>2. Older(PointsOf(h), PointsOf(outputChan[i + 1]))
      BY <1>2, <1>4 DEF WayOrder
    <3> QED BY <1>6, <1>8, <3>1, <3>2 DEF Older
  <2> QED BY <1>3, <1>4, <1>5, <2>1, <2>2, <2>3, <2>4 DEF SaveOK, Older
<1>16. DumpShape' /\ ~Early' /\ Late' /\ PhaseOK'
  BY <1>3, <1>4, <1>8 DEF DumpShape, Early, Late, PhaseOK, Finished
<1> QED BY <1>9, <1>10, <1>11, <1>12, <1>13, <1>14, <1>15, <1>16 DEF DumpInv

\* Objects of the map belong to different metrics.
LEMMA CachedApart ==
    ASSUME IInv, NEW a \in CachedAddrs, NEW b \in CachedAddrs, a # b
    PROVE  MetricOf(a) # MetricOf(b)
<1>1. data \in [Metric -> Addr \cup {Nil}] /\ MapOK
  BY DEF IInv, ShapeOK, Account
<1>2. PICK m \in Metric : a = data[m] /\ a # Nil
  BY DEF CachedAddrs
<1>3. PICK n \in Metric : b = data[n] /\ b # Nil
  BY DEF CachedAddrs
<1> QED BY <1>1, <1>2, <1>3 DEF MapOK

\* An object of the map goes into the snapshot behind all that came from the
\* output channel.
LEMMA SnapObjectStep == ASSUME DumpInv, SnapObject PROVE DumpInv'
<1>1. PICK a \in left : snap' = snap \o Lines(a) /\ left' = left \ {a}
  BY DEF SnapObject
<1>2. /\ IInv /\ ShapeOK /\ Account /\ DumpShape /\ ObjectsAscend /\ WayOK
      /\ SnapOK /\ SaveOK /\ PhaseOK /\ dumpPC = "snapMap"
  BY DEF DumpInv, IInv, SnapObject, Late
<1>3. UNCHANGED <<vars, dumpPC, listening, xlog, xlogBuf>>
  BY DEF SnapObject, glueVars
<1>4. /\ IInv' /\ OrderOK' /\ ObjectsAscend' /\ WayOrder' /\ LogOK'
      /\ UNCHANGED stageVars
  BY <1>3, QuietCache DEF Logged
<1>5. UNCHANGED <<obj, p, taken, written, workerPC, trackerPC, outputChan, inputChan>>
  BY <1>3 DEF vars, workerVars, trackVars, persistVars, inVars
<1>6. ToSave = left /\ ToSave' = left \ {a} /\ a \in CachedAddrs /\ a \in Addr
  <2>1. ToSave = left /\ ToSave' = left \ {a}
    BY <1>1, <1>2, <1>3 DEF ToSave
  <2>2. a \in CachedAddrs
    BY <1>2, <2>1 DEF SaveOK
  <2>3. a \in Addr
    BY <1>2, <2>2, LiveAddrsType DEF LiveAddrs
  <2> QED BY <2>1, <2>2, <2>3
<1>7. PointsOf(a) \subseteq Cached /\ PointsOf(a) \subseteq PointsAt(ToSave)
  BY <1>6 DEF Cached, PointsAt
<1>8. snap' \in Seq(Point) /\ Elems(snap)' = Elems(snap) \cup PointsOf(a) /\ Ascending(snap)'
  <2>1. snap \in Seq(Point) /\ Ascending(snap) /\ Older(Elems(snap), PointsOf(a))
    BY <1>2, <1>7 DEF DumpShape, SnapOK, SaveOK, Older
  <2>2. PICK l : l = Lines(a)
    OBVIOUS
  <2>3. l \in Seq(Point) /\ Elems(l) = PointsOf(a) /\ Ascending(l) /\ snap' = snap \o l
    BY <1>1, <1>2, <1>6, <2>2, LinesOf
  <2>4. Elems(snap \o l) = Elems(snap) \cup Elems(l) /\ snap \o l \in Seq(Point)
    BY <2>1, <2>3, ElemsConcat
  <2>5. Ascending(snap \o l)
    BY <2>1, <2>3, AscendingConcat
  <2>6. Elems(snap)' = Elems(snap') /\ Ascending(snap)' = Ascending(snap')
    BY DEF Elems, Ascending
  <2> QED BY <2>3, <2>4, <2>5, <2>6
<1>9. WayOK'
  <2>1. InFlight' \subseteq PointsAt(OnWay)' \cup written' \cup Elems(snap)'
    BY <1>2, <1>4, <1>5, <1>8, SameStages DEF WayOK
  <2> QED BY <1>2, <1>4, <1>5, <2>1, SameStages DEF WayOK
<1>10. SnapOK'
  <2>1. OnWay \subseteq BehindAddrs
    BY DEF OnWay, BehindAddrs
  <2>2. PointsAt(OnWay) \subseteq PointsAt(BehindAddrs)
    BY <2>1 DEF PointsAt
  <2>3. PointsOf(a) \cap (written \cup PointsAt(OnWay)) = {}
    BY <1>2, <1>7, <2>2 DEF Account, BehindOK, NoLoss
  <2>4. /\ Cached' = Cached /\ InFlight' = InFlight /\ PointsAt(OnWay)' = PointsAt(OnWay)
    BY <1>4, SameStages
  <2> QED BY <1>2, <1>5, <1>7, <1>8, <2>3, <2>4 DEF SnapOK
<1>11. SaveOK'
  <2>1. CachedAddrs' = CachedAddrs /\ \A b : PointsOf(b)' = PointsOf(b)
    BY <1>4, SameStages
  <2>2. PointsAt(CachedAddrs \ ToSave)' \subseteq Elems(snap)'
    <3>1. PointsAt(CachedAddrs \ ToSave)' = UNION {PointsOf(b) : b \in CachedAddrs \ (left \ {a})}
      BY <1>6, <2>1 DEF PointsAt
    <3>2. PointsAt(CachedAddrs \ ToSave) = UNION {PointsOf(b) : b \in CachedAddrs \ left}
      BY <1>6 DEF PointsAt
    <3>3. PointsAt(CachedAddrs \ ToSave) \subseteq Elems(snap)
      BY <1>2 DEF SaveOK
    <3> QED BY <1>8, <3>1, <3>2, <3>3
  <2>3. Older(Elems(snap)', PointsAt(ToSave)')
    <3>1. PointsAt(ToSave)' = UNION {PointsOf(b) : b \in left \ {a}}
      BY <1>6, <2>1 DEF PointsAt
    <3>2. PointsAt(ToSave)' \subseteq PointsAt(ToSave)
      BY <1>6, <3>1 DEF PointsAt
    <3>3. Older(Elems(snap), PointsAt(ToSave)')
      BY <1>2, <3>2 DEF SaveOK, Older
    <3>4. Older(PointsOf(a), PointsAt(ToSave)')
      <4>1. \A b \in left \ {a} : MetricOf(a) # MetricOf(b)
        BY <1>2, <1>6, CachedApart DEF SaveOK
      <4>2. \A b : \A x \in PointsOf(b) : x[1] = MetricOf(b)
        BY DEF PointsOf
      <4> QED BY <3>1, <4>1, <4>2 DEF Older
    <3> QED BY <1>8, <3>3, <3>4 DEF Older
  <2>4. \A i \in 1..Len(outputChan') : FALSE
    <3>1. outputChan' = Empty
      BY <1>2, <1>5 DEF PhaseOK
    <3> QED BY <3>1 DEF Empty
  <2>5. workerPC' = "done" /\ trackerPC' = "done" /\ ToSave' \subseteq CachedAddrs'
    BY <1>2, <1>5, <1>6, <2>1 DEF SaveOK
  <2> QED BY <2>2, <2>3, <2>4, <2>5 DEF SaveOK, Older
<1>12. DumpShape' /\ ~Early' /\ Late' /\ PhaseOK'
  BY <1>2, <1>3, <1>5, <1>8 DEF DumpShape, Early, Late, PhaseOK, Finished
<1> QED BY <1>4, <1>9, <1>10, <1>11, <1>12 DEF DumpInv

(***************************************************************************)
(* The way to the persister.                                               *)
(***************************************************************************)
\* A batch on its way does not change.
LEMMA WayKept ==
    ASSUME IInv, [Next]_vars
    PROVE  /\ \A b \in OnWay : b \in Addr /\ PointsOf(b)' = PointsOf(b)
           /\ \A i \in 1..Len(outputChan) : outputChan[i] \in OnWay
           /\ p # Nil => p \in OnWay
           /\ taken \subseteq OnWay
<1>1. \A b \in BehindAddrs : b \in Addr /\ PointsOf(b)' = PointsOf(b)
  BY LiveKept, HandedApart DEF LiveAddrs
<1>2. OnWay \subseteq BehindAddrs
  BY DEF OnWay, BehindAddrs
<1> QED BY <1>1, <1>2 DEF OnWay, Elems

\* Steps in which no batch on its way moves.
LEMMA StillWay ==
    ASSUME IInv, WayOrder, [Next]_vars, UNCHANGED <<p, outputChan, taken, written>>
    PROVE  /\ WayOrder' /\ OnWay' = OnWay /\ PointsAt(OnWay)' = PointsAt(OnWay)
           /\ \A i \in 1..Len(outputChan) : (PointsOf(outputChan[i]))' = PointsOf(outputChan[i])
<1>1. /\ \A b \in OnWay : PointsOf(b)' = PointsOf(b)
      /\ \A i \in 1..Len(outputChan) : outputChan[i] \in OnWay
      /\ p # Nil => p \in OnWay
  BY WayKept
<1>2. OnWay' = OnWay
  BY DEF OnWay, Elems
<1>3. PointsAt(OnWay)' = PointsAt(OnWay)
  BY <1>1, <1>2 DEF PointsAt
<1>4. PointsAt({p} \ {Nil})' = PointsAt({p} \ {Nil})
  BY <1>1 DEF PointsAt
<1>5. ASSUME NEW i \in 1..Len(outputChan) PROVE (PointsOf(outputChan[i]))' = PointsOf(outputChan[i])
  <2>1. PICK b : b = outputChan[i]
    OBVIOUS
  <2>2. (PointsOf(outputChan[i]))' = PointsOf(b)'
    BY <2>1 DEF PointsOf, Elems, MetricOf
  <2> QED BY <1>1, <2>1, <2>2
<1>6. WayOrder'
  <2>1. \A i, j \in 1..Len(outputChan') :
            i < j => Older((PointsOf(outputChan[i]))', (PointsOf(outputChan[j]))')
    BY <1>5 DEF WayOrder
  <2>2. \A i \in 1..Len(outputChan') : Older((PointsOf(outputChan[i]))', PointsAt({p} \ {Nil})')
    BY <1>4, <1>5 DEF WayOrder
  <2> QED BY <1>3, <2>1, <2>2 DEF WayOrder, Older
<1> QED BY <1>2, <1>3, <1>5, <1>6

\* The persister receives the oldest batch.
LEMMA TakeWay ==
    ASSUME IInv, WayOK, WayOrder, Take
    PROVE  /\ WayOrder' /\ OnWay' = OnWay /\ PointsAt(OnWay)' = PointsAt(OnWay)
           /\ Once(outputChan)' /\ Elems(outputChan)' \subseteq Elems(outputChan)
           /\ (Elems(outputChan) \cap taken)' = {} /\ p' \notin (Elems(outputChan) \cup taken)'
           /\ \A i \in 1..Len(outputChan') : /\ i + 1 \in 1..Len(outputChan)
                                             /\ (PointsOf(outputChan[i]))' = PointsOf(outputChan[i + 1])
<1>1. PICK h : h = Head(outputChan)
  OBVIOUS
<1>2. /\ outputChan \in Seq(Addr) /\ outputChan # Empty /\ outputChan' = Tail(outputChan)
      /\ taken' = taken \cup {h} /\ UNCHANGED <<obj, p, written>>
  BY <1>1 DEF Take, IInv, ShapeOK, trackVars
<1>3. /\ Elems(outputChan) = {h} \cup Elems(outputChan')
      /\ \A i \in 1..Len(outputChan') : i + 1 \in 1..Len(outputChan) /\ outputChan'[i] = outputChan[i + 1]
  BY <1>1, <1>2, ElemsTail
<1>4. Once(outputChan') /\ h \notin Elems(outputChan')
  BY <1>1, <1>2, OnceTail DEF WayOK
<1>5. Once(outputChan)' /\ Elems(outputChan)' = Elems(outputChan')
  BY <1>4 DEF Once, Elems
<1>6. /\ Elems(outputChan)' \subseteq Elems(outputChan)
      /\ (Elems(outputChan) \cap taken)' = {} /\ p' \notin (Elems(outputChan) \cup taken)'
  BY <1>2, <1>3, <1>4, <1>5 DEF WayOK
<1>7. \A b : PointsOf(b)' = PointsOf(b)
  BY <1>2 DEF PointsOf, Elems, MetricOf
<1>8. OnWay' = OnWay /\ PointsAt(OnWay)' = PointsAt(OnWay) /\ PointsAt({p} \ {Nil})' = PointsAt({p} \ {Nil})
  <2>1. OnWay' = OnWay
    BY <1>2, <1>3, <1>5 DEF OnWay
  <2> QED BY <1>2, <1>7, <2>1 DEF PointsAt
<1>9. ASSUME NEW i \in 1..Len(outputChan')
      PROVE  (PointsOf(outputChan[i]))' = PointsOf(outputChan[i + 1])
  <2>1. PICK b : b = outputChan[i + 1]
    OBVIOUS
  <2>2. (PointsOf(outputChan[i]))' = PointsOf(b)'
    BY <1>3, <2>1 DEF PointsOf, Elems, MetricOf
  <2> QED BY <1>7, <2>1, <2>2
<1>10. WayOrder'
  <2>1. ASSUME NEW i \in 1..Len(outputChan'), NEW j \in 1..Len(outputChan'), i < j
        PROVE  Older((PointsOf(outputChan[i]))', (PointsOf(outputChan[j]))')
    <3>1. i + 1 < j + 1
      BY <2>1
    <3>2. Older(PointsOf(outputChan[i + 1]), PointsOf(outputChan[j + 1]))
      BY <1>3, <3>1 DEF WayOrder
    <3> QED BY <1>9, <3>2
  <2>2. ASSUME NEW i \in 1..Len(outputChan')
        PROVE  Older((PointsOf(outputChan[i]))', PointsAt({p} \ {Nil})')
    <3>1. Older(PointsOf(outputChan[i + 1]), PointsAt({p} \ {Nil}))
      BY <1>3 DEF WayOrder
    <3> QED BY <1>8, <1>9, <3>1
  <2>3. PointsAt(OnWay)' \cap written' = {}
    BY <1>2, <1>8 DEF WayOrder
  <2> QED BY <2>1, <2>2, <2>3 DEF WayOrder, Older
<1> QED BY <1>3, <1>5, <1>6, <1>8, <1>9, <1>10

\* It confirms a batch: the points leave the way and are written.
LEMMA ConfirmWay ==
    ASSUME IInv, WayOK, WayOrder, NEW a \in Addr, Confirm(a)
    PROVE  /\ WayOrder' /\ OnWay' = OnWay \ {a}
           /\ (written \cup PointsAt(OnWay))' = written \cup PointsAt(OnWay)
           /\ (Elems(outputChan) \cap taken)' = {} /\ p' \notin (Elems(outputChan) \cup taken)'
           /\ UNCHANGED outputChan /\ \A b : PointsOf(b)' = PointsOf(b)
<1>1. /\ a \in taken /\ taken' = taken \ {a} /\ written' = written \cup PointsOf(a)
      /\ UNCHANGED <<obj, p, outputChan>>
  BY DEF Confirm, trackVars
<1>2. \A b : PointsOf(b)' = PointsOf(b)
  BY <1>1 DEF PointsOf, Elems, MetricOf
<1>3. Elems(outputChan)' = Elems(outputChan)
  BY <1>1 DEF Elems
<1>4. a # p /\ a \notin Elems(outputChan) /\ a \in OnWay
  BY <1>1 DEF WayOK, OnWay
<1>5. OnWay' = OnWay \ {a}
  BY <1>1, <1>3, <1>4 DEF OnWay
<1>6. PointsAt(OnWay)' = UNION {PointsOf(b) : b \in OnWay \ {a}}
  BY <1>2, <1>5 DEF PointsAt
<1>7. \A b \in OnWay \ {a} : PointsOf(a) \cap PointsOf(b) = {}
  BY <1>4 DEF WayOK
<1>8. PointsAt(OnWay) = PointsOf(a) \cup PointsAt(OnWay)' /\ PointsOf(a) \cap PointsAt(OnWay)' = {}
  BY <1>4, <1>6, <1>7 DEF PointsAt
<1>9. WayOrder'
  <2>1. PointsAt(OnWay)' \cap written' = {}
    BY <1>1, <1>8 DEF WayOrder
  <2>2. \A i : (PointsOf(outputChan[i]))' = PointsOf(outputChan[i])
    BY <1>1 DEF PointsOf, Elems, MetricOf
  <2>3. PointsAt({p} \ {Nil})' = PointsAt({p} \ {Nil})
    BY <1>1, <1>2 DEF PointsAt
  <2>4. \A i, j \in 1..Len(outputChan') :
            i < j => Older((PointsOf(outputChan[i]))', (PointsOf(outputChan[j]))')
    BY <1>1, <2>2 DEF WayOrder
  <2>5. \A i \in 1..Len(outputChan') : Older((PointsOf(outputChan[i]))', PointsAt({p} \ {Nil})')
    BY <1>1, <2>2, <2>3 DEF WayOrder
  <2> QED BY <2>1, <2>4, <2>5 DEF WayOrder, Older
<1>10. (Elems(outputChan) \cap taken)' = {} /\ p' \notin (Elems(outputChan) \cup taken)'
  BY <1>1, <1>3 DEF WayOK
<1> QED BY <1>1, <1>2, <1>5, <1>8, <1>9, <1>10

\* While the tracker is exact the way is in order, too.
LEMMA EarlyWay == ASSUME TInv PROVE WayOK
<1>1. /\ InFlightAddrs = BehindAddrs /\ OncePlaced /\ InFlightApart
      /\ PointsAt(Elems(confirmChan)) \subseteq written
  BY DEF TInv, IInv, Account, BehindOK, HandOverOK, TrackerExact
<1>2. BehindAddrs = OnWay \cup Elems(confirmChan)
  BY DEF BehindAddrs, OnWay
<1>3. InFlight \subseteq PointsAt(OnWay) \cup written
  BY <1>1, <1>2 DEF InFlight, PointsAt
<1>4. \A a, b \in OnWay : a # b => PointsOf(a) \cap PointsOf(b) = {}
  BY <1>1, <1>2 DEF InFlightApart
<1> QED BY <1>1, <1>2, <1>3, <1>4 DEF WayOK, OncePlaced

LEMMA WayOrderStep == ASSUME TInv, StageOrder, WayOrder, [Next]_vars PROVE WayOrder'
<1>1. IInv /\ ShapeOK /\ Account /\ WayOK /\ Nil \notin Addr
  BY EarlyWay, NilAssumption DEF TInv, IInv
<1>2. CASE UNCHANGED <<p, outputChan, taken, written>>
  BY <1>1, <1>2, StillWay
<1>3. CASE SelectSend
  <2>1. /\ values \in Addr /\ p = Nil /\ p' = values
        /\ UNCHANGED <<obj, outputChan, taken, written>>
    BY <1>1, <1>3 DEF SelectSend, ShapeOK, persistVars
  <2>2. \A b : PointsOf(b)' = PointsOf(b)
    BY <2>1 DEF PointsOf, Elems, MetricOf
  <2>3. OnWay' = OnWay \cup {values} /\ Elems(outputChan)' = Elems(outputChan)
    BY <1>1, <2>1 DEF OnWay, Elems
  <2>4. PointsAt(OnWay)' = PointsAt(OnWay) \cup PointsOf(values)
        /\ PointsAt({p} \ {Nil})' = PointsOf(values)
    BY <1>1, <2>1, <2>2, <2>3 DEF PointsAt
  <2>5. PointsOf(values) \subseteq InHand
    BY <1>1, <2>1 DEF InHand, HeldAddrs, PointsAt
  <2>6. PointsAt(OnWay)' \cap written' = {}
    BY <1>1, <2>1, <2>4, <2>5 DEF WayOrder, Account, NoLoss
  <2>7. \A i : (PointsOf(outputChan[i]))' = PointsOf(outputChan[i])
    BY <2>1 DEF PointsOf, Elems, MetricOf
  <2>8. \A i \in 1..Len(outputChan) : Older(PointsOf(outputChan[i]), PointsOf(values))
    <3>1. \A i \in 1..Len(outputChan) : PointsOf(outputChan[i]) \subseteq InFlight
      BY <1>1 DEF WayOK, OnWay, Elems, InFlight, PointsAt
    <3> QED BY <2>5, <3>1 DEF StageOrder, Older
  <2> QED BY <2>1, <2>4, <2>6, <2>7, <2>8 DEF WayOrder, Older
<1>4. CASE TrackerSend
  <2>1. PICK a : a = p
    OBVIOUS
  <2>2. /\ a \in Addr /\ p' = Nil /\ outputChan' = Append(outputChan, a) /\ outputChan \in Seq(Addr)
        /\ UNCHANGED <<obj, taken, written>>
    BY <1>1, <1>4, <2>1 DEF TrackerSend, ShapeOK, unchangedByTracker
  <2>3. \A b : PointsOf(b)' = PointsOf(b)
    BY <2>2 DEF PointsOf, Elems, MetricOf
  <2>4. Elems(outputChan') = Elems(outputChan) \cup {a} /\ Elems(outputChan)' = Elems(outputChan')
    BY <2>2, ElemsAppend DEF Elems
  <2>5. OnWay' = OnWay
    BY <1>1, <2>1, <2>2, <2>4 DEF OnWay
  <2>6. PointsAt(OnWay)' = PointsAt(OnWay) /\ PointsAt({p} \ {Nil})' = {}
        /\ PointsAt({p} \ {Nil}) = PointsOf(a)
    BY <1>1, <2>1, <2>2, <2>3, <2>5 DEF PointsAt
  <2>7. PICK n : n = Len(outputChan)
    OBVIOUS
  <2>8. /\ n \in Nat /\ Len(outputChan') = n + 1 /\ outputChan'[n + 1] = a
        /\ \A i \in 1..n : outputChan'[i] = outputChan[i]
    BY <2>2, <2>7
  <2>9. \A i \in 1..n : (PointsOf(outputChan[i]))' = PointsOf(outputChan[i])
    BY <2>2, <2>8 DEF PointsOf, Elems, MetricOf
  <2>10. (PointsOf(outputChan[n + 1]))' = PointsOf(a)
    BY <2>2, <2>8 DEF PointsOf, Elems, MetricOf
  <2>11. ASSUME NEW i \in 1..(n + 1), NEW j \in 1..(n + 1), i < j
         PROVE  Older((PointsOf(outputChan[i]))', (PointsOf(outputChan[j]))')
    <3>1. i \in 1..n /\ (j = n + 1 \/ j \in 1..n)
      BY <2>8, <2>11
    <3>2. CASE j = n + 1
      BY <2>6, <2>7, <2>9, <2>10, <3>1, <3>2 DEF WayOrder
    <3>3. CASE j \in 1..n
      BY <2>7, <2>9, <2>11, <3>1, <3>3 DEF WayOrder
    <3> QED BY <3>1, <3>2, <3>3
  <2> QED BY <2>2, <2>6, <2>8, <2>11 DEF WayOrder, Older
<1>5. CASE Take
  BY <1>1, <1>5, TakeWay
<1>6. ASSUME NEW a \in Addr, Confirm(a) PROVE WayOrder'
  BY <1>1, <1>6, ConfirmWay
<1>7. \/ UNCHANGED <<p, outputChan, taken, written>> \/ SelectSend \/ TrackerSend \/ Take
      \/ \E a \in Addr : Confirm(a)
  BY DEF Next, Worker, Tracker, Environment, LoopKeep, LoopPopQueued, LoopRebuild, LoopEmpty,
         SelectQuery, ForwardQuery, SelectReceive, SelectOverflow, SelectExit, TrackerConfirm,
         TrackerQuery, TrackerExit, Ask, Receive, Stop, vars, unchangedByLoop,
         unchangedByTracker, trackVars, persistVars
<1> QED BY <1>2, <1>3, <1>4, <1>5, <1>6, <1>7

(***************************************************************************)
(* The running process, before and during the snapshot.                    *)
(***************************************************************************)
\* Before the snapshot is begun the cache works as ever.
LEMMA EarlyStep ==
    ASSUME DumpInv, Early, [Next]_vars, UNCHANGED <<snap, xlog, xlogBuf>>, Early'
    PROVE  DumpInv'
<1>1. /\ TInv /\ IInv /\ OrderOK /\ InputOrder /\ StageOrder /\ DumpShape /\ ObjectsAscend
      /\ WayOrder /\ LogOK /\ snap' = Empty
  BY DEF DumpInv, OrderOK
<1>2. IInv' /\ TInv'
  BY <1>1, ShapeStep, AccountStep, HandOverStep DEF IInv, TInv
<1>3. OrderOK'
  BY <1>1, InputOrderStep, StageOrderStep DEF OrderOK
<1>4. ObjectsAscend' /\ LogOK' /\ WayOrder'
  BY <1>1, AscendStep, LogStep, WayOrderStep
<1>5. WayOK'
  <2>1. /\ (InFlightAddrs = BehindAddrs)' /\ OncePlaced' /\ InFlightApart'
        /\ (PointsAt(Elems(confirmChan)) \subseteq written)'
    BY <1>2 DEF TInv, IInv, Account, BehindOK, HandOverOK, TrackerExact
  <2>2. (BehindAddrs = OnWay \cup Elems(confirmChan))'
    BY DEF BehindAddrs, OnWay
  <2>3. (InFlight \subseteq PointsAt(OnWay) \cup written)'
    BY <2>1, <2>2 DEF InFlight, PointsAt
  <2>4. \A a, b \in OnWay' : a # b => PointsOf(a)' \cap PointsOf(b)' = {}
    BY <2>1, <2>2 DEF InFlightApart
  <2> QED BY <2>1, <2>2, <2>3, <2>4 DEF WayOK, OncePlaced
<1>6. SnapOK'
  <2>1. Elems(snap)' = {} /\ Ascending(snap)'
    BY <1>1 DEF Elems, Ascending, Empty
  <2> QED BY <2>1 DEF SnapOK
<1>7. DumpShape' /\ ~Late'
  BY <1>1 DEF DumpShape, Early, Late
<1> QED BY <1>1, <1>2, <1>3, <1>4, <1>5, <1>6, <1>7 DEF DumpInv

\* During the snapshot only the receivers and the persister go on.
LEMMA LateEffect ==
    ASSUME DumpInv, Late, CacheStep
    PROVE  /\ [Next]_vars /\ ~SelectReceive
           /\ UNCHANGED <<data, values, notConfirmed, workerPC, trackerPC>>
           /\ UNCHANGED <<dumpPC, listening, left, snap, xlog, xlogBuf>>
           /\ listening \/ UNCHANGED inputChan
           /\ ~Finished
           /\ \/ UNCHANGED <<p, outputChan, taken, written>>
              \/ Take
              \/ \E a \in Addr : Confirm(a)
<1>1. /\ workerPC = "done" /\ trackerPC = "done"
  BY DEF DumpInv, SaveOK
<1>2. ~Worker /\ ~Tracker
  BY <1>1 DEF Worker, Tracker, LoopKeep, LoopPopQueued, LoopRebuild, LoopEmpty, SelectQuery,
              ForwardQuery, SelectSend, SelectReceive, SelectOverflow, SelectExit, TrackerSend,
              TrackerConfirm, TrackerQuery, TrackerExit
<1>3. \/ listening /\ \E m \in Metric, k \in 1..MaxBatch : Receive(m, k)
      \/ \E q \in Query, m \in Metric : Ask(q, m)
      \/ Take \/ \E a \in Addr : Confirm(a)
  BY <1>2 DEF CacheStep
<1>4. [Next]_vars
  BY <1>3 DEF Next, Environment
<1>5. ~SelectReceive
  BY <1>1 DEF SelectReceive
<1>6. /\ UNCHANGED <<data, values, notConfirmed, workerPC, trackerPC>>
      /\ listening \/ UNCHANGED inputChan
      /\ \/ UNCHANGED <<p, outputChan, taken, written>> \/ Take \/ \E a \in Addr : Confirm(a)
  BY <1>3 DEF Receive, Ask, Take, Confirm, inVars, storeVars, workerVars, trackVars, persistVars
<1>7. UNCHANGED <<dumpPC, listening, left, snap, xlog, xlogBuf>> /\ ~Finished
  BY DEF CacheStep, Alive, Finished, dumpVars, snapVars, glueVars
<1> QED BY <1>4, <1>5, <1>6, <1>7

\* The persister's steps, and those that leave the way alone, together.
LEMMA LateWay ==
    ASSUME DumpInv, Late, CacheStep
    PROVE  /\ WayOrder' /\ OnWay' \subseteq OnWay
           /\ \A b \in OnWay : PointsOf(b)' = PointsOf(b)
           /\ (written \cup PointsAt(OnWay))' = written \cup PointsAt(OnWay)
           /\ Once(outputChan)' /\ (Elems(outputChan) \cap taken)' = {}
           /\ p' \notin (Elems(outputChan) \cup taken)'
           /\ \A i \in 1..Len(outputChan') : \E j \in 1..Len(outputChan) :
                 (PointsOf(outputChan[i]))' = PointsOf(outputChan[j])
           /\ outputChan = Empty => outputChan' = Empty
<1>1. /\ [Next]_vars
      /\ \/ UNCHANGED <<p, outputChan, taken, written>>
         \/ Take
         \/ \E a \in Addr : Confirm(a)
  BY LateEffect
<1>2. IInv /\ WayOK /\ WayOrder
  BY DEF DumpInv
<1>3. \A b \in OnWay : PointsOf(b)' = PointsOf(b)
  BY <1>1, <1>2, WayKept
<1>4. CASE UNCHANGED <<p, outputChan, taken, written>>
  <2>1. /\ WayOrder' /\ OnWay' = OnWay /\ PointsAt(OnWay)' = PointsAt(OnWay)
        /\ \A i \in 1..Len(outputChan) : (PointsOf(outputChan[i]))' = PointsOf(outputChan[i])
    BY <1>1, <1>2, <1>4, StillWay
  <2>2. Once(outputChan)' = Once(outputChan) /\ Elems(outputChan)' = Elems(outputChan)
    BY <1>4 DEF Once, Elems
  <2>3. Once(outputChan)' /\ (Elems(outputChan) \cap taken)' = {}
        /\ p' \notin (Elems(outputChan) \cup taken)'
    BY <1>2, <1>4, <2>2 DEF WayOK
  <2> QED BY <1>3, <1>4, <2>1, <2>3
<1>5. CASE Take
  <2>1. /\ WayOrder' /\ OnWay' = OnWay /\ PointsAt(OnWay)' = PointsAt(OnWay)
        /\ Once(outputChan)'
        /\ (Elems(outputChan) \cap taken)' = {} /\ p' \notin (Elems(outputChan) \cup taken)'
        /\ \A i \in 1..Len(outputChan') : /\ i + 1 \in 1..Len(outputChan)
                                          /\ (PointsOf(outputChan[i]))' = PointsOf(outputChan[i + 1])
    BY <1>2, <1>5, TakeWay
  <2>2. UNCHANGED written /\ outputChan # Empty
    BY <1>5 DEF Take
  <2> QED BY <1>3, <2>1, <2>2
<1>6. ASSUME NEW a \in Addr, Confirm(a)
      PROVE  /\ WayOrder' /\ OnWay' \subseteq OnWay
             /\ (written \cup PointsAt(OnWay))' = written \cup PointsAt(OnWay)
             /\ Once(outputChan)' /\ (Elems(outputChan) \cap taken)' = {}
             /\ p' \notin (Elems(outputChan) \cup taken)'
             /\ \A i \in 1..Len(outputChan') : \E j \in 1..Len(outputChan) :
                   (PointsOf(outputChan[i]))' = PointsOf(outputChan[j])
             /\ outputChan = Empty => outputChan' = Empty
  <2>1. /\ WayOrder' /\ OnWay' = OnWay \ {a}
        /\ (written \cup PointsAt(OnWay))' = written \cup PointsAt(OnWay)
        /\ (Elems(outputChan) \cap taken)' = {} /\ p' \notin (Elems(outputChan) \cup taken)'
        /\ UNCHANGED outputChan /\ UNCHANGED obj
    BY <1>2, <1>6, ConfirmWay DEF Confirm
  <2>2. Once(outputChan)' = Once(outputChan)
    BY <2>1 DEF Once
  <2>3. \A i : (PointsOf(outputChan[i]))' = PointsOf(outputChan[i])
    BY <2>1 DEF PointsOf, Elems, MetricOf
  <2> QED BY <1>2, <2>1, <2>2, <2>3 DEF WayOK
<1> QED BY <1>1, <1>3, <1>4, <1>5, <1>6

LEMMA LateStep == ASSUME DumpInv, Late, CacheStep PROVE DumpInv'
<1>1. /\ [Next]_vars /\ ~SelectReceive
      /\ UNCHANGED <<data, values, notConfirmed, workerPC, trackerPC>>
      /\ UNCHANGED <<dumpPC, listening, left, snap, xlog, xlogBuf>>
      /\ listening \/ UNCHANGED inputChan
      /\ ~Finished
  BY LateEffect
<1>2. /\ IInv /\ InputOrder /\ StageOrder /\ DumpShape /\ ObjectsAscend /\ WayOK /\ WayOrder
      /\ LogOK /\ SnapOK /\ SaveOK /\ PhaseOK
  BY DEF DumpInv, OrderOK
<1>3. /\ WayOrder' /\ OnWay' \subseteq OnWay
      /\ \A b \in OnWay : PointsOf(b)' = PointsOf(b)
      /\ (written \cup PointsAt(OnWay))' = written \cup PointsAt(OnWay)
      /\ Once(outputChan)' /\ (Elems(outputChan) \cap taken)' = {}
      /\ p' \notin (Elems(outputChan) \cup taken)'
      /\ \A i \in 1..Len(outputChan') : \E j \in 1..Len(outputChan) :
            (PointsOf(outputChan[i]))' = PointsOf(outputChan[j])
      /\ outputChan = Empty => outputChan' = Empty
  BY LateWay
<1>4. IInv' /\ InputOrder' /\ ObjectsAscend' /\ LogOK'
  BY <1>1, <1>2, ShapeStep, AccountStep, InputOrderStep, AscendStep, LogStep DEF IInv
<1>5. /\ CachedAddrs' = CachedAddrs /\ HeldAddrs' = HeldAddrs /\ InFlightAddrs' = InFlightAddrs
      /\ \A b \in CachedAddrs \cup HeldAddrs \cup InFlightAddrs : PointsOf(b)' = PointsOf(b)
  <2>1. \A b \in CachedAddrs \cup HeldAddrs \cup InFlightAddrs : PointsOf(b)' = PointsOf(b)
    BY <1>1, <1>2, AllKept DEF LiveAddrs
  <2> QED BY <1>1, <2>1 DEF CachedAddrs, HeldAddrs, InFlightAddrs, Elems
<1>6. Cached' = Cached /\ InHand' = InHand /\ InFlight' = InFlight
  BY <1>5 DEF Cached, InHand, InFlight, PointsAt
<1>7. OrderOK'
  BY <1>2, <1>4, <1>6 DEF OrderOK, StageOrder, Older
<1>8. Elems(snap)' = Elems(snap) /\ Ascending(snap)' = Ascending(snap)
  BY <1>1 DEF Elems, Ascending
<1>9. WayOK'
  <2>1. \A a, b \in OnWay' : a # b => PointsOf(a)' \cap PointsOf(b)' = {}
    BY <1>2, <1>3 DEF WayOK
  <2>2. OnWay' \subseteq InFlightAddrs'
    BY <1>2, <1>3, <1>5 DEF WayOK
  <2>3. InFlight' \subseteq (PointsAt(OnWay) \cup written)' \cup Elems(snap)'
    BY <1>2, <1>3, <1>6, <1>8 DEF WayOK
  <2> QED BY <1>3, <2>1, <2>2, <2>3 DEF WayOK
<1>10. SnapOK'
  BY <1>2, <1>3, <1>6, <1>8 DEF SnapOK
<1>11. SaveOK'
  <2>1. ToSave' = ToSave /\ ToSave \subseteq CachedAddrs
    BY <1>1, <1>2, <1>5 DEF ToSave, SaveOK
  <2>2. /\ PointsAt(CachedAddrs \ ToSave)' = PointsAt(CachedAddrs \ ToSave)
        /\ PointsAt(ToSave)' = PointsAt(ToSave)
    <3>1. PointsAt(ToSave)' = UNION {PointsOf(b)' : b \in ToSave}
      BY <2>1 DEF PointsAt
    <3>2. PointsAt(CachedAddrs \ ToSave)' = UNION {PointsOf(b)' : b \in CachedAddrs \ ToSave}
      BY <1>5, <2>1 DEF PointsAt
    <3> QED BY <1>5, <2>1, <3>1, <3>2 DEF PointsAt
  <2>3. \A i \in 1..Len(outputChan') : Older(Elems(snap)', (PointsOf(outputChan[i]))')
    BY <1>2, <1>3, <1>8 DEF SaveOK
  <2>4. Older(Elems(snap)', PointsAt(ToSave)') /\ workerPC' = "done" /\ trackerPC' = "done"
    BY <1>1, <1>2, <1>8, <2>2 DEF SaveOK
  <2>5. PointsAt(CachedAddrs \ ToSave)' \subseteq Elems(snap)' /\ ToSave' \subseteq CachedAddrs'
    BY <1>2, <1>5, <1>8, <2>1, <2>2 DEF SaveOK
  <2> QED BY <2>3, <2>4, <2>5 DEF SaveOK, Older
<1>12. PhaseOK'
  BY <1>1, <1>2, <1>3 DEF PhaseOK, Finished
<1>13. DumpShape' /\ Late' /\ ~Early'
  BY <1>1, <1>2 DEF DumpShape, Late, Early
<1> QED BY <1>3, <1>4, <1>7, <1>9, <1>10, <1>11, <1>12, <1>13 DEF DumpInv

(***************************************************************************)
(* The theorems.                                                           *)
(***************************************************************************)
LEMMA InitDump == DumpInit => DumpInv
<1> SUFFICES ASSUME DumpInit PROVE DumpInv
  OBVIOUS
<1>1. /\ Init /\ dumpPC = "run" /\ snap = Empty /\ xlog = Empty /\ xlogBuf = Empty
  BY DEF DumpInit
<1>2. /\ Empty \in Seq(Point) /\ Len(Empty) = 0 /\ Elems(Empty) = {} /\ Ascending(Empty)
      /\ Empty \o Empty = Empty
  BY DEF Empty, Elems, Ascending
<1>3. TInv /\ IInv /\ OrderOK
  BY <1>1, InitInv, InitHandOver, InitOrder DEF TInv
<1>4. DumpShape /\ Early /\ ~Late
  BY <1>1, <1>2 DEF DumpShape, Early, Late
<1>5. ObjectsAscend
  <2>1. \A a \in Addr : obj[a] = Empty
    BY <1>1 DEF Init
  <2> QED BY <1>2, <2>1 DEF ObjectsAscend
<1>6. WayOK
  BY <1>3, EarlyWay
<1>7. WayOrder
  <2>1. outputChan = Empty /\ p = Nil /\ taken = {} /\ written = {}
    BY <1>1 DEF Init
  <2> QED BY <1>2, <2>1 DEF WayOrder
<1>8. LogOK
  <2>1. Elems(Logged) = {} /\ Ascending(Logged)
    BY <1>1, <1>2 DEF Logged
  <2>2. inputChan = Empty /\ next = [m \in Metric |-> 1]
    BY <1>1 DEF Init
  <2>3. Received = {}
    <3>1. \A x \in Point : x[1] \in Metric /\ x[2] \in Nat /\ x[2] >= 1
      BY SerialAssumption DEF Point, Serial
    <3> QED BY <2>2, <3>1 DEF Received
  <2> QED BY <1>2, <2>1, <2>2, <2>3 DEF LogOK
<1>9. SnapOK
  BY <1>1, <1>2 DEF SnapOK
<1> QED BY <1>1, <1>3, <1>4, <1>5, <1>6, <1>7, <1>8, <1>9 DEF DumpInv

LEMMA DumpStep == DumpInv /\ [DumpNext]_allVars => DumpInv'
<1> SUFFICES ASSUME DumpInv, [DumpNext]_allVars PROVE DumpInv'
  OBVIOUS
<1>1. CASE CacheStep
  <2>1. CASE Early
    <3>1. [Next]_vars
      BY <1>1 DEF CacheStep, Next, Environment
    <3>2. UNCHANGED <<snap, xlog, xlogBuf, dumpPC>>
      BY <1>1 DEF CacheStep, dumpVars, snapVars, glueVars
    <3>3. Early'
      BY <2>1, <3>2 DEF Early
    <3> QED BY <2>1, <3>1, <3>2, <3>3, EarlyStep
  <2>2. CASE Late
    BY <1>1, <2>2, LateStep
  <2>3. dumpPC # "fatal"
    BY <1>1 DEF CacheStep, Alive
  <2> QED BY <2>1, <2>2, <2>3 DEF DumpInv, DumpShape
<1>2. CASE Glue
  BY <1>2, GlueStep
<1>3. CASE StopCache
  <2>1. Early /\ Early' /\ UNCHANGED <<snap, xlog, xlogBuf>> /\ [Next]_vars
    BY <1>3 DEF StopCache, Goto, Early, snapVars, glueVars, Next, Environment
  <2> QED BY <2>1, EarlyStep
<1>4. CASE SnapOut
  BY <1>4, SnapOutStep
<1>5. CASE SnapObject
  BY <1>5, SnapObjectStep
<1>6. CASE Control
  BY <1>6, ControlStep
<1>7. CASE UNCHANGED allVars
  <2>1. UNCHANGED <<vars, snap, left, xlog, xlogBuf, dumpPC, listening>>
    BY <1>7 DEF allVars, dumpVars, snapVars, glueVars
  <2>2. /\ IInv' /\ OrderOK' /\ ObjectsAscend' /\ WayOK' /\ WayOrder' /\ LogOK' /\ SnapOK'
        /\ TInv => TInv'
    BY <2>1, QuietDump DEF Logged
  <2>3. UNCHANGED stageVars /\ UNCHANGED <<workerPC, trackerPC, outputChan, taken, inputChan>>
    BY <2>1 DEF vars, stageVars, inVars, storeVars, workerVars, trackVars, persistVars
  <2>4. ToSave' = ToSave /\ Early' = Early /\ Late' = Late /\ DumpShape'
    BY <2>1, <2>3, SameStages DEF ToSave, Early, Late, DumpShape, DumpInv
  <2>5. Late => SaveOK'
    BY <2>1, <2>3, <2>4, SameSave DEF DumpInv
  <2>6. Late => PhaseOK'
    BY <2>1, <2>3 DEF DumpInv, PhaseOK, Finished
  <2> QED BY <2>1, <2>2, <2>4, <2>5, <2>6 DEF DumpInv
<1> QED BY <1>1, <1>2, <1>3, <1>4, <1>5, <1>6, <1>7 DEF DumpNext, Dumper, Control

\* DumpInv holds throughout a dump: the cache, the persister, the receivers,
\* Glue on the input channel and GraceStopDump may interleave as they like.
THEOREM DumpInvariance == DumpSpec => []DumpInv
BY InitDump, DumpStep, PTL DEF DumpSpec

\* Two files in order without a common line have no line twice.
LEMMA OnceInFiles ==
    ASSUME NEW s \in Seq(Point), NEW t \in Seq(Point), Ascending(s), Ascending(t),
           Elems(s) \cap Elems(t) = {}
    PROVE  \A i, j \in 1..Len(s \o t) : (s \o t)[i] = (s \o t)[j] => i = j
<1>1. PICK m, n, u : m = Len(s) /\ n = Len(t) /\ u = s \o t
  OBVIOUS
<1>2. /\ m \in Nat /\ n \in Nat /\ Len(u) = m + n
      /\ \A i \in 1..(m + n) : u[i] = IF i <= m THEN s[i] ELSE t[i - m]
  BY <1>1, Concat
<1>3. /\ \A i \in 1..m : s[i] \in Elems(s) /\ s[i] \in Point
      /\ \A i \in 1..n : t[i] \in Elems(t) /\ t[i] \in Point
  BY <1>1 DEF Elems
<1>4. \A x \in Point : ~(x[2] < x[2])
  <2>1. \A x \in Point : x[2] \in Nat
    BY SerialAssumption DEF Point, Serial
  <2> QED BY <2>1
<1>5. ASSUME NEW i \in 1..(m + n), NEW j \in 1..(m + n), i < j, u[i] = u[j] PROVE FALSE
  <2>1. CASE j <= m
    <3>1. i \in 1..m /\ j \in 1..m /\ u[i] = s[i] /\ u[j] = s[j]
      BY <1>2, <1>5, <2>1
    <3>2. s[i][2] < s[j][2]
      BY <1>1, <1>5, <3>1 DEF Ascending
    <3> QED BY <1>3, <1>4, <1>5, <3>1, <3>2
  <2>2. CASE i <= m /\ ~(j <= m)
    <3>1. i \in 1..m /\ (j - m) \in 1..n /\ u[i] = s[i] /\ u[j] = t[j - m]
      BY <1>2, <1>5, <2>2
    <3> QED BY <1>3, <1>5, <3>1
  <2>3. CASE ~(i <= m)
    <3>1. /\ (i - m) \in 1..n /\ (j - m) \in 1..n /\ i - m < j - m
          /\ u[i] = t[i - m] /\ u[j] = t[j - m]
      BY <1>2, <1>5, <2>3
    <3>2. t[i - m][2] < t[j - m][2]
      BY <1>1, <1>5, <3>1 DEF Ascending
    <3> QED BY <1>3, <1>4, <1>5, <3>1, <3>2
  <2> QED BY <2>1, <2>2, <2>3
<1>6. \A i, j \in 1..(m + n) : i < j => u[i] # u[j]
  BY <1>5
<1>7. \A i, j \in 1..(m + n) : i = j \/ i < j \/ j < i
  BY <1>2
<1>8. \A i, j \in 1..(m + n) : u[i] = u[j] => i = j
  BY <1>6, <1>7
<1> QED BY <1>1, <1>2, <1>8

\* The files of a dump and the lines that are only in Glue's buffer.
LEMMA FilesApart ==
    ASSUME DumpInv
    PROVE  /\ snap \in Seq(Point) /\ xlog \in Seq(Point) /\ xlogBuf \in Seq(Point)
           /\ Elems(Logged) = Elems(xlog) \cup Elems(xlogBuf)
           /\ Ascending(snap) /\ Ascending(xlog)
           /\ Elems(xlog) \cap Elems(xlogBuf) = {}
           /\ Elems(snap) \subseteq accepted /\ written \subseteq accepted
           /\ Elems(Logged) \cap accepted = {} /\ Elems(Logged) \subseteq Point
<1>1. /\ snap \in Seq(Point) /\ xlog \in Seq(Point) /\ xlogBuf \in Seq(Point)
      /\ IInv /\ LogOK /\ SnapOK
  BY DEF DumpInv, DumpShape
<1>2. Elems(Logged) = Elems(xlog) \cup Elems(xlogBuf) /\ Logged \in Seq(Point)
  BY <1>1, ElemsConcat DEF Logged
<1>3. Ascending(xlog) /\ Elems(xlog) \cap Elems(xlogBuf) = {}
  BY <1>1, AscendingParts DEF LogOK, Logged
<1>4. Elems(snap) \subseteq accepted /\ written \subseteq accepted
  BY <1>1, StagesAccepted DEF SnapOK
<1>5. Elems(Logged) \subseteq Point
  BY <1>2 DEF Elems
<1> QED BY <1>1, <1>2, <1>3, <1>4, <1>5 DEF LogOK, SnapOK

\* For every number of metrics, points and messages, and however the steps of
\* the dump and of the persister interleave: a dump loses what the worker, the
\* tracker and Glue's buffer hold, and nothing else.
THEOREM DumpLoss == DumpSpec => []DumpLosesOnlyInHand
<1>1. DumpInv => DumpLosesOnlyInHand
  <2> SUFFICES ASSUME DumpInv, Finished PROVE DumpLosesOnlyInHand
    BY DEF DumpLosesOnlyInHand
  <2>1. /\ IInv /\ Account /\ ShapeOK /\ WayOK /\ WayOrder /\ LogOK /\ SnapOK /\ SaveOK /\ PhaseOK
    BY DEF DumpInv, IInv, Finished, Late
  <2>2. /\ Elems(Logged) = Elems(xlog) \cup Elems(xlogBuf)
        /\ Elems(xlog) \cap Elems(xlogBuf) = {}
        /\ Elems(snap) \subseteq accepted /\ written \subseteq accepted
        /\ Elems(Logged) \cap accepted = {} /\ Elems(Logged) \subseteq Point
    BY FilesApart
  <2>3. left = {} /\ outputChan = Empty /\ taken = {} /\ inputChan = Empty /\ dumpPC # "snapOut"
    BY <2>1 DEF PhaseOK, Finished
  <2>4. Cached \subseteq Elems(snap)
    <3>1. ToSave = {}
      BY <2>3 DEF ToSave
    <3>2. PointsAt(CachedAddrs \ {}) \subseteq Elems(snap)
      BY <2>1, <3>1 DEF SaveOK
    <3>3. CachedAddrs \ {} = CachedAddrs
      OBVIOUS
    <3> QED BY <3>2, <3>3 DEF Cached
  <2>5. OnWay = {p} \ {Nil} /\ Elems(inputChan) = {}
    BY <2>3 DEF OnWay, Elems, Empty
  <2>6. PICK P, H : P = PointsAt({p} \ {Nil}) /\ H = InHand
    OBVIOUS
  <2>7. /\ InFlight \subseteq P \cup written \cup Elems(snap)
        /\ P \subseteq InFlight /\ P \cap written = {} /\ P \cap Elems(snap) = {}
    <3>1. P = PointsAt(OnWay)
      BY <2>5, <2>6
    <3>2. PointsAt(OnWay) \subseteq InFlight
      BY <2>1 DEF WayOK, InFlight, PointsAt
    <3> QED BY <2>1, <3>1, <3>2 DEF WayOK, WayOrder, SnapOK
  <2>8. /\ accepted = Cached \cup H \cup InFlight \cup written
        /\ H \cap written = {} /\ H \cap Elems(snap) = {}
    BY <2>1, <2>6 DEF Account, NoLoss, SnapOK
  <2>9. (accepted \cup Elems(xlog) \cup Elems(xlogBuf)) \ (written \cup Dumped)
            = H \cup P \cup Elems(xlogBuf)
    BY <2>2, <2>4, <2>7, <2>8 DEF Dumped
  <2>10. ASSUME MaxSize = 0 PROVE Received = accepted \cup Elems(xlog) \cup Elems(xlogBuf)
    <3>1. Received \subseteq accepted \cup Elems(Logged) \cup PointsAt(Elems(inputChan))
      BY <2>1, <2>10 DEF LogOK
    <3>2. PointsAt(Elems(inputChan)) = {}
      BY <2>5 DEF PointsAt
    <3>3. accepted \subseteq Received
      BY <2>1 DEF Received, Account, AcceptedOK, ShapeOK
    <3>4. Elems(Logged) \subseteq Received
      BY <2>1, <2>2 DEF Received, LogOK
    <3> QED BY <2>2, <3>1, <3>2, <3>3, <3>4
  <2> QED BY <2>6, <2>9, <2>10 DEF DumpLosesOnlyInHand
<1> QED BY <1>1, DumpInvariance, PTL

\* And no point is in its files twice or out of order, or in a file and
\* written: the next process stores every point once.
THEOREM DumpOnce == DumpSpec => []DumpedOnce
<1>1. DumpInv => DumpedOnce
  <2> SUFFICES ASSUME DumpInv PROVE DumpedOnce
    OBVIOUS
  <2>1. /\ snap \in Seq(Point) /\ xlog \in Seq(Point)
        /\ Elems(Logged) = Elems(xlog) \cup Elems(xlogBuf)
        /\ Ascending(snap) /\ Ascending(xlog)
        /\ Elems(snap) \subseteq accepted /\ written \subseteq accepted
        /\ Elems(Logged) \cap accepted = {}
    BY FilesApart
  <2>2. Elems(snap) \cap written = {}
    BY DEF DumpInv, SnapOK
  <2>3. Elems(snap) \cap Elems(xlog) = {} /\ Dumped \cap written = {}
    BY <2>1, <2>2 DEF Dumped
  <2>4. \A i, j \in 1..Len(snap \o xlog) : (snap \o xlog)[i] = (snap \o xlog)[j] => i = j
    BY <2>1, <2>3, OnceInFiles
  <2> QED BY <2>1, <2>3, <2>4 DEF DumpedOnce, Saved
<1> QED BY <1>1, DumpInvariance, PTL

(***************************************************************************)
(* Restoring.                                                              *)
(***************************************************************************)
\* How many lines of the two files have been read, if no process started over.
Seen == IF "cache" \in ToRead THEN pos
        ELSE IF "input" \in ToRead THEN Len(snap) + pos
        ELSE Len(snap) + Len(xlog)

\* The lines of r stand in that order among the first n lines of s.
Ordered(r, s, n) ==
    /\ \A i \in 1..Len(r) : \E k \in 1..n : k \in 1..Len(s) /\ s[k] = r[i]
    /\ \A i, j \in 1..Len(r) : i < j =>
           \E k, l \in 1..Len(s) : k < l /\ s[k] = r[i] /\ s[l] = r[j]

\* The first n lines of a file that can be sent were sent.
SentUpTo(f, n) ==
    \A i \in 1..n : Content(f)[i] \notin Unreadable => Content(f)[i] \in Elems(restored)

\* Nothing but lines of the files was sent; all of a file that is no longer to be
\* read was, and of the one being read what has been read.
SentAll ==
    /\ Elems(restored) \subseteq Readable
    /\ \A f \in {"cache", "input"} : f \notin ToRead => SentUpTo(f, Len(Content(f)))
    /\ ToRead # {} => SentUpTo(FirstFile, pos)

\* If no process started over, the lines were sent in order and none that is
\* still to be read.
SentInOrder ==
    /\ ToRead \in {{"cache", "input"}, {"input"}, {}}
    /\ ~readFailed => Ordered(restored, Saved, Seen)

SentOK ==
    /\ files \subseteq {"cache", "input"}
    /\ pos \in Nat /\ restarts \in Nat /\ restored \in Seq(Point)
    /\ ~readFailed => SentAll
    /\ restarts = 0 => SentInOrder

RestoreInv ==
    /\ ~Finished => pos = 0 /\ restored = Empty /\ restarts = 0 /\ ~readFailed /\ kept = {}
    /\ ~Finished /\ dumpPC \notin {"run", "fatal"} => files = {"cache", "input"}
    /\ Finished => SentOK
    /\ dumpPC = "restored" => ToRead = {}

\* What the steps of Restore leave alone.
LEMMA FilesKept ==
    ASSUME UNCHANGED <<snap, xlog>>
    PROVE  /\ Saved' = Saved /\ Readable' = Readable /\ Dumped' = Dumped
           /\ \A f : Content(f)' = Content(f)
BY DEF Saved, Readable, Dumped, Elems, Content

LEMMA FirstToRead ==
    ASSUME SentOK, ToRead # {}
    PROVE  FirstFile \in ToRead /\ FirstFile \in {"cache", "input"}
BY DEF SentOK, ToRead, FirstFile

LEMMA ContentType ==
    ASSUME DumpInv, NEW f \in {"cache", "input"}
    PROVE  /\ Content(f) \in Seq(Point) /\ Len(Content(f)) \in Nat
           /\ \A i \in 1..Len(Content(f)) : Content(f)[i] \in Point /\ Content(f)[i] \in Dumped
<1>1. snap \in Seq(Point) /\ xlog \in Seq(Point)
  BY DEF DumpInv, DumpShape
<1>2. CASE f = "cache"
  <2>1. Content(f) = snap
    BY <1>2 DEF Content
  <2> QED BY <1>1, <2>1 DEF Dumped, Elems
<1>3. CASE f = "input"
  <2>1. Content(f) = xlog
    BY <1>3 DEF Content
  <2> QED BY <1>1, <2>1 DEF Dumped, Elems
<1> QED BY <1>2, <1>3

\* The line that RestoreLine reads is the next one of the two files.
LEMMA NextLine ==
    ASSUME DumpInv, SentOK, RestoreLine, restarts = 0, NEW n, n = Seen
    PROVE  /\ n \in Nat /\ n + 1 \in 1..Len(Saved) /\ Saved \in Seq(Point)
           /\ Seen' = n + 1 /\ Saved' = Saved
           /\ restored' = IF Saved[n + 1] \in Unreadable THEN restored
                          ELSE Append(restored, Saved[n + 1])
<1>1. PICK c, h, t : c = Content(FirstFile) /\ h = Len(snap) /\ t = Len(xlog)
  OBVIOUS
<1>2. /\ ToRead # {} /\ pos < Len(c) /\ pos' = pos + 1 /\ ToRead' = ToRead
      /\ restored' = IF c[pos + 1] \in Unreadable THEN restored ELSE Append(restored, c[pos + 1])
      /\ UNCHANGED <<snap, xlog>>
  BY <1>1 DEF RestoreLine, ToRead, dumpVars, snapVars, glueVars
<1>3. /\ snap \in Seq(Point) /\ xlog \in Seq(Point) /\ h \in Nat /\ t \in Nat /\ pos \in Nat
      /\ ToRead = {"cache", "input"} \/ ToRead = {"input"}
  <2>1. snap \in Seq(Point) /\ xlog \in Seq(Point) /\ h \in Nat /\ t \in Nat
    BY <1>1 DEF DumpInv, DumpShape
  <2>2. pos \in Nat /\ ToRead \in {{"cache", "input"}, {"input"}, {}}
    BY DEF SentOK, SentInOrder
  <2> QED BY <1>2, <2>1, <2>2
<1>4. PICK u : u = Saved
  OBVIOUS
<1>5. /\ u \in Seq(Point) /\ Len(u) = h + t
      /\ \A i \in 1..(h + t) : u[i] = IF i <= h THEN snap[i] ELSE xlog[i - h]
  <2>1. /\ snap \o xlog \in Seq(Point) /\ Len(snap \o xlog) = Len(snap) + Len(xlog)
        /\ \A i \in 1..(Len(snap) + Len(xlog)) :
              (snap \o xlog)[i] = IF i <= Len(snap) THEN snap[i] ELSE xlog[i - Len(snap)]
    BY <1>3, Concat, Zenon
  <2> QED BY <1>1, <1>4, <2>1, Zenon DEF Saved
<1>6. Saved' = Saved
  BY <1>2, FilesKept
<1>7. /\ n \in Nat /\ n + 1 \in 1..(h + t) /\ Seen' = n + 1 /\ u[n + 1] = c[pos + 1]
  <2>1. CASE ToRead = {"cache", "input"}
    <3>1. c = snap /\ n = pos /\ Seen' = pos + 1
      BY <1>1, <1>2, <2>1 DEF Content, FirstFile, Seen
    <3>2. pos + 1 \in 1..h /\ pos + 1 \in 1..(h + t) /\ pos + 1 <= h
      BY <1>1, <1>2, <1>3, <3>1
    <3> QED BY <1>3, <1>5, <3>1, <3>2
  <2>2. CASE ToRead = {"input"}
    <3>1. "cache" \notin ToRead /\ "input" \in ToRead
      BY <2>2
    <3>2. c = xlog /\ n = h + pos /\ Seen' = h + (pos + 1)
      BY <1>1, <1>2, <3>1 DEF Content, FirstFile, Seen
    <3>3. n + 1 = h + (pos + 1) /\ n + 1 \in 1..(h + t) /\ ~(n + 1 <= h) /\ (n + 1) - h = pos + 1
      <4>1. pos < t
        BY <1>1, <1>2, <3>2
      <4> QED BY <1>3, <3>2, <4>1
    <3> QED BY <1>3, <1>5, <3>2, <3>3, SMTT(20)
  <2> QED BY <1>3, <2>1, <2>2
<1> QED BY <1>2, <1>3, <1>4, <1>5, <1>6, <1>7

\* Reading on keeps the order.
LEMMA OrderedMore ==
    ASSUME NEW r, NEW s, NEW n \in Nat, Ordered(r, s, n)
    PROVE  Ordered(r, s, n + 1)
<1>1. \A k \in 1..n : k \in 1..(n + 1)
  OBVIOUS
<1> QED BY <1>1 DEF Ordered

\* So does sending what was read.
LEMMA OrderedSend ==
    ASSUME NEW r \in Seq(Point), NEW s \in Seq(Point), NEW n \in Nat, n + 1 \in 1..Len(s),
           Ordered(r, s, n)
    PROVE  Ordered(Append(r, s[n + 1]), s, n + 1)
<1>1. PICK x, q, m : x = s[n + 1] /\ q = Append(r, x) /\ m = Len(r)
  OBVIOUS
<1>2. /\ m \in Nat /\ Len(q) = m + 1 /\ q[m + 1] = x
      /\ \A i \in 1..m : q[i] = r[i]
  BY <1>1
<1>3. \A i \in 1..(m + 1) : i = m + 1 \/ i \in 1..m
  BY <1>2
<1>4. \A i \in 1..m : \E k \in 1..n : k \in 1..Len(s) /\ s[k] = q[i]
  BY <1>1, <1>2 DEF Ordered
<1>5. /\ \A k \in 1..n : k \in 1..(n + 1) /\ k < n + 1
      /\ n + 1 \in 1..(n + 1)
  OBVIOUS
<1>6. \A i \in 1..(m + 1) : \E k \in 1..(n + 1) : k \in 1..Len(s) /\ s[k] = q[i]
  BY <1>1, <1>2, <1>3, <1>4, <1>5
<1>7. ASSUME NEW i \in 1..(m + 1), NEW j \in 1..(m + 1), i < j
      PROVE  \E k, l \in 1..Len(s) : k < l /\ s[k] = q[i] /\ s[l] = q[j]
  <2>1. i \in 1..m
    BY <1>2, <1>7
  <2>2. CASE j = m + 1
    BY <1>1, <1>2, <1>4, <1>5, <2>1, <2>2
  <2>3. CASE j \in 1..m
    <3>1. \E k, l \in 1..Len(s) : k < l /\ s[k] = r[i] /\ s[l] = r[j]
      BY <1>1, <1>7, <2>1, <2>3 DEF Ordered
    <3> QED BY <1>2, <2>1, <2>3, <3>1
  <2> QED BY <1>3, <2>2, <2>3
<1>8. Ordered(q, s, n + 1)
  BY <1>2, <1>6, <1>7 DEF Ordered
<1> QED BY <1>1, <1>8

LEMMA RestoreLineStep == ASSUME DumpInv, SentOK, RestoreLine PROVE SentOK'
<1>1. PICK f, c, x : f = FirstFile /\ c = Content(f) /\ x = c[pos + 1]
  OBVIOUS
<1>2. /\ ToRead # {} /\ pos < Len(c) /\ pos' = pos + 1
      /\ restored' = IF x \in Unreadable THEN restored ELSE Append(restored, x)
      /\ UNCHANGED <<snap, xlog, files, kept, restarts, readFailed>>
  BY <1>1 DEF RestoreLine, dumpVars, snapVars, glueVars
<1>3. ToRead' = ToRead /\ FirstFile' = f
  BY <1>1, <1>2 DEF ToRead, FirstFile
<1>4. f \in ToRead /\ f \in {"cache", "input"}
  BY <1>1, <1>2, FirstToRead
<1>5. pos \in Nat /\ restored \in Seq(Point) /\ restarts \in Nat /\ files \subseteq {"cache", "input"}
  BY DEF SentOK
<1>6. c \in Seq(Point) /\ Len(c) \in Nat /\ x \in Point /\ x \in Dumped
  <2>1. /\ c \in Seq(Point) /\ Len(c) \in Nat
        /\ \A i \in 1..Len(c) : c[i] \in Point /\ c[i] \in Dumped
    BY <1>1, <1>4, ContentType
  <2>2. pos + 1 \in 1..Len(c)
    BY <1>2, <1>5, <2>1
  <2> QED BY <1>1, <2>1, <2>2
<1>7. /\ restored' \in Seq(Point)
      /\ Elems(restored)' = Elems(restored) \cup (IF x \in Unreadable THEN {} ELSE {x})
  <2>1. Elems(restored)' = Elems(restored')
    BY DEF Elems
  <2>2. Append(restored, x) \in Seq(Point) /\ Elems(Append(restored, x)) = Elems(restored) \cup {x}
    BY <1>5, <1>6, ElemsAppend
  <2> QED BY <1>2, <1>5, <2>1, <2>2
<1>8. Readable' = Readable /\ Dumped' = Dumped /\ Saved' = Saved /\ \A g : Content(g)' = Content(g)
  BY <1>2, FilesKept
<1>9. ASSUME ~readFailed PROVE SentAll'
  <2>1. SentAll
    BY <1>9 DEF SentOK
  <2>2. Elems(restored)' \subseteq Readable'
    BY <1>6, <1>7, <1>8, <2>1 DEF SentAll, Readable
  <2>3. ASSUME NEW g \in {"cache", "input"}, g \notin ToRead PROVE SentUpTo(g, Len(Content(g)))'
    <3>1. SentUpTo(g, Len(Content(g)))
      BY <2>1, <2>3 DEF SentAll
    <3> QED BY <1>7, <1>8, <3>1 DEF SentUpTo
  <2>4. SentUpTo(f, pos)
    BY <1>1, <1>2, <2>1 DEF SentAll
  <2>5. \A i \in 1..(pos + 1) : i = pos + 1 \/ i \in 1..pos
    BY <1>5
  <2>6. \A i \in 1..(pos + 1) : c[i] \notin Unreadable => c[i] \in Elems(restored)'
    BY <1>1, <1>7, <2>4, <2>5 DEF SentUpTo
  <2>7. Content(f)' = c
    BY <1>1, <1>8
  <2>8. SentUpTo(FirstFile, pos)'
    BY <1>2, <1>3, <2>6, <2>7 DEF SentUpTo
  <2> QED BY <1>3, <2>2, <2>3, <2>8 DEF SentAll
<1>10. ASSUME restarts = 0 PROVE SentInOrder'
  <2>1. PICK n, s, y : n = Seen /\ s = Saved /\ y = Saved[n + 1]
    OBVIOUS
  <2>2. /\ n \in Nat /\ n + 1 \in 1..Len(s) /\ s \in Seq(Point) /\ Seen' = n + 1 /\ Saved' = s
        /\ restored' = IF y \in Unreadable THEN restored ELSE Append(restored, y)
    BY <1>10, <2>1, NextLine
  <2>3. ToRead' \in {{"cache", "input"}, {"input"}, {}}
    BY <1>3, <1>10 DEF SentOK, SentInOrder
  <2>4. ASSUME ~readFailed PROVE Ordered(restored', s, n + 1)
    <3>1. Ordered(restored, s, n)
      BY <1>10, <2>1, <2>4 DEF SentOK, SentInOrder
    <3>2. Ordered(restored, s, n + 1)
      BY <2>2, <3>1, OrderedMore
    <3>3. Ordered(Append(restored, y), s, n + 1)
      BY <1>5, <2>1, <2>2, <3>1, OrderedSend
    <3> QED BY <2>2, <3>2, <3>3
  <2>5. Ordered(restored, Saved, Seen)' = Ordered(restored', s, n + 1)
    BY <2>2 DEF Ordered
  <2> QED BY <1>2, <2>3, <2>4, <2>5 DEF SentInOrder
<1>11. pos' \in Nat
  BY <1>2, <1>5
<1> QED BY <1>2, <1>5, <1>7, <1>9, <1>10, <1>11 DEF SentOK

\* A file is no longer to be read when its lines have been, or reading it failed;
\* whether it could be removed makes no difference to this process.
LEMMA RestoreRemoveStep == ASSUME DumpInv, SentOK, RestoreRemove PROVE SentOK'
<1>1. PICK h, t, f : h = Len(snap) /\ t = Len(xlog) /\ f = FirstFile
  OBVIOUS
<1>2. /\ ToRead # {} /\ pos' = 0
      /\ (pos = Len(Content(f)) /\ UNCHANGED readFailed) \/ readFailed' = TRUE
      /\ UNCHANGED <<snap, xlog, restored, restarts>>
      /\ (files' = files \ {f} /\ UNCHANGED kept) \/ (kept' = kept \cup {f} /\ UNCHANGED files)
  BY <1>1 DEF RestoreRemove, RemoveFile, dumpVars, snapVars, glueVars
<1>3. ToRead' = ToRead \ {f} /\ files' \subseteq files
  BY <1>2 DEF ToRead
<1>4. f \in ToRead /\ f \in {"cache", "input"}
  BY <1>1, <1>2, FirstToRead
<1>5. /\ snap \in Seq(Point) /\ xlog \in Seq(Point) /\ h \in Nat /\ t \in Nat /\ pos \in Nat
      /\ restored \in Seq(Point) /\ restarts \in Nat /\ files \subseteq {"cache", "input"}
  BY <1>1 DEF DumpInv, DumpShape, SentOK
<1>6. /\ Saved' = Saved /\ Readable' = Readable /\ Elems(restored)' = Elems(restored)
      /\ \A g : Content(g)' = Content(g)
  <2>1. Elems(restored)' = Elems(restored)
    BY <1>2 DEF Elems
  <2> QED BY <1>2, <2>1, FilesKept
<1>7. ASSUME readFailed' # TRUE PROVE SentAll'
  <2>1. SentAll /\ pos = Len(Content(f))
    BY <1>2, <1>7 DEF SentOK
  <2>2. Elems(restored)' \subseteq Readable'
    BY <1>6, <2>1 DEF SentAll
  <2>3. ASSUME NEW g \in {"cache", "input"}, g \notin ToRead' PROVE SentUpTo(g, Len(Content(g)))'
    <3>1. SentUpTo(g, Len(Content(g)))
      <4>1. CASE g = f
        BY <1>1, <1>2, <2>1, <4>1 DEF SentAll
      <4>2. CASE g # f
        BY <1>3, <2>1, <2>3, <4>2 DEF SentAll
      <4> QED BY <4>1, <4>2
    <3> QED BY <1>6, <3>1 DEF SentUpTo
  <2>4. SentUpTo(FirstFile, pos)'
    BY <1>2 DEF SentUpTo
  <2> QED BY <2>2, <2>3, <2>4 DEF SentAll
<1>8. ASSUME restarts = 0 PROVE SentInOrder'
  <2>1. SentInOrder
    BY <1>8 DEF SentOK
  <2>2. ToRead = {"cache", "input"} \/ ToRead = {"input"}
    BY <1>2, <2>1 DEF SentInOrder
  <2>3. ToRead' \in {{"cache", "input"}, {"input"}, {}} /\ (readFailed' # TRUE => Seen' = Seen)
    <3>1. CASE ToRead = {"cache", "input"}
      <4>1. f = "cache" /\ Content(f) = snap
        BY <1>1, <3>1 DEF FirstFile, Content
      <4>2. ToRead' = {"input"} /\ "cache" \notin ToRead' /\ "input" \in ToRead'
        BY <1>3, <3>1, <4>1
      <4>3. Seen = pos /\ Seen' = h + 0
        BY <1>1, <1>2, <3>1, <4>2 DEF Seen
      <4>4. ASSUME readFailed' # TRUE PROVE Seen' = Seen
        <5>1. pos = Len(snap)
          BY <1>2, <4>1, <4>4
        <5> QED BY <1>1, <1>5, <4>3, <5>1
      <4> QED BY <4>2, <4>4
    <3>2. CASE ToRead = {"input"}
      <4>1. "cache" \notin ToRead /\ "input" \in ToRead
        BY <3>2
      <4>2. f = "input" /\ Content(f) = xlog
        BY <1>1, <4>1 DEF FirstFile, Content
      <4>3. ToRead' = {}
        BY <1>3, <3>2, <4>2
      <4>4. Seen = h + pos /\ Seen' = h + t
        BY <1>1, <1>2, <4>1, <4>3 DEF Seen
      <4> QED BY <1>1, <1>2, <4>2, <4>3, <4>4
    <3> QED BY <2>2, <3>1, <3>2
  <2>4. ASSUME readFailed' # TRUE PROVE Ordered(restored, Saved, Seen)'
    <3>1. Ordered(restored, Saved, Seen)
      BY <1>2, <2>1, <2>4 DEF SentInOrder
    <3>2. Ordered(restored, Saved, Seen)' = Ordered(restored, Saved, Seen)
      BY <1>2, <1>6, <2>3, <2>4 DEF Ordered
    <3> QED BY <3>1, <3>2
  <2> QED BY <2>3, <2>4 DEF SentInOrder
<1> QED BY <1>2, <1>3, <1>5, <1>7, <1>8 DEF SentOK

\* A process that starts over reads the files that were not removed, those that
\* have been sent already included.
LEMMA RestoreAgainStep == ASSUME DumpInv, SentOK, RestoreAgain PROVE SentOK'
<1>1. /\ pos' = 0 /\ restarts' = restarts + 1 /\ kept' = {}
      /\ UNCHANGED <<snap, xlog, files, restored, readFailed>>
  BY DEF RestoreAgain, snapVars, glueVars
<1>2. /\ Readable' = Readable /\ Elems(restored)' = Elems(restored)
      /\ \A g : Content(g)' = Content(g)
  <2>1. Elems(restored)' = Elems(restored)
    BY <1>1 DEF Elems
  <2> QED BY <1>1, <2>1, FilesKept
<1>3. ToRead \subseteq ToRead'
  BY <1>1 DEF ToRead
<1>4. restarts' \in Nat /\ restarts' # 0
  BY <1>1 DEF SentOK
<1>5. ASSUME ~readFailed PROVE SentAll'
  <2>1. SentAll
    BY <1>5 DEF SentOK
  <2>2. ASSUME NEW g \in {"cache", "input"}, g \notin ToRead' PROVE SentUpTo(g, Len(Content(g)))'
    <3>1. SentUpTo(g, Len(Content(g)))
      BY <1>3, <2>1, <2>2 DEF SentAll
    <3> QED BY <1>2, <3>1 DEF SentUpTo
  <2>3. SentUpTo(FirstFile, pos)'
    BY <1>1 DEF SentUpTo
  <2> QED BY <1>2, <2>1, <2>2, <2>3 DEF SentAll
<1> QED BY <1>1, <1>4, <1>5 DEF SentOK

\* Before the next process starts nothing has been sent.
LEMMA ProcessEndsStep == ASSUME DumpInv, RestoreInv, ProcessEnds PROVE SentOK'
<1>1. /\ files' = {"cache", "input"} /\ pos' = 0 /\ restarts' = 0 /\ restored' = Empty
      /\ ~readFailed' /\ kept' = {}
  BY DEF ProcessEnds, RestoreInv, Finished, restoreVars
<1>2. Empty \in Seq(Point) /\ Len(Empty) = 0 /\ Elems(Empty) = {}
  BY DEF Empty, Elems
<1>3. ToRead' = {"cache", "input"} /\ "cache" \in ToRead'
  BY <1>1 DEF ToRead
<1>4. Seen' = 0 /\ Elems(restored)' = {} /\ Ordered(restored, Saved, Seen)'
  BY <1>1, <1>2, <1>3 DEF Seen, Elems, Ordered
<1>5. SentAll'
  <2>1. SentUpTo(FirstFile, pos)'
    BY <1>1 DEF SentUpTo
  <2> QED BY <1>3, <1>4, <2>1 DEF SentAll
<1> QED BY <1>1, <1>2, <1>3, <1>4, <1>5 DEF SentOK, SentInOrder

LEMMA RestoreStep == DumpInv /\ RestoreInv /\ [DumpNext]_allVars => RestoreInv'
<1> SUFFICES ASSUME DumpInv, RestoreInv, [DumpNext]_allVars PROVE RestoreInv'
  OBVIOUS
<1>1. CASE RestoreLine \/ RestoreRemove \/ RestoreAgain
  <2>1. Finished /\ dumpPC' = "restore"
    BY <1>1 DEF RestoreLine, RestoreRemove, RestoreAgain, Goto, Finished, dumpVars
  <2>2. SentOK'
    BY <1>1, <2>1, RestoreLineStep, RestoreRemoveStep, RestoreAgainStep DEF RestoreInv
  <2> QED BY <2>1, <2>2 DEF RestoreInv, Finished
<1>2. CASE RestoreEnds \/ UNCHANGED allVars
  <2>1. /\ UNCHANGED <<files, kept, pos, restored, restarts, readFailed, snap, xlog>>
        /\ UNCHANGED dumpPC \/ (dumpPC = "restore" /\ dumpPC' = "restored" /\ ToRead = {})
    BY <1>2 DEF RestoreEnds, Goto, allVars, dumpVars, restoreVars, snapVars, glueVars
  <2>2. ToRead' = ToRead /\ FirstFile' = FirstFile
    BY <2>1 DEF ToRead, FirstFile
  <2>3. ASSUME SentOK PROVE SentOK'
    <3>1. /\ Saved' = Saved /\ Readable' = Readable /\ Elems(restored)' = Elems(restored)
          /\ Seen' = Seen /\ \A g : Content(g)' = Content(g)
      <4>1. Elems(restored)' = Elems(restored) /\ Seen' = Seen
        BY <2>1, <2>2 DEF Elems, Seen
      <4> QED BY <2>1, <4>1, FilesKept
    <3>2. Ordered(restored, Saved, Seen)' = Ordered(restored, Saved, Seen)
      BY <2>1, <3>1 DEF Ordered
    <3>3. SentInOrder' = SentInOrder
      BY <2>1, <2>2, <3>2 DEF SentInOrder
    <3>4. \A g, n : SentUpTo(g, n) => SentUpTo(g, n)'
      BY <3>1 DEF SentUpTo
    <3>5. SentAll => SentAll'
      <4> SUFFICES ASSUME SentAll PROVE SentAll'
        OBVIOUS
      <4>1. ASSUME NEW g \in {"cache", "input"}, g \notin ToRead' PROVE SentUpTo(g, Len(Content(g)))'
        <5>1. SentUpTo(g, Len(Content(g)))
          BY <2>2, <4>1 DEF SentAll
        <5> QED BY <3>1, <5>1 DEF SentUpTo
      <4>2. ToRead # {} => SentUpTo(FirstFile, pos)'
        <5> SUFFICES ASSUME ToRead # {} PROVE SentUpTo(FirstFile, pos)'
          OBVIOUS
        <5>1. SentUpTo(FirstFile, pos)
          BY DEF SentAll
        <5> QED BY <2>1, <2>2, <3>1, <5>1 DEF SentUpTo
      <4> QED BY <2>2, <3>1, <4>1, <4>2 DEF SentAll
    <3> QED BY <2>1, <2>3, <3>3, <3>5 DEF SentOK
  <2> QED BY <2>1, <2>2, <2>3 DEF RestoreInv, Finished
<1>3. CASE ProcessEnds
  <2>1. dumpPC' = "restore" /\ SentOK'
    BY <1>3, ProcessEndsStep DEF ProcessEnds, Goto
  <2> QED BY <2>1 DEF RestoreInv, Finished
<1>4. CASE BeginDump
  <2>1. /\ dumpPC = "run" /\ dumpPC' = "stopCache" /\ files' = {"cache", "input"}
        /\ UNCHANGED <<kept, pos, restored, restarts, readFailed>>
    BY <1>4 DEF BeginDump, Goto
  <2> QED BY <2>1 DEF RestoreInv, Finished
<1>5. CASE \/ CacheStep \/ Glue \/ DumpFails \/ StopCache \/ CloseOut \/ SnapOut \/ SnapOutEnds
           \/ SnapObject \/ SnapMapEnds \/ StopListeners \/ StopListenersBlocks \/ WaitInput
           \/ WaitXlog \/ FlushXlog
  <2>1. UNCHANGED <<files, kept, pos, restored, restarts, readFailed>>
    BY <1>5 DEF CacheStep, Glue, GlueReceive, GlueTick, GlueExit, DumpFails, StopCache, CloseOut,
                SnapOut, SnapOutEnds, SnapObject, SnapMapEnds, StopListeners, StopListenersBlocks,
                WaitInput, WaitXlog, FlushXlog, restoreVars
  <2>2. /\ ~Finished /\ ~Finished'
        /\ dumpPC' \notin {"run", "fatal"} => dumpPC \notin {"run", "fatal"}
    BY <1>5 DEF CacheStep, Glue, GlueReceive, GlueTick, GlueExit, DumpFails, StopCache, CloseOut,
                SnapOut, SnapOutEnds, SnapObject, SnapMapEnds, StopListeners, StopListenersBlocks,
                WaitInput, WaitXlog, FlushXlog, Goto, Alive, Finished, dumpVars
  <2>3. dumpPC' # "restored"
    BY <2>2 DEF Finished
  <2> QED BY <2>1, <2>2, <2>3 DEF RestoreInv
<1> QED BY <1>1, <1>2, <1>3, <1>4, <1>5 DEF DumpNext, Dumper, Restore

\* However often a process that restores crashes, or cannot remove a file, and
\* another one starts over: what could be read was sent, and if none did in the
\* order of the files.
THEOREM AllRestored == DumpSpec => []RestoredAll
<1>1. DumpInit => RestoreInv
  BY DEF DumpInit, RestoreInv, Finished
<1>2. DumpInv /\ RestoreInv => RestoredAll
  <2> SUFFICES ASSUME DumpInv, RestoreInv, dumpPC = "restored", ~readFailed PROVE RestoredAll
    BY DEF RestoredAll
  <2>1. SentOK /\ SentAll /\ ToRead = {}
    BY DEF RestoreInv, Finished, SentOK
  <2>2. Content("cache") = snap /\ Content("input") = xlog
    BY DEF Content
  <2>3. SentUpTo("cache", Len(snap)) /\ SentUpTo("input", Len(xlog))
    BY <2>1, <2>2 DEF SentAll
  <2>4. Readable \subseteq Elems(restored)
    <3>1. \A x \in Elems(snap) : x \notin Unreadable => x \in Elems(restored)
      BY <2>2, <2>3 DEF SentUpTo, Elems
    <3>2. \A x \in Elems(xlog) : x \notin Unreadable => x \in Elems(restored)
      BY <2>2, <2>3 DEF SentUpTo, Elems
    <3> QED BY <3>1, <3>2 DEF Readable, Dumped
  <2>5. Elems(restored) = Readable
    BY <2>1, <2>4 DEF SentAll
  <2>6. restarts = 0 =>
            \A i, j \in 1..Len(restored) : i < j =>
                \E k, l \in 1..Len(Saved) :
                    k < l /\ Saved[k] = restored[i] /\ Saved[l] = restored[j]
    BY <2>1, Zenon DEF SentOK, SentInOrder, Ordered
  <2> QED BY <2>5, <2>6, Zenon DEF RestoredAll
<1> QED BY <1>1, <1>2, RestoreStep, DumpInvariance, PTL DEF DumpSpec
=============================================================================

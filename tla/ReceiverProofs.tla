--------------------------- MODULE ReceiverProofs ---------------------------
(***************************************************************************)
(* Proofs about the receivers of modules Receiver and Receivers: after     *)
(* Stop nothing enters the input channel, a connection's messages are      *)
(* neither lost nor repeated nor reordered, Stat's reports are exact and a *)
(* gap in a peer's datagrams damages one of its lines and no other peer's. *)
(* They hold for any number of connections and peers, any items, any       *)
(* lines, any channel capacity and any width of the counters.              *)
(***************************************************************************)
EXTENDS Receivers, Integers, FiniteSetTheorems, TLAPS

(***************************************************************************)
(* Counters modulo Wrap.                                                   *)
(***************************************************************************)
\* A multiple of W that is added to a remainder and leaves a remainder is 0.
LEMMA OneRemainder ==
    \A k \in Int, W \in Nat \ {0}, r \in Int :
        r >= 0 /\ r < W /\ r + k * W >= 0 /\ r + k * W < W => k = 0
<1> SUFFICES ASSUME NEW k \in Int, NEW W \in Nat \ {0}, NEW r \in Int,
                    r >= 0, r < W, r + k * W >= 0, r + k * W < W
             PROVE  k = 0
    OBVIOUS
<1>1. ASSUME k >= 1 PROVE FALSE
  <2>1. k * W >= W
    BY <1>1
  <2> QED BY <2>1
<1>2. ASSUME k <= -1 PROVE FALSE
  <2>1. k * W <= -W
    BY <1>2
  <2> QED BY <2>1
<1> QED BY <1>1, <1>2

\* What div and mod compute.
LEMMA DivMod ==
    \A a \in Nat, W \in Nat \ {0} :
        a = (a \div W) * W + (a % W) /\ a % W \in 0..(W - 1) /\ a \div W \in Int
  OBVIOUS

\* Numbers that differ by a multiple of W have the same remainder.
LEMMA ModShift ==
    \A a \in Nat, b \in Nat, q \in Int, W \in Nat \ {0} : b = a + q * W => a % W = b % W
<1> SUFFICES ASSUME NEW a \in Nat, NEW b \in Nat, NEW q \in Int, NEW W \in Nat \ {0},
                    b = a + q * W
             PROVE  a % W = b % W
    OBVIOUS
<1>1. PICK qa \in Int : a = qa * W + (a % W)
  BY DivMod
<1>2. PICK qb \in Int : b = qb * W + (b % W)
  BY DivMod
<1>3. /\ a % W \in Int /\ a % W >= 0 /\ a % W < W
      /\ b % W \in Int /\ b % W >= 0 /\ b % W < W
  BY DivMod
<1>4. b % W = (a % W) + (qa + q - qb) * W
  <2>1. (qa + q - qb) * W = qa * W + q * W - qb * W
    OBVIOUS
  <2> QED BY <2>1, <1>1, <1>2, <1>3
<1>5. PICK k : k = qa + q - qb
  OBVIOUS
<1>6. k \in Int /\ b % W = (a % W) + k * W
  BY <1>4, <1>5
<1>7. k * W = 0
  BY <1>3, <1>6, OneRemainder
<1> QED BY <1>3, <1>6, <1>7

\* Numbers below W that differ by a multiple of W are equal.
LEMMA SmallEqual ==
    ASSUME NEW a \in Nat, NEW b \in Nat, NEW q \in Int, NEW W \in Nat \ {0},
           b = a + q * W, a < W, b < W
    PROVE  b = a
<1>1. a % W = b % W
  BY ModShift
<1> QED BY <1>1

(***************************************************************************)
(* The inductive invariant.                                                *)
(***************************************************************************)
IsSeq(s) == s \in Seq({s[k] : k \in 1..Len(s)})

ConnType ==
    /\ sent \in [Conn -> Seq(Items)] /\ consumed \in [Conn -> Nat]
    /\ wire \in [Conn -> Seq(Nat)] /\ buf \in [Conn -> Seq(Nat)]
    /\ pending \in [Conn -> Seq(Conn \X Nat \X Nat)]
    /\ handlerPC \in [Conn -> {"none", "start", "read", "count", "out", "done"}]
    /\ IsSeq(delivered)
CountType ==
    /\ metricsReceived \in 0..(Wrap - 1) /\ statRead \in 0..(Wrap - 1)
    /\ counted \in Nat /\ reported \in Nat /\ loaded \in 0..counted
    /\ statPC \in {"idle", "subtract"} /\ overrun \in BOOLEAN
PeerType == workerPC \in {"lines", "out"} => peer \in Peer

\* After Stop no goroutine is left that could send.
StoppedOK ==
    stopPC = "returned" =>
        /\ workerPC = "done" /\ acceptPC = "done"
        /\ \A c \in Conn : handlerPC[c] \in {"none", "done"}

\* The counter holds what Stat has read and not yet subtracted and what was
\* counted since, up to its wraps; and the reports are exact.
Held   == IF statPC = "subtract" THEN statRead ELSE 0
Wraps  == \E q \in Int : Held + (counted - loaded) = metricsReceived + q * Wrap
StatOK == Wraps /\ StatExact

\* The items of a connection that are not consumed are in bufio's buffer and
\* then in the socket's, in the order in which they were sent.
QueueOK ==
    \A c \in Conn :
        /\ consumed[c] + Len(buf[c]) + Len(wire[c]) = Len(sent[c])
        /\ \A k \in 1..Len(buf[c])  : buf[c][k] = consumed[c] + k
        /\ \A k \in 1..Len(wire[c]) : wire[c][k] = consumed[c] + Len(buf[c]) + k

\* While a handler sends, pending is a last piece of the item it has read.
Sending(c) ==
    LET item == sent[c][consumed[c]] IN
    /\ consumed[c] \in 1..Len(sent[c]) /\ Readable(item)
    /\ Len(pending[c]) \in 1..item.n
    /\ \A k \in 1..Len(pending[c]) :
          pending[c][k] = <<c, consumed[c], item.n - Len(pending[c]) + k>>
PendingOK ==
    \A c \in Conn : IF handlerPC[c] \in {"count", "out"} THEN Sending(c)
                                                         ELSE pending[c] = Empty

\* The j-th message of the i-th item is due, and not among the pending ones.
Passed(c, i, j) ==
    /\ i \in 1..consumed[c] /\ Readable(sent[c][i]) /\ j \in 1..sent[c][i].n
    /\ i = consumed[c] => j <= sent[c][i].n - Len(pending[c])

\* The messages that have passed, and no others, were delivered, in order.
Sound(c) ==
    \A k \in 1..Len(delivered) : delivered[k][1] = c =>
        \E i, j \in Nat : Passed(c, i, j) /\ delivered[k] = <<c, i, j>>
Complete(c) ==
    \A i, j \in Nat : Passed(c, i, j) => \E k \in 1..Len(delivered) : delivered[k] = <<c, i, j>>
InOrder(c) ==
    \A k, l \in 1..Len(delivered) :
        k < l /\ delivered[k][1] = c /\ delivered[l][1] = c => Earlier(delivered[k], delivered[l])
DeliveredOK == \A c \in Conn : Sound(c) /\ Complete(c) /\ InOrder(c)

ReceiverInv == /\ ConnType /\ CountType /\ PeerType
               /\ StoppedOK /\ StatOK
               /\ QueueOK /\ PendingOK /\ DeliveredOK

\* The invariant holds initially.
LEMMA InitInv == ReceiversInit => ReceiverInv
<1> SUFFICES ASSUME ReceiversInit PROVE ReceiverInv
    OBVIOUS
<1> USE ReceiverAssumption DEF ReceiversInit, Init, Empty
<1>1. ConnType
  <2>1. IsSeq(delivered)
    BY DEF IsSeq
  <2> QED BY <2>1 DEF ConnType
<1>2. CountType
  <2>1. overrun \in BOOLEAN /\ statPC \in {"idle", "subtract"}
    OBVIOUS
  <2>2. /\ metricsReceived \in 0..(Wrap - 1) /\ statRead \in 0..(Wrap - 1)
        /\ counted \in Nat /\ reported \in Nat /\ loaded \in 0..counted
    OBVIOUS
  <2> QED BY <2>1, <2>2 DEF CountType
<1>3. PeerType
  BY DEF PeerType
<1>4. StoppedOK
  BY DEF StoppedOK
<1>5. StatOK
  <2>1. Held + (counted - loaded) = metricsReceived + 0 * Wrap
    BY DEF Held
  <2> QED BY <2>1 DEF StatOK, Wraps, StatExact
<1>6. QueueOK
  BY DEF QueueOK
<1>7. PendingOK
  BY DEF PendingOK
<1>8. DeliveredOK
  BY DEF DeliveredOK, Sound, Complete, InOrder, Passed
<1> QED BY <1>1, <1>2, <1>3, <1>4, <1>5, <1>6, <1>7, <1>8 DEF ReceiverInv

(***************************************************************************)
(* What the parts of the invariant depend on.                              *)
(***************************************************************************)
ConnOK   == ConnType /\ QueueOK /\ PendingOK /\ DeliveredOK
CountOK  == CountType /\ StatOK

\* What only Stat changes.
reportVars == <<statPC, statRead, reported, loaded, overrun>>
connPart == <<scheme, sent, wire, buf, consumed, pending, handlerPC, delivered>>

\* Nothing is delivered, and nothing passes.
LEMMA SamePassed ==
    ASSUME DeliveredOK, delivered' = delivered,
           \A c \in Conn : \A i, j \in Nat : Passed(c, i, j)' <=> Passed(c, i, j)
    PROVE  DeliveredOK'
<1> SUFFICES ASSUME NEW c \in Conn PROVE (Sound(c) /\ Complete(c) /\ InOrder(c))'
    BY DEF DeliveredOK
<1>1. Sound(c) /\ Complete(c) /\ InOrder(c)
  BY DEF DeliveredOK
<1>2. Sound(c)'
  BY <1>1 DEF Sound
<1>3. Complete(c)'
  BY <1>1 DEF Complete
<1>4. InOrder(c)'
  BY <1>1 DEF InOrder, Earlier
<1> QED BY <1>2, <1>3, <1>4

\* A step that leaves the connections' reading and sending alone.
LEMMA ConnQuiet == ASSUME ConnOK, UNCHANGED connPart PROVE ConnOK'
<1> USE DEF connPart
<1>1. ConnType'
  BY DEF ConnOK, ConnType, IsSeq
<1>2. QueueOK'
  BY DEF ConnOK, QueueOK
<1>3. PendingOK'
  BY DEF ConnOK, PendingOK, Sending, Readable
<1>4. \A c \in Conn : \A i, j \in Nat : Passed(c, i, j)' <=> Passed(c, i, j)
  BY DEF Passed, Readable
<1>5. DeliveredOK'
  BY <1>4, SamePassed DEF ConnOK
<1> QED BY <1>1, <1>2, <1>3, <1>5 DEF ConnOK

\* A step that leaves the counters alone.
LEMMA CountQuiet == ASSUME CountOK, UNCHANGED <<metricsReceived, counted, reportVars>> PROVE CountOK'
  BY DEF CountOK, CountType, StatOK, Wraps, Held, StatExact, reportVars

\* A handler or the receive goroutine counts n points.
LEMMA Counting ==
    ASSUME CountOK, NEW n \in Nat,
           metricsReceived' = (metricsReceived + n) % Wrap, counted' = counted + n,
           UNCHANGED reportVars
    PROVE  CountOK'
<1> USE ReceiverAssumption
<1>1. PICK q \in Int : Held + (counted - loaded) = metricsReceived + q * Wrap
  BY DEF CountOK, StatOK, Wraps
<1>2. /\ metricsReceived \in Nat /\ counted \in Nat /\ loaded \in 0..counted
      /\ Held \in Nat /\ Held' = Held /\ loaded' = loaded
  BY DEF CountOK, CountType, Held, reportVars
<1>3. metricsReceived + n \in Nat
  BY <1>2
<1>4. PICK d \in Int : metricsReceived + n = d * Wrap + metricsReceived'
  BY <1>3, DivMod
<1>5. metricsReceived' \in 0..(Wrap - 1)
  BY <1>3, DivMod
<1>6. q + d \in Int /\ (q + d) * Wrap = q * Wrap + d * Wrap
  OBVIOUS
<1>7. Held' + (counted' - loaded') = metricsReceived' + (q + d) * Wrap
  BY <1>1, <1>2, <1>4, <1>5, <1>6
<1>8. Wraps'
  BY <1>6, <1>7 DEF Wraps
<1>9. StatExact'
  BY DEF CountOK, StatOK, StatExact, reportVars
<1>10. CountType'
  BY <1>2, <1>5 DEF CountOK, CountType, reportVars
<1> QED BY <1>8, <1>9, <1>10 DEF CountOK, StatOK

\* Stat reads the counter: with fewer than Wrap counted since the last load,
\* the counter is what was counted.
LEMMA Loading == ASSUME CountOK, StatLoad PROVE CountOK'
<1> USE ReceiverAssumption
<1>1. /\ statPC = "idle" /\ statPC' = "subtract" /\ statRead' = metricsReceived
      /\ loaded' = counted /\ overrun' = (overrun \/ counted - loaded >= Wrap)
      /\ metricsReceived' = metricsReceived /\ counted' = counted /\ reported' = reported
  BY DEF StatLoad, countVars
<1>2. /\ metricsReceived \in 0..(Wrap - 1) /\ counted \in Nat /\ loaded \in 0..counted
      /\ reported \in Nat /\ overrun \in BOOLEAN
  BY DEF CountOK, CountType
<1>3. PICK q \in Int : Held + (counted - loaded) = metricsReceived + q * Wrap
  BY DEF CountOK, StatOK, Wraps
<1>4. counted - loaded < Wrap => metricsReceived = counted - loaded
  <2> SUFFICES ASSUME counted - loaded < Wrap PROVE metricsReceived = counted - loaded
      OBVIOUS
  <2>1. PICK n \in Nat : n = counted - loaded
    BY <1>2
  <2>2. n = metricsReceived + q * Wrap
    BY <1>1, <1>2, <1>3, <2>1 DEF Held
  <2>3. metricsReceived \in Nat /\ n \in Nat /\ q \in Int /\ Wrap \in Nat \ {0}
    BY <1>2, <1>3, <2>1
  <2>4. n < Wrap /\ metricsReceived < Wrap
    BY <1>2, <2>1
  <2>5. n = metricsReceived
    BY ONLY <2>2, <2>3, <2>4, SmallEqual
  <2> QED BY <2>1, <2>5
<1>5. StatExact'
  <2> SUFFICES ASSUME ~overrun' PROVE reported' + statRead' = loaded'
      BY <1>1 DEF StatExact
  <2>1. ~overrun /\ ~(counted - loaded >= Wrap)
    BY <1>1, Zenon
  <2>2. reported = loaded
    BY <1>1, <1>2, <2>1 DEF CountOK, StatOK, StatExact
  <2>3. counted - loaded < Wrap
    BY <1>2, <2>1
  <2> QED BY <1>1, <1>2, <1>4, <2>2, <2>3
<1>6. Wraps'
  <2>1. Held' + (counted' - loaded') = metricsReceived' + 0 * Wrap
    BY <1>1, <1>2 DEF Held
  <2> QED BY <2>1 DEF Wraps
<1>7. CountType'
  BY <1>1, <1>2 DEF CountType
<1> QED BY <1>5, <1>6, <1>7 DEF CountOK, StatOK

\* Stat subtracts what it has read, whatever was counted in between.
LEMMA Subtracting == ASSUME CountOK, StatSubtract PROVE CountOK'
<1> USE ReceiverAssumption
<1>1. PICK q \in Int : Held + (counted - loaded) = metricsReceived + q * Wrap
  BY DEF CountOK, StatOK, Wraps
<1>2. /\ metricsReceived \in Nat /\ counted \in Nat /\ reported \in Nat
      /\ statRead \in 0..(Wrap - 1) /\ loaded \in 0..counted /\ overrun \in BOOLEAN
  BY DEF CountOK, CountType
<1>3. /\ statPC = "subtract" /\ statPC' = "idle"
      /\ metricsReceived' = (metricsReceived + (Wrap - statRead)) % Wrap
      /\ reported' = reported + statRead /\ counted' = counted /\ statRead' = statRead
      /\ loaded' = loaded /\ overrun' = overrun
  BY DEF StatSubtract
<1>4. metricsReceived + (Wrap - statRead) \in Nat
  BY <1>2
<1>5. PICK d \in Int : metricsReceived + (Wrap - statRead) = d * Wrap + metricsReceived'
  BY <1>3, <1>4, DivMod
<1>6. metricsReceived' \in 0..(Wrap - 1)
  BY <1>3, <1>4, DivMod
<1>7. q + d - 1 \in Int /\ (q + d - 1) * Wrap = q * Wrap + d * Wrap - Wrap
  OBVIOUS
<1>8. Held' + (counted' - loaded') = metricsReceived' + (q + d - 1) * Wrap
  <2>1. PICK x \in Int : x = q * Wrap
    OBVIOUS
  <2>2. PICK y \in Int : y = d * Wrap
    OBVIOUS
  <2>3. PICK z \in Int : z = (q + d - 1) * Wrap
    OBVIOUS
  <2>4. z = x + y - Wrap
    BY <1>7, <2>1, <2>2, <2>3
  <2>5. statRead + (counted - loaded) = metricsReceived + x
    BY <1>1, <1>3, <2>1 DEF Held
  <2>6. metricsReceived + (Wrap - statRead) = y + metricsReceived'
    BY <1>5, <2>2
  <2>7. Held' = 0
    BY <1>3 DEF Held
  <2>8. Held' + (counted' - loaded') = metricsReceived' + z
    BY <1>2, <1>3, <1>6, <2>4, <2>5, <2>6, <2>7
  <2> QED BY <2>3, <2>8
<1>9. Wraps'
  BY <1>7, <1>8 DEF Wraps
<1>10. StatExact'
  BY <1>2, <1>3 DEF CountOK, StatOK, StatExact
<1>11. CountType'
  BY <1>2, <1>3, <1>6 DEF CountType
<1> QED BY <1>9, <1>10, <1>11 DEF CountOK, StatOK

(***************************************************************************)
(* The steps of a connection.                                              *)
(***************************************************************************)
readPart == <<scheme, sent, wire, buf, consumed, pending, delivered>>

\* A handler goes on, and begins or ends no sending by it.
LEMMA HandlerMoves ==
    ASSUME ConnOK, NEW c \in Conn,
           NEW pc \in {"none", "start", "read", "count", "out", "done"},
           handlerPC' = [handlerPC EXCEPT ![c] = pc],
           pc \in {"count", "out"} <=> handlerPC[c] \in {"count", "out"},
           UNCHANGED readPart
    PROVE  ConnOK'
<1> USE DEF readPart
<1>1. ConnType'
  BY DEF ConnOK, ConnType, IsSeq
<1>2. QueueOK'
  BY DEF ConnOK, QueueOK
<1>3. PendingOK'
  <2> SUFFICES ASSUME NEW d \in Conn
               PROVE  (IF handlerPC[d] \in {"count", "out"} THEN Sending(d) ELSE pending[d] = Empty)'
      BY DEF PendingOK
  <2>1. handlerPC'[d] \in {"count", "out"} <=> handlerPC[d] \in {"count", "out"}
    BY DEF ConnOK, ConnType
  <2>2. IF handlerPC[d] \in {"count", "out"} THEN Sending(d) ELSE pending[d] = Empty
    BY DEF ConnOK, PendingOK
  <2>3. Sending(d)' <=> Sending(d)
    BY DEF Sending, Readable
  <2> QED BY <2>1, <2>2, <2>3
<1>4. \A d \in Conn : \A i, j \in Nat : Passed(d, i, j)' <=> Passed(d, i, j)
  BY DEF Passed, Readable
<1>5. DeliveredOK'
  BY <1>4, SamePassed DEF ConnOK
<1> QED BY <1>1, <1>2, <1>3, <1>5 DEF ConnOK

\* A client sends an item.
LEMMA ClientSends ==
    ASSUME ConnOK, NEW c \in Conn, NEW item \in Items, ClientSend(c, item) PROVE ConnOK'
<1>1. /\ sent' = [sent EXCEPT ![c] = Append(@, item)]
      /\ wire' = [wire EXCEPT ![c] = Append(@, Len(sent'[c]))]
      /\ UNCHANGED <<scheme, buf, consumed, pending, handlerPC, delivered>>
  BY DEF ClientSend, kindVars, connVars, outVars
<1>2. ConnType
  BY DEF ConnOK
<1>3. /\ sent[c] \in Seq(Items) /\ wire[c] \in Seq(Nat) /\ buf[c] \in Seq(Nat) /\ consumed[c] \in Nat
      /\ sent'[c] = Append(sent[c], item) /\ wire'[c] = Append(wire[c], Len(sent[c]) + 1)
      /\ \A d \in Conn : d # c => sent'[d] = sent[d] /\ wire'[d] = wire[d]
  BY <1>1, <1>2 DEF ConnType
<1>4. /\ Len(sent'[c]) = Len(sent[c]) + 1 /\ Len(wire'[c]) = Len(wire[c]) + 1
      /\ \A k \in 1..Len(sent[c]) : sent'[c][k] = sent[c][k]
      /\ \A k \in 1..Len(wire[c]) : wire'[c][k] = wire[c][k]
      /\ wire'[c][Len(wire[c]) + 1] = Len(sent[c]) + 1
      /\ Len(wire[c]) \in Nat /\ Len(buf[c]) \in Nat /\ Len(sent[c]) \in Nat
      /\ consumed[c] \in Nat
  BY <1>3
<1>5. /\ consumed[c] + Len(buf[c]) + Len(wire[c]) = Len(sent[c])
      /\ \A k \in 1..Len(buf[c])  : buf[c][k] = consumed[c] + k
      /\ \A k \in 1..Len(wire[c]) : wire[c][k] = consumed[c] + Len(buf[c]) + k
  BY DEF ConnOK, QueueOK
<1>6. ConnType'
  <2>1. sent' \in [Conn -> Seq(Items)]
    BY <1>1, <1>2, <1>3 DEF ConnType
  <2>2. wire' \in [Conn -> Seq(Nat)]
    BY <1>1, <1>2, <1>3, <1>4 DEF ConnType
  <2> QED BY <1>1, <1>2, <2>1, <2>2 DEF ConnType, IsSeq
<1>7. QueueOK'
  <2> SUFFICES ASSUME NEW d \in Conn
               PROVE  /\ consumed'[d] + Len(buf'[d]) + Len(wire'[d]) = Len(sent'[d])
                      /\ \A k \in 1..Len(buf'[d])  : buf'[d][k] = consumed'[d] + k
                      /\ \A k \in 1..Len(wire'[d]) : wire'[d][k] = consumed'[d] + Len(buf'[d]) + k
      BY DEF QueueOK
  <2>1. CASE d = c
    <3>1. PICK x, y, z, w \in Nat : /\ x = consumed[c] /\ y = Len(buf[c])
                                    /\ z = Len(wire[c]) /\ w = Len(sent[c])
      BY <1>4
    <3>2. x + y + z = w
      BY <1>5, <3>1
    <3>3. x + y + (z + 1) = w + 1
      BY <3>2
    <3>4. consumed[c] + Len(buf[c]) + Len(wire'[c]) = Len(sent'[c])
      BY <1>4, <3>1, <3>3
    <3>5. ASSUME NEW k \in 1..Len(wire'[c])
          PROVE  wire'[c][k] = consumed[c] + Len(buf[c]) + k
      <4>1. CASE k \in 1..Len(wire[c])
        BY <1>4, <1>5, <4>1
      <4>2. CASE k = z + 1
        BY <1>4, <3>1, <3>3, <4>2
      <4> QED BY <1>4, <3>1, <4>1, <4>2
    <3> QED BY <1>1, <1>5, <2>1, <3>4, <3>5
  <2>2. CASE d # c
    BY <1>1, <1>3, <2>2 DEF ConnOK, QueueOK
  <2> QED BY <2>1, <2>2
<1>8. \A d \in Conn : \A i \in 1..consumed[d] : sent'[d][i] = sent[d][i]
  <2> SUFFICES ASSUME NEW d \in Conn, NEW i \in 1..consumed[d] PROVE sent'[d][i] = sent[d][i]
      OBVIOUS
  <2>1. CASE d = c
    <3>1. i \in 1..Len(sent[c])
      BY <1>4, <1>5, <2>1, SMTT(20)
    <3> QED BY <1>4, <2>1, <3>1
  <2>2. CASE d # c
    BY <1>3, <2>2
  <2> QED BY <2>1, <2>2
<1>9. PendingOK'
  <2> SUFFICES ASSUME NEW d \in Conn
               PROVE  (IF handlerPC[d] \in {"count", "out"} THEN Sending(d) ELSE pending[d] = Empty)'
      BY DEF PendingOK
  <2>1. IF handlerPC[d] \in {"count", "out"} THEN Sending(d) ELSE pending[d] = Empty
    BY DEF ConnOK, PendingOK
  <2>2. Len(sent'[d]) \in Nat /\ Len(sent'[d]) >= Len(sent[d])
    <3>1. CASE d = c
      BY <1>4, <3>1
    <3>2. CASE d # c
      BY <1>2, <1>3, <3>2 DEF ConnType
    <3> QED BY <3>1, <3>2
  <2>3. ASSUME Sending(d) PROVE Sending(d)'
    <3>1. consumed[d] \in 1..Len(sent[d]) /\ consumed[d] \in 1..consumed[d]
      BY <2>3, <1>2 DEF Sending, ConnType
    <3>2. sent'[d][consumed[d]] = sent[d][consumed[d]]
      BY <1>8, <3>1
    <3>3. consumed[d] \in 1..Len(sent'[d])
      BY <2>2, <3>1, <1>2 DEF ConnType
    <3> QED BY <1>1, <2>3, <3>2, <3>3 DEF Sending, Readable
  <2> QED BY <1>1, <2>1, <2>3
<1>10. \A d \in Conn : \A i, j \in Nat : Passed(d, i, j)' <=> Passed(d, i, j)
  <2> SUFFICES ASSUME NEW d \in Conn, NEW i \in Nat, NEW j \in Nat
               PROVE  Passed(d, i, j)' <=> Passed(d, i, j)
      OBVIOUS
  <2>1. CASE i \in 1..consumed[d]
    <3>1. sent'[d][i] = sent[d][i]
      BY <1>8, <2>1
    <3> QED BY <1>1, <3>1 DEF Passed, Readable
  <2>2. CASE i \notin 1..consumed[d]
    BY <1>1, <2>2 DEF Passed
  <2> QED BY <2>1, <2>2
<1>11. DeliveredOK'
  BY <1>1, <1>10, SamePassed DEF ConnOK
<1> QED BY <1>6, <1>7, <1>9, <1>11 DEF ConnOK

\* A handler fills bufio's buffer from the socket.
LEMMA Fills == ASSUME ConnOK, NEW c \in Conn, Fill(c) PROVE ConnOK'
<1>1. UNCHANGED <<scheme, sent, consumed, pending, handlerPC, delivered>>
  BY DEF Fill, kindVars, connVars, clientVars, outVars
<1>2. ConnType
  BY DEF ConnOK
<1>3. /\ wire[c] \in Seq(Nat) /\ buf[c] = Empty /\ consumed[c] \in Nat
      /\ Len(wire[c]) \in Nat /\ wire[c] # Empty
  BY <1>2 DEF ConnType, Fill
<1>4. PICK k \in 1..Len(wire[c]) :
         /\ buf' = [buf EXCEPT ![c] = SubSeq(wire[c], 1, k)]
         /\ wire' = [wire EXCEPT ![c] = SubSeq(@, k + 1, Len(@))]
  <2>1. 1 \in 1..Len(wire[c])
    BY <1>3 DEF Empty
  <2> QED BY <2>1 DEF Fill
<1>5. /\ buf'[c] = SubSeq(wire[c], 1, k) /\ wire'[c] = SubSeq(wire[c], k + 1, Len(wire[c]))
      /\ \A d \in Conn : d # c => buf'[d] = buf[d] /\ wire'[d] = wire[d]
  BY <1>2, <1>4 DEF ConnType
<1>6. /\ buf'[c] \in Seq(Nat) /\ wire'[c] \in Seq(Nat)
      /\ Len(buf'[c]) = k /\ Len(wire'[c]) = Len(wire[c]) - k
      /\ \A l \in 1..k : buf'[c][l] = wire[c][l]
      /\ \A l \in 1..(Len(wire[c]) - k) : wire'[c][l] = wire[c][k + l]
  <2>1. \A l \in 1..k : wire[c][l] \in Nat
    BY <1>3
  <2>2. \A l \in 1..(Len(wire[c]) - k) : wire[c][k + l] \in Nat
    BY <1>3
  <2>3. SubSeq(wire[c], 1, k) = [l \in 1..k |-> wire[c][l]]
    BY <1>3
  <2>4. SubSeq(wire[c], k + 1, Len(wire[c])) = [l \in 1..(Len(wire[c]) - k) |-> wire[c][k + l]]
    BY <1>3
  <2> QED BY <1>3, <1>5, <2>1, <2>2, <2>3, <2>4, SMTT(20)
<1>7. ConnType'
  <2>1. buf' \in [Conn -> Seq(Nat)]
    BY <1>2, <1>4, <1>5, <1>6 DEF ConnType
  <2>2. wire' \in [Conn -> Seq(Nat)]
    BY <1>2, <1>4, <1>5, <1>6 DEF ConnType
  <2> QED BY <1>1, <1>2, <2>1, <2>2 DEF ConnType, IsSeq
<1>8. QueueOK'
  <2> SUFFICES ASSUME NEW d \in Conn
               PROVE  /\ consumed'[d] + Len(buf'[d]) + Len(wire'[d]) = Len(sent'[d])
                      /\ \A l \in 1..Len(buf'[d])  : buf'[d][l] = consumed'[d] + l
                      /\ \A l \in 1..Len(wire'[d]) : wire'[d][l] = consumed'[d] + Len(buf'[d]) + l
      BY DEF QueueOK
  <2>1. CASE d = c
    <3>1. PICK x, z \in Nat : x = consumed[c] /\ z = Len(wire[c])
      BY <1>3
    <3>2. x + z = Len(sent[c]) /\ \A l \in 1..z : wire[c][l] = x + l
      <4>1. Len(buf[c]) = 0
        BY <1>3 DEF Empty
      <4>2. /\ consumed[c] + 0 + Len(wire[c]) = Len(sent[c])
            /\ \A l \in 1..Len(wire[c]) : wire[c][l] = consumed[c] + 0 + l
        BY <4>1 DEF ConnOK, QueueOK
      <4> QED BY <3>1, <4>2
    <3>3. x + k + (z - k) = Len(sent[c])
      <4>1. x + k + (z - k) = x + z
        OBVIOUS
      <4> QED BY <3>2, <4>1
    <3>4. \A l \in 1..k : buf'[c][l] = x + l
      BY <1>6, <3>1, <3>2
    <3>5. ASSUME NEW l \in 1..(z - k) PROVE wire'[c][l] = x + k + l
      <4>1. k + l \in 1..z /\ x + k + l = x + (k + l)
        BY <3>1
      <4>2. wire[c][k + l] = x + (k + l)
        BY <3>2, <4>1
      <4>3. wire'[c][l] = wire[c][k + l]
        BY <1>6, <3>1
      <4> QED BY <4>1, <4>2, <4>3
    <3> QED BY <1>1, <1>6, <2>1, <3>1, <3>3, <3>4, <3>5
  <2>2. CASE d # c
    BY <1>1, <1>5, <2>2 DEF ConnOK, QueueOK
  <2> QED BY <2>1, <2>2
<1>9. PendingOK'
  BY <1>1 DEF ConnOK, PendingOK, Sending, Readable
<1>10. \A d \in Conn : \A i, j \in Nat : Passed(d, i, j)' <=> Passed(d, i, j)
  BY <1>1 DEF Passed, Readable
<1>11. DeliveredOK'
  BY <1>1, <1>10, SamePassed DEF ConnOK
<1> QED BY <1>7, <1>8, <1>9, <1>11 DEF ConnOK

\* A handler takes the next item from bufio's buffer: the one after the item
\* it has consumed.
LEMMA TakesNext ==
    ASSUME ConnOK, NEW c \in Conn, buf[c] # Empty,
           consumed' = [consumed EXCEPT ![c] = Head(buf[c])],
           buf' = [buf EXCEPT ![c] = Tail(@)],
           UNCHANGED <<sent, wire>>
    PROVE  /\ QueueOK'
           /\ consumed' \in [Conn -> Nat] /\ buf' \in [Conn -> Seq(Nat)]
           /\ Head(buf[c]) = consumed[c] + 1 /\ consumed'[c] = consumed[c] + 1
           /\ consumed[c] + 1 \in 1..Len(sent[c])
           /\ \A d \in Conn : d # c => consumed'[d] = consumed[d]
<1>1. ConnType
  BY DEF ConnOK
<1>2. PICK x, y, z \in Nat : x = consumed[c] /\ y = Len(buf[c]) /\ z = Len(wire[c])
  BY <1>1 DEF ConnType
<1>3. buf[c] \in Seq(Nat) /\ y >= 1
  BY <1>1, <1>2 DEF ConnType, Empty
<1>4. /\ x + y + z = Len(sent[c])
      /\ \A k \in 1..y : buf[c][k] = x + k
      /\ \A k \in 1..z : wire[c][k] = x + y + k
  BY <1>2 DEF ConnOK, QueueOK
<1>5. Head(buf[c]) = x + 1
  BY <1>2, <1>3, <1>4
<1>6. /\ consumed'[c] = x + 1 /\ buf'[c] = Tail(buf[c])
      /\ \A d \in Conn : d # c => consumed'[d] = consumed[d] /\ buf'[d] = buf[d]
  BY <1>1, <1>5 DEF ConnType
<1>7. Tail(buf[c]) \in Seq(Nat) /\ Len(Tail(buf[c])) = y - 1
      /\ \A k \in 1..(y - 1) : Tail(buf[c])[k] = buf[c][k + 1]
  BY <1>2, <1>3
<1>8. consumed' \in [Conn -> Nat]
  BY <1>1, <1>5 DEF ConnType
<1>9. buf' \in [Conn -> Seq(Nat)]
  BY <1>1, <1>7 DEF ConnType
<1>10. x + 1 \in 1..Len(sent[c])
  BY <1>3, <1>4
<1>11. QueueOK'
  <2> SUFFICES ASSUME NEW d \in Conn
               PROVE  /\ consumed'[d] + Len(buf'[d]) + Len(wire'[d]) = Len(sent'[d])
                      /\ \A k \in 1..Len(buf'[d])  : buf'[d][k] = consumed'[d] + k
                      /\ \A k \in 1..Len(wire'[d]) : wire'[d][k] = consumed'[d] + Len(buf'[d]) + k
      BY DEF QueueOK
  <2>1. CASE d = c
    <3>1. (x + 1) + (y - 1) + z = Len(sent[c])
      BY <1>4
    <3>2. ASSUME NEW k \in 1..(y - 1) PROVE Tail(buf[c])[k] = (x + 1) + k
      <4>1. k + 1 \in 1..y
        OBVIOUS
      <4>2. buf[c][k + 1] = x + (k + 1)
        BY <1>4, <4>1
      <4> QED BY <1>7, <4>2
    <3>3. ASSUME NEW k \in 1..z PROVE wire[c][k] = (x + 1) + (y - 1) + k
      BY <1>4
    <3>4. /\ consumed'[c] = x + 1 /\ buf'[c] = Tail(buf[c]) /\ Len(buf'[c]) = y - 1
          /\ wire'[c] = wire[c] /\ Len(wire'[c]) = z /\ sent'[c] = sent[c]
      BY <1>2, <1>6, <1>7
    <3>5. consumed'[c] + Len(buf'[c]) + Len(wire'[c]) = Len(sent'[c])
      BY <3>1, <3>4
    <3>6. \A k \in 1..Len(buf'[c])  : buf'[c][k] = consumed'[c] + k
      BY <3>2, <3>4
    <3>7. \A k \in 1..Len(wire'[c]) : wire'[c][k] = consumed'[c] + Len(buf'[c]) + k
      BY <3>3, <3>4
    <3> QED BY <2>1, <3>5, <3>6, <3>7
  <2>2. CASE d # c
    BY <1>6, <2>2 DEF ConnOK, QueueOK
  <2> QED BY <2>1, <2>2
<1> QED BY <1>2, <1>5, <1>6, <1>8, <1>9, <1>10, <1>11

\* Taking an item that does not parse, or that is all pending, passes nothing.
LEMMA TakesPassNothing ==
    ASSUME ConnType, NEW c \in Conn, pending[c] = Empty,
           consumed[c] + 1 \in 1..Len(sent[c]), consumed'[c] = consumed[c] + 1,
           \/ ~Readable(sent[c][consumed[c] + 1])
           \/ Len(pending'[c]) = sent[c][consumed[c] + 1].n,
           \A d \in Conn : d # c => consumed'[d] = consumed[d] /\ pending'[d] = pending[d],
           UNCHANGED <<scheme, sent>>
    PROVE  \A d \in Conn : \A i, j \in Nat : Passed(d, i, j)' <=> Passed(d, i, j)
<1> SUFFICES ASSUME NEW d \in Conn, NEW i \in Nat, NEW j \in Nat
             PROVE  Passed(d, i, j)' <=> Passed(d, i, j)
    OBVIOUS
<1>1. CASE d # c
  BY <1>1 DEF Passed, Readable
<1>2. CASE d = c
  <2>1. PICK x \in Nat : x = consumed[c]
    BY DEF ConnType
  <2>2. \A k \in 1..Len(sent[c]) : sent[c][k].n \in Nat
    <3>1. sent[c] \in Seq(Items)
      BY DEF ConnType
    <3> QED BY <3>1, ReceiverAssumption
  <2>3. Len(pending[c]) = 0
    BY DEF Empty
  <2>4. CASE i \in 1..x
    <3>1. i \in 1..(x + 1) /\ i # x + 1
      BY <2>4
    <3>2. Passed(c, i, j)' <=> Readable(sent[c][i]) /\ j \in 1..sent[c][i].n
      BY <2>1, <3>1 DEF Passed, Readable
    <3>3. i \in 1..Len(sent[c])
      BY <2>1, <2>4 DEF ConnType
    <3>4. j \in 1..sent[c][i].n => j <= sent[c][i].n - 0
      BY <2>2, <3>3
    <3>5. Passed(c, i, j) <=> Readable(sent[c][i]) /\ j \in 1..sent[c][i].n
      BY <2>1, <2>3, <2>4, <3>4 DEF Passed
    <3> QED BY <1>2, <3>2, <3>5
  <2>5. CASE i = x + 1
    <3>1. ~Passed(c, i, j)
      BY <2>1, <2>5 DEF Passed
    <3>2. ASSUME Passed(c, i, j)' PROVE FALSE
      <4>1. Readable(sent[c][i]) /\ j \in 1..sent[c][i].n /\ j <= sent[c][i].n - Len(pending'[c])
        BY <2>1, <2>5, <3>2 DEF Passed, Readable
      <4>2. Len(pending'[c]) = sent[c][i].n /\ sent[c][i].n \in Nat
        BY <2>1, <2>2, <2>5, <4>1
      <4>3. sent[c][i].n - sent[c][i].n = 0
        BY <4>2
      <4> QED BY <4>1, <4>2, <4>3
    <3> QED BY <1>2, <3>1, <3>2
  <2>6. CASE i \notin 1..(x + 1)
    <3>1. i \notin 1..x
      BY <2>6
    <3> QED BY <1>2, <2>1, <2>6, <3>1 DEF Passed
  <2> QED BY <2>4, <2>5, <2>6
<1> QED BY <1>1, <1>2

\* A handler reads an item that parses.
LEMMA ItemRead == ASSUME ConnOK, NEW c \in Conn, ReadItem(c) PROVE ConnOK'
<1>1. ConnType
  BY DEF ConnOK
<1>2. /\ handlerPC[c] = "read" /\ buf[c] # Empty
      /\ consumed' = [consumed EXCEPT ![c] = Head(buf[c])]
      /\ buf' = [buf EXCEPT ![c] = Tail(@)]
      /\ UNCHANGED <<scheme, sent, wire, delivered>>
  BY DEF ReadItem, kindVars, clientVars, outVars
<1>3. /\ QueueOK'
      /\ consumed' \in [Conn -> Nat] /\ buf' \in [Conn -> Seq(Nat)]
      /\ Head(buf[c]) = consumed[c] + 1 /\ consumed'[c] = consumed[c] + 1
      /\ consumed[c] + 1 \in 1..Len(sent[c])
      /\ \A d \in Conn : d # c => consumed'[d] = consumed[d]
  BY <1>2, TakesNext
<1>4. PICK x : x = consumed[c] + 1
  OBVIOUS
<1>5. PICK item : item = sent[c][x]
  OBVIOUS
<1>6. item.n \in Nat /\ x \in Nat
  <2>1. sent[c] \in Seq(Items) /\ x \in 1..Len(sent[c])
    BY <1>1, <1>3, <1>4 DEF ConnType
  <2> QED BY <1>5, <2>1, ReceiverAssumption
<1>7. /\ Readable(item)
      /\ pending' = [pending EXCEPT ![c] = [j \in 1..item.n |-> <<c, x, j>>]]
      /\ handlerPC' = [handlerPC EXCEPT ![c] = IF pending'[c] = Empty THEN "read" ELSE "count"]
  BY <1>3, <1>4, <1>5 DEF ReadItem, Messages
<1>8. /\ pending'[c] = [j \in 1..item.n |-> <<c, x, j>>]
      /\ \A d \in Conn : d # c => pending'[d] = pending[d] /\ handlerPC'[d] = handlerPC[d]
      /\ handlerPC'[c] = IF pending'[c] = Empty THEN "read" ELSE "count"
  BY <1>1, <1>7 DEF ConnType
<1>9. pending'[c] \in Seq(Conn \X Nat \X Nat) /\ Len(pending'[c]) = item.n
  BY <1>6, <1>8
<1>10. ConnType'
  <2>1. pending' \in [Conn -> Seq(Conn \X Nat \X Nat)]
    BY <1>1, <1>7, <1>8, <1>9 DEF ConnType
  <2>2. handlerPC' \in [Conn -> {"none", "start", "read", "count", "out", "done"}]
    BY <1>1, <1>7 DEF ConnType
  <2>3. IsSeq(delivered)'
    BY <1>1, <1>2 DEF ConnType, IsSeq
  <2>4. sent' \in [Conn -> Seq(Items)] /\ wire' \in [Conn -> Seq(Nat)]
    BY <1>1, <1>2 DEF ConnType
  <2> QED BY <1>3, <2>1, <2>2, <2>3, <2>4 DEF ConnType
<1>11. PendingOK'
  <2> SUFFICES ASSUME NEW d \in Conn
               PROVE  (IF handlerPC[d] \in {"count", "out"} THEN Sending(d) ELSE pending[d] = Empty)'
      BY DEF PendingOK
  <2>1. CASE d = c /\ pending'[c] = Empty
    BY <1>8, <2>1
  <2>2. CASE d = c /\ pending'[c] # Empty
    <3>1. handlerPC'[c] = "count"
      BY <1>8, <2>2
    <3>2. Len(pending'[c]) # 0
      BY <1>9, <2>2 DEF Empty
    <3>3. Len(pending'[c]) \in 1..item.n
      BY <1>6, <1>9, <3>2
    <3>4. \A k \in 1..item.n : pending'[c][k] = <<c, x, item.n - item.n + k>>
      <4>1. \A k \in 1..item.n : item.n - item.n + k = k
        BY <1>6
      <4> QED BY <1>8, <4>1
    <3>5. sent'[c][consumed'[c]] = item /\ consumed'[c] = x /\ x \in 1..Len(sent'[c])
      BY <1>2, <1>3, <1>4, <1>5
    <3>6. Readable(item)'
      BY <1>2, <1>7 DEF Readable
    <3>7. \A k \in 1..Len(pending'[c]) : pending'[c][k] = <<c, x, item.n - Len(pending'[c]) + k>>
      BY <1>9, <3>4
    <3>8. Sending(c)'
      BY <3>3, <3>5, <3>6, <3>7 DEF Sending, Readable
    <3> QED BY <2>2, <3>1, <3>8
  <2>3. CASE d # c
    <3>1. IF handlerPC[d] \in {"count", "out"} THEN Sending(d) ELSE pending[d] = Empty
      BY DEF ConnOK, PendingOK
    <3>2. Sending(d)' <=> Sending(d)
      BY <1>2, <1>3, <1>8, <2>3 DEF Sending, Readable
    <3> QED BY <1>8, <2>3, <3>1, <3>2
  <2> QED BY <2>1, <2>2, <2>3
<1>12. pending[c] = Empty
  BY <1>2 DEF ConnOK, PendingOK
<1>13. \A d \in Conn : \A i, j \in Nat : Passed(d, i, j)' <=> Passed(d, i, j)
  <2>1. Len(pending'[c]) = sent[c][consumed[c] + 1].n
    BY <1>4, <1>5, <1>9
  <2> QED BY <1>1, <1>2, <1>3, <1>8, <1>12, <2>1, TakesPassNothing
<1>14. DeliveredOK'
  BY <1>2, <1>13, SamePassed DEF ConnOK
<1> QED BY <1>3, <1>10, <1>11, <1>14 DEF ConnOK

\* A handler reads an item that does not parse.
LEMMA BadRead == ASSUME ConnOK, NEW c \in Conn, ReadBad(c) PROVE ConnOK'
<1>1. ConnType
  BY DEF ConnOK
<1>2. /\ handlerPC[c] = "read" /\ buf[c] # Empty
      /\ ~Readable(sent[c][Head(buf[c])])
      /\ consumed' = [consumed EXCEPT ![c] = Head(buf[c])]
      /\ buf' = [buf EXCEPT ![c] = Tail(@)]
      /\ handlerPC' = handlerPC \/ handlerPC' = [handlerPC EXCEPT ![c] = "done"]
      /\ UNCHANGED <<scheme, sent, wire, delivered, pending>>
  BY DEF ReadBad, Return, kindVars, clientVars, outVars
<1>3. /\ QueueOK'
      /\ consumed' \in [Conn -> Nat] /\ buf' \in [Conn -> Seq(Nat)]
      /\ Head(buf[c]) = consumed[c] + 1 /\ consumed'[c] = consumed[c] + 1
      /\ consumed[c] + 1 \in 1..Len(sent[c])
      /\ \A d \in Conn : d # c => consumed'[d] = consumed[d]
  BY <1>2, TakesNext
<1>4. /\ handlerPC'[c] \in {"read", "done"}
      /\ \A d \in Conn : d # c => handlerPC'[d] = handlerPC[d]
      /\ handlerPC' \in [Conn -> {"none", "start", "read", "count", "out", "done"}]
  BY <1>1, <1>2 DEF ConnType
<1>5. ConnType'
  BY <1>1, <1>2, <1>3, <1>4, SMTT(20) DEF ConnType, IsSeq
<1>6. pending[c] = Empty
  BY <1>2 DEF ConnOK, PendingOK
<1>7. PendingOK'
  <2> SUFFICES ASSUME NEW d \in Conn
               PROVE  (IF handlerPC[d] \in {"count", "out"} THEN Sending(d) ELSE pending[d] = Empty)'
      BY DEF PendingOK
  <2>1. CASE d = c
    BY <1>2, <1>4, <1>6, <2>1
  <2>2. CASE d # c
    <3>1. IF handlerPC[d] \in {"count", "out"} THEN Sending(d) ELSE pending[d] = Empty
      BY DEF ConnOK, PendingOK
    <3>2. Sending(d)' <=> Sending(d)
      BY <1>2, <1>3, <2>2 DEF Sending, Readable
    <3> QED BY <1>2, <1>4, <2>2, <3>1, <3>2
  <2> QED BY <2>1, <2>2
<1>8. \A d \in Conn : \A i, j \in Nat : Passed(d, i, j)' <=> Passed(d, i, j)
  <2>1. ~Readable(sent[c][consumed[c] + 1])
    BY <1>2, <1>3
  <2> QED BY <1>1, <1>2, <1>3, <1>6, <2>1, TakesPassNothing
<1>9. DeliveredOK'
  BY <1>2, <1>8, SamePassed DEF ConnOK
<1> QED BY <1>3, <1>5, <1>7, <1>9 DEF ConnOK

\* Appending to a sequence.
LEMMA Appended ==
    ASSUME NEW s, IsSeq(s), NEW e
    PROVE  /\ IsSeq(Append(s, e)) /\ Len(s) \in Nat /\ Len(Append(s, e)) = Len(s) + 1
           /\ \A k \in 1..Len(s) : Append(s, e)[k] = s[k]
           /\ Append(s, e)[Len(s) + 1] = e
<1>1. PICK S : S = {s[k] : k \in 1..Len(s)}
  OBVIOUS
<1>2. s \in Seq(S) /\ s \in Seq(S \cup {e})
  <2>1. s \in Seq(S)
    BY <1>1 DEF IsSeq
  <2>2. \A k \in 1..Len(s) : s[k] \in S \cup {e}
    BY <2>1
  <2> QED BY <2>1, <2>2
<1>3. PICK t : t = Append(s, e)
  OBVIOUS
<1>4. /\ t \in Seq(S \cup {e}) /\ Len(s) \in Nat /\ Len(t) = Len(s) + 1
      /\ \A k \in 1..Len(s) : t[k] = s[k]
      /\ t[Len(s) + 1] = e
  BY <1>2, <1>3
<1>5. IsSeq(t)
  <2>1. \A k \in 1..Len(t) : t[k] \in {t[l] : l \in 1..Len(t)}
    OBVIOUS
  <2>2. t = [k \in 1..Len(t) |-> t[k]] /\ Len(t) \in Nat
    BY <1>4
  <2> QED BY <2>1, <2>2 DEF IsSeq
<1> QED BY <1>3, <1>4, <1>5

\* A message of nobody's connection is delivered.
LEMMA ForeignDelivered ==
    ASSUME ConnType, NEW e, NEW c \in Conn, Sound(c), Complete(c), InOrder(c),
           delivered' = Append(delivered, e), e[1] # c,
           \A i, j \in Nat : Passed(c, i, j)' <=> Passed(c, i, j)
    PROVE  (Sound(c) /\ Complete(c) /\ InOrder(c))'
<1>1. PICK n \in Nat :
         /\ n = Len(delivered) /\ Len(delivered') = n + 1
         /\ \A k \in 1..n : delivered'[k] = delivered[k]
         /\ delivered'[n + 1] = e
  <2>1. IsSeq(delivered)
    BY DEF ConnType
  <2>2. /\ Len(delivered) \in Nat /\ Len(Append(delivered, e)) = Len(delivered) + 1
        /\ \A k \in 1..Len(delivered) : Append(delivered, e)[k] = delivered[k]
        /\ Append(delivered, e)[Len(delivered) + 1] = e
    BY <2>1, Appended
  <2> QED BY <2>2
<1>2. \A k \in 1..(n + 1) : delivered'[k][1] = c => k \in 1..n
  BY <1>1
<1>3. Sound(c)'
  BY <1>1, <1>2 DEF Sound
<1>4. Complete(c)'
  <2> SUFFICES ASSUME NEW i \in Nat, NEW j \in Nat, Passed(c, i, j)'
               PROVE  \E k \in 1..Len(delivered') : delivered'[k] = <<c, i, j>>
      BY DEF Complete
  <2>1. Passed(c, i, j)
    OBVIOUS
  <2>2. PICK k \in 1..n : delivered[k] = <<c, i, j>>
    BY <1>1, <2>1 DEF Complete
  <2>3. k \in 1..(n + 1) /\ delivered'[k] = <<c, i, j>>
    BY <1>1, <2>2
  <2> QED BY <1>1, <2>3
<1>5. InOrder(c)'
  BY <1>1, <1>2 DEF InOrder, Earlier
<1> QED BY <1>3, <1>4, <1>5

\* A handler's next message is delivered.
LEMMA OwnDelivered ==
    ASSUME ConnType, NEW c \in Conn, Sound(c), Complete(c), InOrder(c), Sending(c),
           delivered' = Append(delivered, Head(pending[c])),
           pending'[c] = Tail(pending[c]),
           UNCHANGED <<scheme, sent, consumed>>
    PROVE  (Sound(c) /\ Complete(c) /\ InOrder(c))'
<1>1. PICK x : x = consumed[c]
  OBVIOUS
<1>2. PICK item : item = sent[c][x]
  OBVIOUS
<1>3. PICK p : p = Len(pending[c])
  OBVIOUS
<1>4. /\ x \in Nat /\ x \in 1..Len(sent[c]) /\ Readable(item) /\ x \in 1..x
      /\ p \in 1..item.n
      /\ \A k \in 1..p : pending[c][k] = <<c, x, item.n - p + k>>
      /\ pending[c] \in Seq(Conn \X Nat \X Nat)
  <2>1. consumed[c] \in Nat /\ pending[c] \in Seq(Conn \X Nat \X Nat)
    BY DEF ConnType
  <2>2. /\ x \in 1..Len(sent[c]) /\ Readable(item) /\ p \in 1..item.n
        /\ \A k \in 1..p : pending[c][k] = <<c, x, item.n - p + k>>
    BY <1>1, <1>2, <1>3 DEF Sending
  <2>3. x \in Nat /\ x \in 1..x
    BY <1>1, <2>1, <2>2
  <2> QED BY <2>1, <2>2, <2>3
<1>5. item.n \in Nat /\ p \in Nat /\ p >= 1 /\ p <= item.n
  <2>1. sent[c] \in Seq(Items)
    BY DEF ConnType
  <2>2. item.n \in Nat
    BY <1>2, <1>4, <2>1, ReceiverAssumption, SMTT(20)
  <2> QED BY <1>4, <2>2
<1>6. PICK y \in Nat : y = item.n - p + 1 /\ y \in 1..item.n
  BY <1>5
<1>7. Head(pending[c]) = <<c, x, y>> /\ Len(pending'[c]) = p - 1
  <2>1. 1 \in 1..p
    BY <1>5
  <2>2. Head(pending[c]) = pending[c][1] /\ Len(Tail(pending[c])) = p - 1
    BY <1>3, <1>4, <1>5
  <2> QED BY <1>4, <1>6, <2>1, <2>2
<1>8. ASSUME NEW i \in Nat, NEW j \in Nat
      PROVE  Passed(c, i, j)' <=> Passed(c, i, j) \/ (i = x /\ j = y)
  <2>1. CASE i = x
    <3>1. Passed(c, i, j) <=> j \in 1..item.n /\ j <= item.n - p
      BY <1>1, <1>2, <1>3, <1>4, <2>1 DEF Passed
    <3>2. Passed(c, i, j)' <=> j \in 1..item.n /\ j <= item.n - (p - 1)
      BY <1>1, <1>2, <1>4, <1>7, <2>1 DEF Passed, Readable
    <3>3. j \in 1..item.n /\ j <= item.n - (p - 1)
             <=> (j \in 1..item.n /\ j <= item.n - p) \/ j = y
      BY <1>5, <1>6
    <3> QED BY <2>1, <3>1, <3>2, <3>3
  <2>2. CASE i # x
    BY <1>1, <2>2 DEF Passed, Readable
  <2> QED BY <2>1, <2>2
<1>9. PICK n \in Nat :
         /\ n = Len(delivered) /\ Len(delivered') = n + 1
         /\ \A k \in 1..n : delivered'[k] = delivered[k]
         /\ delivered'[n + 1] = <<c, x, y>>
  <2>1. IsSeq(delivered)
    BY DEF ConnType
  <2>2. PICK e : e = Head(pending[c])
    OBVIOUS
  <2>3. /\ Len(delivered) \in Nat /\ Len(Append(delivered, e)) = Len(delivered) + 1
        /\ \A k \in 1..Len(delivered) : Append(delivered, e)[k] = delivered[k]
        /\ Append(delivered, e)[Len(delivered) + 1] = e
    BY <2>1, Appended, ZenonT(40)
  <2>4. e = <<c, x, y>> /\ delivered' = Append(delivered, e)
    BY <1>7, <2>2
  <2> QED BY <2>3, <2>4
<1>10. Sound(c)'
  <2> SUFFICES ASSUME NEW k \in 1..(n + 1), delivered'[k][1] = c
               PROVE  \E i, j \in Nat : Passed(c, i, j)' /\ delivered'[k] = <<c, i, j>>
      BY <1>9 DEF Sound
  <2>1. CASE k \in 1..n
    <3>1. PICK i \in Nat, j \in Nat : Passed(c, i, j) /\ delivered[k] = <<c, i, j>>
      BY <1>9, <2>1 DEF Sound
    <3> QED BY <1>8, <1>9, <2>1, <3>1
  <2>2. CASE k = n + 1
    <3>1. Passed(c, x, y)'
      BY <1>4, <1>6, <1>8
    <3> QED BY <1>4, <1>6, <1>9, <2>2, <3>1
  <2>3. k \in 1..n \/ k = n + 1
    OBVIOUS
  <2> QED BY <2>1, <2>2, <2>3
<1>11. Complete(c)'
  <2> SUFFICES ASSUME NEW i \in Nat, NEW j \in Nat, Passed(c, i, j)'
               PROVE  \E k \in 1..Len(delivered') : delivered'[k] = <<c, i, j>>
      BY DEF Complete
  <2>1. CASE Passed(c, i, j)
    <3>1. PICK k \in 1..n : delivered[k] = <<c, i, j>>
      BY <1>9, <2>1 DEF Complete
    <3>2. k \in 1..(n + 1) /\ delivered'[k] = <<c, i, j>>
      BY <1>9, <3>1
    <3> QED BY <1>9, <3>2
  <2>2. CASE i = x /\ j = y
    <3>1. n + 1 \in 1..(n + 1)
      OBVIOUS
    <3> QED BY <1>9, <2>2, <3>1
  <2> QED BY <1>8, <2>1, <2>2
<1>12. InOrder(c)'
  <2> SUFFICES ASSUME NEW k \in 1..(n + 1), NEW l \in 1..(n + 1), k < l,
                      delivered'[k][1] = c, delivered'[l][1] = c
               PROVE  Earlier(delivered'[k], delivered'[l])
      BY <1>9 DEF InOrder, Earlier
  <2>1. k \in 1..n
    OBVIOUS
  <2>2. CASE l \in 1..n
    BY <1>9, <2>1, <2>2 DEF InOrder
  <2>3. CASE l = n + 1
    <3>1. PICK i \in Nat, j \in Nat : Passed(c, i, j) /\ delivered[k] = <<c, i, j>>
      BY <1>9, <2>1 DEF Sound
    <3>2. i < x \/ (i = x /\ j < y)
      <4>1. i \in 1..x /\ (i = x => j <= item.n - p)
        BY <1>1, <1>2, <1>3, <3>1 DEF Passed
      <4> QED BY <1>4, <1>5, <1>6, <4>1
    <3>3. delivered'[k] = <<c, i, j>> /\ delivered'[l] = <<c, x, y>>
      BY <1>9, <2>1, <2>3, <3>1
    <3>4. /\ delivered'[k][2] = i /\ delivered'[k][3] = j
          /\ delivered'[l][2] = x /\ delivered'[l][3] = y
      <4>1. /\ <<c, i, j>>[2] = i /\ <<c, i, j>>[3] = j
            /\ <<c, x, y>>[2] = x /\ <<c, x, y>>[3] = y
        OBVIOUS
      <4> QED BY <3>3, <4>1
    <3> QED BY <3>2, <3>4 DEF Earlier
  <2>4. l \in 1..n \/ l = n + 1
    OBVIOUS
  <2> QED BY <2>2, <2>3, <2>4
<1> QED BY <1>10, <1>11, <1>12

\* A handler's message enters the input channel.
LEMMA MessageOut == ASSUME ConnOK, NEW c \in Conn, Out(c) PROVE ConnOK'
<1>1. ConnType
  BY DEF ConnOK
<1>2. /\ handlerPC[c] = "out"
      /\ delivered' = Append(delivered, Head(pending[c]))
      /\ pending' = [pending EXCEPT ![c] = Tail(@)]
      /\ handlerPC' = [handlerPC EXCEPT ![c] = IF Len(pending[c]) > 1 THEN "count" ELSE "read"]
      /\ UNCHANGED <<scheme, sent, wire, buf, consumed>>
  BY DEF Out, kindVars, clientVars
<1>3. Sending(c)
  BY <1>2 DEF ConnOK, PendingOK
<1>4. PICK x : x = consumed[c]
  OBVIOUS
<1>5. PICK item : item = sent[c][x]
  OBVIOUS
<1>6. PICK p : p = Len(pending[c])
  OBVIOUS
<1>7. /\ x \in 1..Len(sent[c]) /\ Readable(item) /\ p \in 1..item.n
      /\ \A k \in 1..p : pending[c][k] = <<c, x, item.n - p + k>>
  BY <1>3, <1>4, <1>5, <1>6 DEF Sending
<1>8. item.n \in Nat /\ p \in Nat /\ p >= 1 /\ p <= item.n
  <2>1. sent[c] \in Seq(Items)
    BY <1>1 DEF ConnType
  <2>2. item \in Items
    BY <1>5, <1>7, <2>1
  <2>3. item.n \in Nat
    BY <2>2, ReceiverAssumption
  <2> QED BY <1>7, <2>3
<1>9. pending[c] \in Seq(Conn \X Nat \X Nat)
  BY <1>1 DEF ConnType
<1>10. /\ Tail(pending[c]) \in Seq(Conn \X Nat \X Nat) /\ Len(Tail(pending[c])) = p - 1
       /\ \A k \in 1..(p - 1) : Tail(pending[c])[k] = pending[c][k + 1]
       /\ Head(pending[c]) = pending[c][1]
  BY <1>6, <1>8, <1>9
<1>11. /\ pending'[c] = Tail(pending[c])
       /\ handlerPC'[c] = IF p > 1 THEN "count" ELSE "read"
       /\ \A d \in Conn : d # c => pending'[d] = pending[d] /\ handlerPC'[d] = handlerPC[d]
  BY <1>1, <1>2, <1>6 DEF ConnType
<1>12. ConnType'
  <2>1. pending' \in [Conn -> Seq(Conn \X Nat \X Nat)]
    BY <1>1, <1>2, <1>10 DEF ConnType
  <2>2. handlerPC' \in [Conn -> {"none", "start", "read", "count", "out", "done"}]
    BY <1>1, <1>2 DEF ConnType
  <2>3. IsSeq(delivered')
    BY <1>1, <1>2, Appended DEF ConnType
  <2>4. sent' \in [Conn -> Seq(Items)] /\ wire' \in [Conn -> Seq(Nat)]
        /\ buf' \in [Conn -> Seq(Nat)] /\ consumed' \in [Conn -> Nat]
    BY <1>1, <1>2 DEF ConnType
  <2> QED BY <2>1, <2>2, <2>3, <2>4 DEF ConnType, IsSeq
<1>13. QueueOK'
  BY <1>2 DEF ConnOK, QueueOK
<1>14. PendingOK'
  <2> SUFFICES ASSUME NEW d \in Conn
               PROVE  (IF handlerPC[d] \in {"count", "out"} THEN Sending(d) ELSE pending[d] = Empty)'
      BY DEF PendingOK
  <2>1. CASE d = c /\ p > 1
    <3>1. p - 1 \in 1..item.n
      BY <1>8, <2>1
    <3>2. ASSUME NEW k \in 1..(p - 1)
          PROVE  Tail(pending[c])[k] = <<c, x, item.n - (p - 1) + k>>
      <4>1. k + 1 \in 1..p /\ item.n - p + (k + 1) = item.n - (p - 1) + k
        BY <1>8
      <4> QED BY <1>7, <1>10, <4>1
    <3>3. sent'[c][consumed'[c]] = item /\ consumed'[c] = x /\ x \in 1..Len(sent'[c])
      BY <1>2, <1>4, <1>5, <1>7
    <3>4. Readable(item)'
      BY <1>2, <1>7 DEF Readable
    <3>5. Len(pending'[c]) = p - 1 /\ pending'[c] = Tail(pending[c])
      BY <1>10, <1>11
    <3>6. Sending(c)'
      BY <3>1, <3>2, <3>3, <3>4, <3>5 DEF Sending, Readable
    <3> QED BY <1>11, <2>1, <3>6
  <2>2. CASE d = c /\ ~(p > 1)
    <3>1. PICK t : t = Tail(pending[c])
      OBVIOUS
    <3>2. p = 1
      BY <1>8, <2>2
    <3>3. t \in Seq(Conn \X Nat \X Nat) /\ Len(t) = 0
      BY <1>10, <3>1, <3>2
    <3>4. t = Empty
      BY <3>3 DEF Empty
    <3> QED BY <1>11, <2>2, <3>1, <3>4
  <2>3. CASE d # c
    <3>1. IF handlerPC[d] \in {"count", "out"} THEN Sending(d) ELSE pending[d] = Empty
      BY DEF ConnOK, PendingOK
    <3>2. Sending(d)' <=> Sending(d)
      BY <1>2, <1>11, <2>3 DEF Sending, Readable
    <3> QED BY <1>11, <2>3, <3>1, <3>2
  <2> QED BY <2>1, <2>2, <2>3
<1>15. DeliveredOK'
  <2> SUFFICES ASSUME NEW d \in Conn PROVE (Sound(d) /\ Complete(d) /\ InOrder(d))'
      BY DEF DeliveredOK
  <2>1. Sound(d) /\ Complete(d) /\ InOrder(d)
    BY DEF ConnOK, DeliveredOK
  <2>2. CASE d = c
    BY <1>1, <1>2, <1>3, <1>11, <2>1, <2>2, OwnDelivered
  <2>3. CASE d # c
    <3>1. PICK e : e = Head(pending[c])
      OBVIOUS
    <3>2. e[1] # d
      <4>1. 1 \in 1..p
        BY <1>8
      <4>2. e = <<c, x, item.n - p + 1>>
        BY <1>7, <1>10, <3>1, <4>1
      <4> QED BY <2>3, <4>2
    <3>3. \A i, j \in Nat : Passed(d, i, j)' <=> Passed(d, i, j)
      BY <1>2, <1>11, <2>3 DEF Passed, Readable
    <3>4. delivered' = Append(delivered, e)
      BY <1>2, <3>1
    <3> QED BY <1>1, <2>1, <3>2, <3>3, <3>4, ForeignDelivered
  <2> QED BY <2>2, <2>3
<1> QED BY <1>12, <1>13, <1>14, <1>15 DEF ConnOK

\* A line of a UDP peer enters the input channel: connections do not notice.
LEMMA LineOut == ASSUME ConnOK, PeerType, OutLine PROVE ConnOK'
<1>1. ConnType
  BY DEF ConnOK
<1>2. /\ workerPC = "out" /\ delivered' = Append(delivered, <<peer, line>>)
      /\ UNCHANGED <<scheme, sent, wire, buf, consumed, pending, handlerPC>>
  BY DEF OutLine, tcpVars, connVars, clientVars, readVars
<1>3. ConnType'
  <2>1. IsSeq(delivered')
    BY <1>1, <1>2, Appended DEF ConnType
  <2> QED BY <1>1, <1>2, <2>1 DEF ConnType, IsSeq
<1>4. QueueOK'
  BY <1>2 DEF ConnOK, QueueOK
<1>5. PendingOK'
  BY <1>2 DEF ConnOK, PendingOK, Sending, Readable
<1>6. DeliveredOK'
  <2> SUFFICES ASSUME NEW d \in Conn PROVE (Sound(d) /\ Complete(d) /\ InOrder(d))'
      BY DEF DeliveredOK
  <2>1. Sound(d) /\ Complete(d) /\ InOrder(d)
    BY DEF ConnOK, DeliveredOK
  <2>2. PICK e : e = <<peer, line>>
    OBVIOUS
  <2>3. e[1] # d
    <3>1. peer \in Peer
      BY <1>2 DEF PeerType
    <3> QED BY <2>2, <3>1, UdpAssumption
  <2>4. \A i, j \in Nat : Passed(d, i, j)' <=> Passed(d, i, j)
    BY <1>2 DEF Passed, Readable
  <2>5. delivered' = Append(delivered, e)
    BY <1>2, <2>2
  <2> QED BY <1>1, <2>1, <2>3, <2>4, <2>5, ForeignDelivered
<1> QED BY <1>3, <1>4, <1>5, <1>6 DEF ConnOK

(***************************************************************************)
(* Every step preserves the invariant.                                     *)
(***************************************************************************)

\* The steps of Stop, of the listening goroutines and of the input channel.
LEMMA ListenerPreserves ==
    ASSUME ReceiverInv, UNCHANGED udpVars,
           StopBegin \/ StopEnds \/ CloseSocket \/ AcceptEnds \/ CacheReceive
    PROVE  ReceiverInv'
<1>1. ConnOK /\ CountOK /\ PeerType /\ StoppedOK
  BY DEF ReceiverInv, ConnOK, CountOK
<1> USE DEF StopBegin, StopEnds, CloseSocket, AcceptEnds, CacheReceive, kindVars, connVars,
            stopVars, clientVars, readVars, outVars, countVars, statVars, reportVars
<1>2. UNCHANGED connPart
  BY DEF connPart
<1>3. ConnOK'
  BY <1>1, <1>2, ConnQuiet
<1>4. CountOK'
  <2>1. UNCHANGED <<metricsReceived, counted, reportVars>>
    OBVIOUS
  <2> QED BY <1>1, <2>1, CountQuiet
<1>5. PeerType'
  BY <1>1 DEF PeerType, udpVars
<1>6. StoppedOK'
  BY <1>1 DEF StoppedOK
<1> QED BY <1>3, <1>4, <1>5, <1>6 DEF ReceiverInv, ConnOK, CountOK

\* The two steps of Stat.
LEMMA StatPreserves == ASSUME ReceiverInv, UNCHANGED udpVars, Stat PROVE ReceiverInv'
<1>1. ConnOK /\ CountOK /\ PeerType /\ StoppedOK
  BY DEF ReceiverInv, ConnOK, CountOK
<1>2. UNCHANGED <<connPart, workerPC, stopPC, acceptPC>>
  BY DEF Stat, StatLoad, StatSubtract, connPart, kindVars, connVars, stopVars, clientVars,
         readVars, outVars
<1>3. ConnOK'
  BY <1>1, <1>2, ConnQuiet
<1>4. CountOK'
  BY <1>1, Loading, Subtracting DEF Stat
<1>5. PeerType'
  BY <1>1, <1>2 DEF PeerType, udpVars
<1>6. StoppedOK'
  BY <1>1, <1>2 DEF StoppedOK, connPart
<1> QED BY <1>3, <1>4, <1>5, <1>6 DEF ReceiverInv, ConnOK, CountOK

\* The steps of a client and of a watcher.
LEMMA ClientPreserves ==
    ASSUME ReceiverInv, UNCHANGED udpVars, NEW c \in Conn, Watcher(c) \/ Client(c)
    PROVE  ReceiverInv'
<1>1. ConnOK /\ CountOK /\ PeerType /\ StoppedOK
  BY DEF ReceiverInv, ConnOK, CountOK
<1>2. UNCHANGED <<handlerPC, workerPC, stopPC, acceptPC,
                  metricsReceived, counted, reportVars>>
  BY DEF Watcher, WatcherFinished, WatcherExit, Client, ClientClose, ClientSend,
         kindVars, connVars, stopVars, countVars, statVars, reportVars
<1>3. ConnOK'
  <2>1. CASE Watcher(c) \/ ClientClose(c)
    <3>1. UNCHANGED connPart
      BY <2>1 DEF Watcher, WatcherFinished, WatcherExit, ClientClose, connPart,
                  kindVars, connVars, clientVars, readVars, outVars
    <3> QED BY <1>1, <3>1, ConnQuiet
  <2>2. CASE \E item \in Items : ClientSend(c, item)
    BY <1>1, <2>2, ClientSends
  <2> QED BY <2>1, <2>2 DEF Client
<1>4. CountOK'
  BY <1>1, <1>2, CountQuiet
<1>5. PeerType'
  BY <1>1, <1>2 DEF PeerType, udpVars
<1>6. StoppedOK'
  BY <1>1, <1>2 DEF StoppedOK
<1> QED BY <1>3, <1>4, <1>5, <1>6 DEF ReceiverInv, ConnOK, CountOK

\* A connection is accepted.
LEMMA AcceptPreserves ==
    ASSUME ReceiverInv, UNCHANGED udpVars, NEW c \in Conn, Accept(c) PROVE ReceiverInv'
<1>1. ConnOK /\ CountOK /\ PeerType /\ StoppedOK
  BY DEF ReceiverInv, ConnOK, CountOK
<1>2. /\ acceptPC = "run" /\ handlerPC[c] = "none"
      /\ handlerPC' = [handlerPC EXCEPT ![c] = "start"]
      /\ UNCHANGED <<readPart, workerPC, stopPC, acceptPC,
                     metricsReceived, counted, reportVars>>
  BY DEF Accept, readPart, kindVars, stopVars, clientVars, readVars, outVars, countVars,
         statVars, reportVars
<1>3. ConnOK'
  BY <1>1, <1>2, HandlerMoves
<1>4. CountOK'
  BY <1>1, <1>2, CountQuiet
<1>5. PeerType'
  BY <1>1, <1>2 DEF PeerType, udpVars
<1>6. StoppedOK'
  BY <1>1, <1>2 DEF StoppedOK
<1> QED BY <1>3, <1>4, <1>5, <1>6 DEF ReceiverInv, ConnOK, CountOK

\* The steps of a handler.
LEMMA HandlerPreserves ==
    ASSUME ReceiverInv, UNCHANGED udpVars, NEW c \in Conn, Handler(c) PROVE ReceiverInv'
<1>1. ConnOK /\ CountOK /\ PeerType /\ StoppedOK
  BY DEF ReceiverInv, ConnOK, CountOK
<1>2. /\ handlerPC[c] \in {"start", "read", "count", "out"}
      /\ UNCHANGED <<workerPC, stopPC, acceptPC, reportVars>>
  BY DEF Handler, HandlerStart, Fill, ReadItem, ReadBad, Count, Out, ReadFails,
         kindVars, stopVars, statVars, reportVars
<1>3. ConnOK'
  <2>1. CASE HandlerStart(c)
    <3>1. /\ handlerPC[c] = "start" /\ handlerPC' = [handlerPC EXCEPT ![c] = "read"]
          /\ UNCHANGED readPart
      BY <2>1 DEF HandlerStart, readPart, kindVars, clientVars, readVars, outVars
    <3> QED BY <1>1, <3>1, HandlerMoves
  <2>2. CASE Fill(c)
    BY <1>1, <2>2, Fills
  <2>3. CASE ReadItem(c)
    BY <1>1, <2>3, ItemRead
  <2>4. CASE ReadBad(c)
    BY <1>1, <2>4, BadRead
  <2>5. CASE Count(c)
    <3>1. /\ handlerPC[c] = "count" /\ handlerPC' = [handlerPC EXCEPT ![c] = "out"]
          /\ UNCHANGED readPart
      BY <2>5 DEF Count, readPart, kindVars, clientVars, readVars, outVars
    <3> QED BY <1>1, <3>1, HandlerMoves
  <2>6. CASE Out(c)
    BY <1>1, <2>6, MessageOut
  <2>7. CASE \E eof \in BOOLEAN : ReadFails(c, eof)
    <3>1. /\ handlerPC[c] = "read" /\ handlerPC' = [handlerPC EXCEPT ![c] = "done"]
          /\ UNCHANGED readPart
      BY <2>7 DEF ReadFails, Return, readPart, kindVars, clientVars, readVars, outVars
    <3> QED BY <1>1, <3>1, HandlerMoves
  <2> QED BY <2>1, <2>2, <2>3, <2>4, <2>5, <2>6, <2>7 DEF Handler
<1>4. CountOK'
  <2>1. CASE Count(c)
    <3>1. handlerPC[c] = "count"
      BY <2>1 DEF Count
    <3>2. Sending(c)
      BY <1>1, <3>1 DEF ConnOK, PendingOK
    <3>3. sent[c] \in Seq(Items) /\ consumed[c] \in 1..Len(sent[c])
      BY <1>1, <3>2 DEF ConnOK, ConnType, Sending
    <3>4. sent[c][consumed[c]].points \in Nat
      BY <3>3, ReceiverAssumption
    <3>5. PICK n \in Nat : n = sent[c][consumed[c]].points
      BY <3>4
    <3>6. /\ metricsReceived' = (metricsReceived + n) % Wrap /\ counted' = counted + n
      BY <2>1, <3>5 DEF Count
    <3> QED BY <1>1, <1>2, <3>6, Counting
  <2>2. CASE ~Count(c)
    <3>1. UNCHANGED <<metricsReceived, counted>>
      BY <2>2 DEF Handler, HandlerStart, Fill, ReadItem, ReadBad, Out, ReadFails, countVars
    <3> QED BY <1>1, <1>2, <3>1, CountQuiet
  <2> QED BY <2>1, <2>2
<1>5. PeerType'
  BY <1>1, <1>2 DEF PeerType, udpVars
<1>6. StoppedOK'
  <2>1. stopPC # "returned"
    BY <1>1, <1>2 DEF StoppedOK
  <2> QED BY <1>2, <2>1 DEF StoppedOK
<1> QED BY <1>3, <1>4, <1>5, <1>6 DEF ReceiverInv, ConnOK, CountOK

\* The steps of the clock and of the UDP receive goroutine.
LEMMA UdpPreserves == ASSUME ReceiverInv, Clock \/ Worker PROVE ReceiverInv'
<1>1. ConnOK /\ CountOK /\ PeerType /\ StoppedOK
  BY DEF ReceiverInv, ConnOK, CountOK
<1>2. UNCHANGED <<handlerPC, stopPC, acceptPC, reportVars>>
  BY DEF Clock, PurgeTick, Expire, Worker, ReadFromUDP, SplitLine, OutLine, StoreRest, WorkerEnds,
         vars, tcpVars, stopVars, connVars, statVars, reportVars
<1>3. ConnOK'
  <2>1. CASE OutLine
    BY <1>1, <2>1, LineOut
  <2>2. CASE ~OutLine
    <3>1. UNCHANGED connPart
      BY <2>2 DEF Clock, PurgeTick, Expire, Worker, ReadFromUDP, SplitLine, StoreRest, WorkerEnds,
                  vars, tcpVars, kindVars, connVars, clientVars, readVars, outVars, connPart
    <3> QED BY <1>1, <3>1, ConnQuiet
  <2> QED BY <2>1, <2>2
<1>4. CountOK'
  <2>1. CASE /\ metricsReceived' = (metricsReceived + 1) % Wrap
             /\ counted' = counted + 1
    BY <1>1, <1>2, <2>1, Counting
  <2>2. CASE UNCHANGED <<metricsReceived, counted>>
    BY <1>1, <1>2, <2>2, CountQuiet
  <2>3. \/ /\ metricsReceived' = (metricsReceived + 1) % Wrap
           /\ counted' = counted + 1
        \/ UNCHANGED <<metricsReceived, counted>>
    BY DEF Clock, PurgeTick, Expire, Worker, ReadFromUDP, SplitLine, OutLine, StoreRest,
           WorkerEnds, vars, countVars
  <2> QED BY <2>1, <2>2, <2>3
<1>5. /\ PeerType'
      /\ workerPC = "done" => workerPC' = "done"
  <2>1. CASE Clock
    BY <1>1, <2>1 DEF PeerType, Clock, PurgeTick, Expire, vars, kindVars
  <2>2. CASE Worker
    BY <1>1, <2>2 DEF PeerType, Worker, ReadFromUDP, SplitLine, OutLine, StoreRest, WorkerEnds
  <2> QED BY <2>1, <2>2
<1>6. StoppedOK'
  BY <1>1, <1>2, <1>5 DEF StoppedOK
<1> QED BY <1>3, <1>4, <1>5, <1>6 DEF ReceiverInv, ConnOK, CountOK

\* A step in which nothing changes.
LEMMA IdlePreserves == ASSUME ReceiverInv, UNCHANGED allVars PROVE ReceiverInv'
<1>1. ConnOK /\ CountOK /\ PeerType /\ StoppedOK
  BY DEF ReceiverInv, ConnOK, CountOK
<1>2. UNCHANGED <<connPart, workerPC, stopPC, acceptPC, peer,
                  metricsReceived, counted, reportVars>>
  BY DEF allVars, udpVars, vars, connPart, kindVars, connVars, stopVars, clientVars, readVars,
         outVars, countVars, statVars, reportVars
<1>3. ConnOK'
  BY <1>1, <1>2, ConnQuiet
<1>4. CountOK'
  BY <1>1, <1>2, CountQuiet
<1>5. PeerType' /\ StoppedOK'
  BY <1>1, <1>2 DEF PeerType, StoppedOK, connPart
<1> QED BY <1>3, <1>4, <1>5 DEF ReceiverInv, ConnOK, CountOK

\* The invariant holds in every reachable state of the receivers.
THEOREM ReceiverInvariance == ReceiversSpec => []ReceiverInv
<1>1. ReceiverInv /\ [ReceiversNext]_allVars => ReceiverInv'
  <2> SUFFICES ASSUME ReceiverInv, [ReceiversNext]_allVars PROVE ReceiverInv'
      OBVIOUS
  <2>1. CASE Next /\ UNCHANGED udpVars
    <3>1. CASE StopBegin \/ StopEnds \/ CloseSocket \/ AcceptEnds \/ CacheReceive
      BY <2>1, <3>1, ListenerPreserves
    <3>2. CASE Stat
      BY <2>1, <3>2, StatPreserves
    <3>3. CASE \E c \in Conn : Accept(c)
      BY <2>1, <3>3, AcceptPreserves
    <3>4. CASE \E c \in Conn : Handler(c)
      BY <2>1, <3>4, HandlerPreserves
    <3>5. CASE \E c \in Conn : Watcher(c) \/ Client(c)
      BY <2>1, <3>5, ClientPreserves
    <3> QED BY <2>1, <3>1, <3>2, <3>3, <3>4, <3>5 DEF Next, Listener
  <2>2. CASE Clock \/ Worker
    BY <2>2, UdpPreserves
  <2>3. CASE UNCHANGED allVars
    BY <2>3, IdlePreserves
  <2> QED BY <2>1, <2>2, <2>3 DEF ReceiversNext
<1> QED BY <1>1, InitInv, PTL DEF ReceiversSpec

(***************************************************************************)
(* The properties.                                                         *)
(***************************************************************************)
\* Once Stop has returned no goroutine sends to the input channel any more,
\* for connections and for datagrams (helper/stoppable.go, receiver/tcp.go,
\* receiver/udp.go): every one of them was in the wait group.
THEOREM QuietStop == ReceiversSpec => QuietAfterStop
<1>1. ReceiverInv /\ [ReceiversNext]_allVars => [stopPC = "returned" => delivered' = delivered]_vars
  <2> SUFFICES ASSUME ReceiverInv, [ReceiversNext]_allVars, stopPC = "returned"
               PROVE  delivered' = delivered \/ UNCHANGED vars
      BY DEF vars
  <2>1. workerPC = "done" /\ \A c \in Conn : handlerPC[c] \in {"none", "done"}
    BY DEF ReceiverInv, StoppedOK
  <2>2. CASE Next /\ UNCHANGED udpVars
    <3>1. ~\E c \in Conn : Out(c)
      BY <2>1 DEF Out
    <3> QED BY <2>2, <3>1 DEF Next, StopBegin, StopEnds, Listener, CloseSocket, AcceptEnds, Accept,
               CacheReceive, Stat, StatLoad, StatSubtract, Handler, HandlerStart, Fill, ReadItem,
               ReadBad, Count, ReadFails, Watcher, WatcherFinished, WatcherExit, Client,
               ClientClose, ClientSend, outVars
  <2>3. CASE Clock
    BY <2>3 DEF Clock, PurgeTick, Expire
  <2>4. CASE Worker
    BY <2>1, <2>4 DEF Worker, ReadFromUDP, SplitLine, OutLine, StoreRest, WorkerEnds
  <2>5. CASE UNCHANGED allVars
    BY <2>5 DEF allVars
  <2> QED BY <2>2, <2>3, <2>4, <2>5 DEF ReceiversNext
<1> QED BY <1>1, ReceiverInvariance, PTL DEF ReceiversSpec, QuietAfterStop

\* The reports of Stat add up to exactly what was counted before its last load,
\* for any width of the counter, any number of reports and any interleaving of
\* Stat with the handlers that count (receiver/tcp.go), as long as fewer than
\* Wrap points are counted between two loads.
THEOREM StatAlwaysExact == ReceiversSpec => []StatExact
<1>1. ReceiverInv => StatExact
  BY DEF ReceiverInv, StatOK
<1> QED BY <1>1, ReceiverInvariance, PTL

\* What is delivered and what is pending, one after the other.
LEMMA Concatenated ==
    ASSUME ConnType, NEW c \in Conn
    PROVE  LET out == delivered \o pending[c] IN
           /\ Len(delivered) \in Nat /\ Len(pending[c]) \in Nat
           /\ Len(out) = Len(delivered) + Len(pending[c])
           /\ \A k \in 1..Len(delivered) : out[k] = delivered[k]
           /\ \A k \in 1..Len(pending[c]) : out[Len(delivered) + k] = pending[c][k]
<1>1. PICK S : S = {delivered[k] : k \in 1..Len(delivered)}
  OBVIOUS
<1>2. delivered \in Seq(S) /\ pending[c] \in Seq(Conn \X Nat \X Nat)
  BY <1>1 DEF ConnType, IsSeq
<1>3. PICK t : t = pending[c]
  OBVIOUS
<1>4. PICK T : T = Conn \X Nat \X Nat
  OBVIOUS
<1>5. t \in Seq(T)
  BY <1>2, <1>3, <1>4
<1>6. /\ Len(delivered) \in Nat /\ Len(t) \in Nat
      /\ Len(delivered \o t) = Len(delivered) + Len(t)
      /\ \A k \in 1..Len(delivered) : (delivered \o t)[k] = delivered[k]
      /\ \A k \in 1..Len(t) : (delivered \o t)[Len(delivered) + k] = t[k]
  BY <1>2, <1>5
<1> QED BY <1>3, <1>6

\* Every message that a handler has read is delivered or about to be, once and
\* in order, for any number of connections, any items, any capacity of the
\* input channel, and also when Stop cuts a connection (receiver/tcp.go).
THEOREM NothingEverDropped == ReceiversSpec => []NothingDropped
<1>1. ReceiverInv => NothingDropped
  <2> SUFFICES ASSUME ReceiverInv, NEW c \in Conn
               PROVE  LET out == delivered \o pending[c]
                          own == {k \in 1..Len(out) : out[k][1] = c}
                      IN  /\ {out[k] : k \in own} = Expected(c)
                          /\ \A k, l \in own : k < l => Earlier(out[k], out[l])
      BY DEF NothingDropped
  <2>1. PICK out : out = delivered \o pending[c]
    OBVIOUS
  <2>2. PICK own : own = {k \in 1..Len(out) : out[k][1] = c}
    OBVIOUS
  <2>3. PICK n, p \in Nat :
           /\ n = Len(delivered) /\ p = Len(pending[c]) /\ Len(out) = n + p
           /\ \A k \in 1..n : out[k] = delivered[k]
           /\ \A k \in 1..p : out[n + k] = pending[c][k]
    BY <2>1, Concatenated DEF ReceiverInv
  <2>4. Sound(c) /\ Complete(c) /\ InOrder(c)
    BY DEF ReceiverInv, DeliveredOK
  <2>5. PICK x \in Nat : x = consumed[c]
    BY DEF ReceiverInv, ConnType
  <2>6. PICK item : item = sent[c][x]
    OBVIOUS
  <2>7. \A i \in 1..x : sent[c][i].n \in Nat
    <3>1. sent[c] \in Seq(Items) /\ Len(buf[c]) \in Nat /\ Len(wire[c]) \in Nat
      BY DEF ReceiverInv, ConnType
    <3>2. x <= Len(sent[c])
      <4>1. x + Len(buf[c]) + Len(wire[c]) = Len(sent[c])
        BY <2>5 DEF ReceiverInv, QueueOK
      <4>2. PICK y, z \in Nat : y = Len(buf[c]) /\ z = Len(wire[c])
        BY <3>1
      <4>3. x + y + z >= x
        OBVIOUS
      <4> QED BY <4>1, <4>2, <4>3
    <3>3. \A i \in 1..x : sent[c][i] \in Items
      BY <3>1, <3>2
    <3> QED BY <3>3, ReceiverAssumption
  <2>8. \/ p = 0
        \/ /\ x >= 1 /\ Readable(item) /\ p \in 1..item.n /\ item.n \in Nat
           /\ \A k \in 1..p : pending[c][k] = <<c, x, item.n - p + k>>
    <3>1. CASE handlerPC[c] \in {"count", "out"}
      <4>1. Sending(c)
        BY <3>1 DEF ReceiverInv, PendingOK
      <4>2. /\ x \in 1..Len(sent[c]) /\ Readable(item) /\ p \in 1..item.n
            /\ \A k \in 1..p : pending[c][k] = <<c, x, item.n - p + k>>
        BY <2>3, <2>5, <2>6, <4>1 DEF Sending
      <4>3. x \in 1..x
        BY <4>2
      <4>4. item.n \in Nat
        BY <2>6, <2>7, <4>3
      <4> QED BY <4>2, <4>4
    <3>2. CASE handlerPC[c] \notin {"count", "out"}
      <4>1. pending[c] = Empty
        BY <3>2 DEF ReceiverInv, PendingOK
      <4> QED BY <2>3, <4>1 DEF Empty
    <3> QED BY <3>1, <3>2
  <2>9. ASSUME NEW i \in 1..x, Readable(sent[c][i]), NEW j \in 1..sent[c][i].n
        PROVE  \E k \in own : out[k] = <<c, i, j>>
    <3>1. i \in Nat /\ j \in Nat
      OBVIOUS
    <3>2. CASE Passed(c, i, j)
      <4>1. PICK k \in 1..n : delivered[k] = <<c, i, j>>
        BY <2>3, <2>4, <3>1, <3>2 DEF Complete
      <4>2. k \in 1..(n + p) /\ out[k] = <<c, i, j>>
        BY <2>3, <4>1
      <4>3. out[k][1] = c
        BY <4>2
      <4> QED BY <2>2, <2>3, <4>2, <4>3
    <3>3. CASE ~Passed(c, i, j)
      <4>1. i = x /\ ~(j <= item.n - p)
        BY <2>3, <2>5, <2>6, <2>9, <3>3 DEF Passed
      <4>2. p # 0
        <5>1. item.n \in Nat /\ j \in 1..item.n
          BY <2>6, <2>7, <4>1
        <5> QED BY <4>1, <5>1
      <4>3. PICK k \in 1..p : k = j - (item.n - p)
        BY <2>6, <2>8, <2>9, <4>1, <4>2
      <4>4. pending[c][k] = <<c, i, j>>
        BY <2>6, <2>8, <4>1, <4>2, <4>3
      <4>5. n + k \in 1..(n + p) /\ out[n + k] = <<c, i, j>>
        BY <2>3, <4>4
      <4>6. out[n + k][1] = c
        BY <4>5
      <4> QED BY <2>2, <2>3, <4>5, <4>6
    <3> QED BY <3>2, <3>3
  <2>10. ASSUME NEW k \in own
        PROVE  \E i \in 1..x : Readable(sent[c][i])
                   /\ \E j \in 1..sent[c][i].n :
                         /\ out[k] = <<c, i, j>>
                         /\ k <= n => Passed(c, i, j)
                         /\ k > n => i = x /\ p # 0 /\ j = item.n - p + (k - n)
    <3>1. k \in 1..(n + p) /\ out[k][1] = c
      BY <2>2, <2>3
    <3>2. CASE k <= n
      <4>1. k \in 1..n /\ delivered[k] = out[k]
        BY <2>3, <3>1, <3>2
      <4>2. PICK i, j \in Nat : Passed(c, i, j) /\ delivered[k] = <<c, i, j>>
        BY <2>3, <2>4, <3>1, <4>1 DEF Sound
      <4>3. i \in 1..x /\ Readable(sent[c][i]) /\ j \in 1..sent[c][i].n
        BY <2>5, <4>2 DEF Passed
      <4>4. ~(k > n)
        BY <3>1, <3>2
      <4> QED BY <4>1, <4>2, <4>3, <4>4
    <3>3. CASE k > n
      <4>1. k - n \in 1..p /\ n + (k - n) = k /\ p # 0
        BY <3>1, <3>3
      <4>2. PICK j \in Nat : j = item.n - p + (k - n) /\ j \in 1..item.n
        BY <2>8, <4>1
      <4>3. out[k] = pending[c][k - n]
        BY <2>3, <4>1
      <4>4. out[k] = <<c, x, j>>
        BY <2>8, <4>1, <4>2, <4>3
      <4>5. x \in 1..x /\ Readable(sent[c][x])
        BY <2>6, <2>8, <4>1
      <4>6. ~(k <= n)
        BY <3>1, <3>3
      <4> QED BY <2>6, <4>1, <4>2, <4>4, <4>5, <4>6
    <3> QED BY <3>1, <3>2, <3>3
  <2>11. {out[k] : k \in own} = Expected(c)
    <3>1. ASSUME NEW k \in own PROVE out[k] \in Expected(c)
      <4>1. PICK i \in 1..x : Readable(sent[c][i]) /\ \E j \in 1..sent[c][i].n : out[k] = <<c, i, j>>
        BY <2>10
      <4> QED BY <2>5, <4>1 DEF Expected
    <3>2. ASSUME NEW e \in Expected(c) PROVE e \in {out[k] : k \in own}
      <4>1. PICK i \in 1..x : Readable(sent[c][i]) /\ \E j \in 1..sent[c][i].n : e = <<c, i, j>>
        BY <2>5, <3>2 DEF Expected
      <4>2. PICK j \in 1..sent[c][i].n : e = <<c, i, j>>
        BY <4>1
      <4>3. \E k \in own : out[k] = <<c, i, j>>
        BY <2>9, <4>1
      <4> QED BY <4>2, <4>3
    <3> QED BY <3>1, <3>2
  <2>12. ASSUME NEW k \in own, NEW l \in own, k < l PROVE Earlier(out[k], out[l])
    <3>1. k \in 1..(n + p) /\ l \in 1..(n + p) /\ out[k][1] = c /\ out[l][1] = c
      BY <2>2, <2>3
    <3>2. CASE l <= n
      <4>1. k \in 1..n /\ l \in 1..n
        BY <2>12, <3>1, <3>2
      <4> QED BY <2>3, <2>4, <2>12, <3>1, <4>1 DEF InOrder
    <3>3. CASE l > n
      <4>1. PICK j \in Nat : out[l] = <<c, x, j>> /\ j = item.n - p + (l - n) /\ p # 0
        BY <2>10, <3>1, <3>3
      <4>2. CASE k <= n
        <5>1. PICK i, h \in Nat : out[k] = <<c, i, h>> /\ Passed(c, i, h)
          BY <2>10, <4>2
        <5>2. i \in 1..x /\ (i = x => h <= item.n - p)
          BY <2>3, <2>5, <2>6, <5>1 DEF Passed
        <5>3. i < x \/ (i = x /\ h < j)
          BY <2>8, <3>1, <3>3, <4>1, <5>2
        <5>4. out[k][2] = i /\ out[k][3] = h /\ out[l][2] = x /\ out[l][3] = j
          BY <4>1, <5>1
        <5> QED BY <5>3, <5>4 DEF Earlier
      <4>3. CASE k > n
        <5>1. PICK h \in Nat : out[k] = <<c, x, h>> /\ h = item.n - p + (k - n)
          BY <2>10, <3>1, <4>3
        <5>2. h < j
          BY <2>8, <2>12, <3>1, <4>1, <5>1
        <5>3. out[k][2] = x /\ out[k][3] = h /\ out[l][2] = x /\ out[l][3] = j
          BY <4>1, <5>1
        <5> QED BY <5>2, <5>3 DEF Earlier
      <4> QED BY <3>1, <4>2, <4>3
    <3> QED BY <3>1, <3>2, <3>3
  <2> QED BY <2>1, <2>2, <2>11, <2>12
<1> QED BY <1>1, ReceiverInvariance, PTL

(***************************************************************************)
(* The text of a peer.                                                     *)
(***************************************************************************)
\* The characters of a line, the newline included.
Width == Parts + 1

Char == UNION {{Text(q)[x] : x \in 1..TextLength(q)} : q \in Peer}

\* R is q's text from line n + 1 on, up to S.
Clean(q, R, S, n) ==
    /\ n * Width + Len(R) = S
    /\ \A i \in 1..Len(R) : R[i] = Text(q)[n * Width + i]

\* R ends with the last k characters of q's text up to S, and there is no
\* newline before them.
Ragged(q, R, S, k) ==
    /\ k <= Len(R) /\ k <= S
    /\ \A i \in 1..(Len(R) - k) : R[i] # Newline
    /\ \A i \in 1..k : R[(Len(R) - k) + i] = Text(q)[(S - k) + i]

\* Multiplication is monotonic.
LEMMA Times ==
    \A m, n \in Nat, w \in Nat :
        /\ m * w \in Nat
        /\ m <= n => m * w <= n * w
        /\ (m + 1) * w = m * w + w
<1> SUFFICES ASSUME NEW m \in Nat, NEW n \in Nat, NEW w \in Nat
             PROVE  /\ m * w \in Nat
                    /\ m <= n => m * w <= n * w
                    /\ (m + 1) * w = m * w + w
    OBVIOUS
<1>1. m * w \in Nat
  OBVIOUS
<1>2. ASSUME m <= n PROVE m * w <= n * w
  <2>1. PICK d \in Nat : n = m + d
    <3>1. n - m \in Nat /\ n = m + (n - m)
      BY <1>2
    <3> QED BY <3>1
  <2>2. (m + d) * w = m * w + d * w
    OBVIOUS
  <2>3. d * w \in Nat /\ m * w \in Nat
    OBVIOUS
  <2> QED BY <2>1, <2>2, <2>3
<1>3. (m + 1) * w = m * w + w
  OBVIOUS
<1> QED BY <1>1, <1>2, <1>3

\* A text is a sequence of characters, and its newlines are at the multiples of
\* Width.
LEMMA TextType ==
    ASSUME NEW q \in Peer
    PROVE  /\ Width \in Nat /\ Width >= 2 /\ Lines[q] \in Nat
           /\ TextLength(q) = Lines[q] * Width /\ TextLength(q) \in Nat
           /\ Text(q) \in Seq(Char) /\ Len(Text(q)) = TextLength(q)
           /\ \A x \in 1..TextLength(q) : Text(q)[x] = Newline <=> x % Width = 0
<1>1. /\ Width \in Nat /\ Width >= 2 /\ Lines[q] \in Nat
      /\ TextLength(q) = Lines[q] * Width /\ TextLength(q) \in Nat
  <2>1. Parts \in Nat \ {0} /\ Lines[q] \in Nat
    BY UdpAssumption
  <2>2. Width \in Nat /\ Width >= 2
    BY <2>1 DEF Width
  <2>3. Lines[q] * Width \in Nat
    BY <2>1, <2>2, Times
  <2> QED BY <2>1, <2>2, <2>3 DEF TextLength, Width
<1>2. PICK t, T : t = TextLength(q) /\ T = Text(q)
  OBVIOUS
<1>3. T = [x \in 1..t |-> IF x % Width = 0 THEN Newline
                          ELSE <<q, (x - 1) \div Width + 1, x % Width>>]
  BY <1>2 DEF Text, Width
<1>4. T \in Seq(Char) /\ Len(T) = t
  <2>1. \A x \in 1..t : T[x] \in Char
    BY <1>2 DEF Char
  <2>2. T \in [1..t -> Char]
    BY <1>3, <2>1
  <2>3. t \in Nat
    BY <1>1, <1>2
  <2> QED BY <2>2, <2>3
<1>5. ASSUME NEW x \in 1..t PROVE T[x] = Newline <=> x % Width = 0
  <2>1. \A a, b : <<q, a, b>> # Newline
    BY DEF Newline
  <2> QED BY <1>3, <2>1
<1> QED BY <1>1, <1>2, <1>4, <1>5

\* Behind n lines and a piece of the next, the first newline is at the end of
\* that line.
LEMMA NextNewline ==
    ASSUME NEW q \in Peer, NEW a \in Nat, NEW x \in 1..TextLength(q), a < x, Text(q)[x] = Newline
    PROVE  \E n \in 1..Lines[q] :
              /\ a < n * Width /\ n * Width <= x /\ a >= n * Width - Width
              /\ Text(q)[n * Width] = Newline
              /\ \A y \in 1..TextLength(q) : a < y /\ y < n * Width => Text(q)[y] # Newline
<1> DEFINE w == Width
           d == a \div w
           n == d + 1
<1>1. /\ w \in Nat /\ w >= 2 /\ Lines[q] \in Nat /\ TextLength(q) = Lines[q] * w
      /\ TextLength(q) \in Nat
      /\ \A y \in 1..TextLength(q) : Text(q)[y] = Newline <=> y % w = 0
  BY TextType
<1> HIDE DEF w
<1>2. a = d * w + (a % w) /\ a % w \in 0..(w - 1) /\ d \in Int
  <2>1. w \in Nat \ {0}
    BY <1>1
  <2> QED BY <2>1, DivMod
<1>3. d \in Nat
  <2>1. ASSUME d < 0 PROVE FALSE
    <3>1. d * w <= -w
      BY <1>1, <1>2, <2>1
    <3> QED BY <1>1, <1>2, <3>1
  <2> QED BY <1>2, <2>1
<1> HIDE DEF d
<1>4. PICK m \in Nat : x = m * w
  <2>1. x % w = 0
    BY <1>1
  <2>2. x = (x \div w) * w + (x % w) /\ x \div w \in Int
    BY <1>1, DivMod
  <2>3. PICK e \in Int : x = e * w
    <3>1. PICK e : e = x \div w
      OBVIOUS
    <3>2. e \in Int /\ x = e * w + 0 /\ e * w \in Int
      BY <1>1, <2>1, <2>2, <3>1
    <3> QED BY <3>2
  <2>4. ASSUME e < 0 PROVE FALSE
    <3>1. e * w <= -w
      BY <1>1, <2>3, <2>4
    <3> QED BY <1>1, <2>3, <3>1
  <2> QED BY <2>3, <2>4
<1>5. PICK D : D = d * w
  OBVIOUS
<1>6. D \in Nat /\ n \in Nat /\ n * w = D + w
  BY <1>1, <1>3, <1>5, Times
<1>7. d < m
  <2>1. ASSUME m <= d PROVE FALSE
    <3>1. m * w <= d * w
      BY <1>1, <1>3, <2>1, Times
    <3> QED BY <1>1, <1>2, <1>4, <1>5, <1>6, <3>1
  <2> QED BY <1>3, <2>1
<1>8. n <= m
  BY <1>3, <1>7
<1>9. n * w <= x /\ a < n * w /\ a >= n * w - w
  <2>1. n * w <= m * w
    BY <1>1, <1>6, <1>8, Times
  <2> QED BY <1>1, <1>2, <1>4, <1>5, <1>6, <2>1
<1>10. n \in 1..Lines[q]
  <2>1. ASSUME n > Lines[q] PROVE FALSE
    <3>1. Lines[q] + 1 <= n
      BY <1>1, <1>6, <2>1
    <3>2. (Lines[q] + 1) * w <= n * w /\ (Lines[q] + 1) * w = Lines[q] * w + w
      BY <1>1, <1>6, <3>1, Times
    <3> QED BY <1>1, <1>6, <1>9, <3>2
  <2> QED BY <1>1, <1>3, <1>6, <2>1
<1>11. n * w \in 1..TextLength(q) /\ (n * w) % w = 0
  <2>1. n * w \in Nat /\ n * w >= 1 /\ n * w <= TextLength(q)
    BY <1>1, <1>6, <1>9
  <2>2. n * w = 0 + n * w /\ 0 \in Nat /\ n \in Int /\ w \in Nat \ {0}
    BY <1>1, <1>6
  <2>3. 0 % w = (n * w) % w
    BY <2>1, <2>2, ModShift
  <2>4. 0 % w = 0
    BY <1>1
  <2> QED BY <1>1, <2>1, <2>3, <2>4
<1>12. Text(q)[n * w] = Newline
  BY <1>1, <1>11
<1>13. ASSUME NEW y \in 1..TextLength(q), a < y, y < n * w, Text(q)[y] = Newline PROVE FALSE
  <2>1. y % w = 0
    BY <1>1, <1>13
  <2>2. y = (y \div w) * w + (y % w) /\ y \div w \in Int
    BY <1>1, DivMod
  <2>3. PICK e \in Int : y = e * w
    <3>1. PICK e : e = y \div w
      OBVIOUS
    <3>2. e \in Int /\ y = e * w + 0 /\ e * w \in Int
      BY <1>1, <2>1, <2>2, <3>1
    <3> QED BY <3>2
  <2>4. e >= 0
    <3>1. ASSUME e < 0 PROVE FALSE
      <4>1. e * w <= -w
        BY <1>1, <2>3, <3>1
      <4> QED BY <1>1, <2>3, <4>1
    <3> QED BY <2>3, <3>1
  <2>5. e > d
    <3>1. ASSUME e <= d PROVE FALSE
      <4>1. e * w <= d * w
        BY <1>1, <1>3, <2>4, <3>1, Times
      <4> QED BY <1>2, <1>5, <1>6, <1>13, <2>3, <4>1
    <3> QED BY <1>3, <2>3, <3>1
  <2>6. n * w <= e * w
    BY <1>1, <1>6, <1>3, <2>4, <2>5, Times
  <2>7. y \in Int /\ y < n * w /\ n * w <= y /\ n * w \in Int
    BY <1>1, <1>6, <1>13, <2>3, <2>6
  <2> QED BY <2>7
<1> QED BY <1>9, <1>10, <1>12, <1>13 DEF w

\* A piece of the text is put behind what is kept.
LEMMA Glued ==
    ASSUME NEW q \in Peer, NEW R \in Seq(Char),
           NEW from \in 1..TextLength(q), NEW to \in from..TextLength(q)
    PROVE  LET G == R \o SubSeq(Text(q), from, to) IN
           /\ G \in Seq(Char) /\ Len(R) \in Nat /\ Len(G) = Len(R) + (to - from + 1)
           /\ \A i \in 1..Len(R) : G[i] = R[i]
           /\ \A i \in 1..(to - from + 1) : G[Len(R) + i] = Text(q)[(from - 1) + i]
<1>1. PICK t, T : t = TextLength(q) /\ T = Text(q)
  OBVIOUS
<1>2. t \in Nat /\ T \in Seq(Char) /\ Len(T) = t
  BY <1>1, TextType
<1>3. from \in 1..t /\ to \in from..t
  BY <1>1
<1>4. PICK P : P = SubSeq(T, from, to)
  OBVIOUS
<1>5. /\ P \in Seq(Char) /\ Len(P) = to - from + 1
      /\ \A i \in 1..(to - from + 1) : P[i] = T[(from - 1) + i]
  BY <1>2, <1>3, <1>4
<1>6. PICK G : G = R \o P
  OBVIOUS
<1>7. /\ G \in Seq(Char) /\ Len(R) \in Nat /\ Len(G) = Len(R) + Len(P)
      /\ \A i \in 1..Len(R) : G[i] = R[i]
      /\ \A i \in 1..Len(P) : G[Len(R) + i] = P[i]
  <2>1. P \in Seq(Char)
    BY <1>5
  <2> QED BY <1>6, <2>1
<1> QED BY <1>1, <1>4, <1>5, <1>6, <1>7

\* The next piece of the text keeps it clean,
LEMMA CleanGrows ==
    ASSUME NEW q \in Peer, NEW R \in Seq(Char), NEW S \in Nat, NEW n \in Nat,
           Clean(q, R, S, n), S + 1 \in 1..TextLength(q), NEW to \in (S + 1)..TextLength(q)
    PROVE  Clean(q, R \o SubSeq(Text(q), S + 1, to), to, n)
<1>1. PICK N : N = n * Width
  OBVIOUS
<1>2. N \in Nat /\ TextLength(q) \in Nat
  BY <1>1, TextType, Times
<1>3. PICK G : G = R \o SubSeq(Text(q), S + 1, to)
  OBVIOUS
<1>4. /\ Len(R) \in Nat /\ Len(G) = Len(R) + (to - (S + 1) + 1)
      /\ \A i \in 1..Len(R) : G[i] = R[i]
      /\ \A i \in 1..(to - (S + 1) + 1) : G[Len(R) + i] = Text(q)[((S + 1) - 1) + i]
  BY <1>3, Glued
<1>5. N + Len(R) = S /\ \A i \in 1..Len(R) : R[i] = Text(q)[N + i]
  BY <1>1 DEF Clean
<1>6. N + Len(G) = to
  BY <1>2, <1>4, <1>5
<1>7. ASSUME NEW i \in 1..Len(G) PROVE G[i] = Text(q)[N + i]
  <2>1. CASE i <= Len(R)
    <3>1. i \in 1..Len(R)
      BY <1>4, <2>1
    <3> QED BY <1>4, <1>5, <3>1
  <2>2. CASE i > Len(R)
    <3>1. PICK j \in 1..(to - (S + 1) + 1) : i = Len(R) + j
      <4>1. i - Len(R) \in 1..(to - (S + 1) + 1) /\ i = Len(R) + (i - Len(R))
        BY <1>2, <1>4, <2>2
      <4> QED BY <4>1
    <3>2. G[i] = Text(q)[((S + 1) - 1) + j]
      BY <1>4, <3>1
    <3>3. ((S + 1) - 1) + j = N + i
      <4>1. /\ N \in Nat /\ Len(R) \in Nat /\ j \in Int
            /\ N + Len(R) = S /\ i = Len(R) + j
        BY <1>2, <1>4, <1>5, <3>1
      <4> QED BY <4>1
    <3> QED BY <3>2, <3>3
  <2> QED BY <1>4, <2>1, <2>2
<1> QED BY <1>1, <1>3, <1>6, <1>7 DEF Clean

\* and keeps a damage where it is;
LEMMA RaggedGrows ==
    ASSUME NEW q \in Peer, NEW R \in Seq(Char), NEW S \in Nat, NEW k \in Nat,
           Ragged(q, R, S, k), S + 1 \in 1..TextLength(q), NEW to \in (S + 1)..TextLength(q)
    PROVE  Ragged(q, R \o SubSeq(Text(q), S + 1, to), to, k + (to - S))
<1>1. TextLength(q) \in Nat
  BY TextType
<1>2. PICK G : G = R \o SubSeq(Text(q), S + 1, to)
  OBVIOUS
<1>3. PICK r, g, l : r = Len(R) /\ g = Len(G) /\ l = k + (to - S)
  OBVIOUS
<1>4. /\ r \in Nat /\ g = r + (to - (S + 1) + 1)
      /\ \A i \in 1..r : G[i] = R[i]
      /\ \A i \in 1..(to - (S + 1) + 1) : G[r + i] = Text(q)[((S + 1) - 1) + i]
  BY <1>2, <1>3, Glued
<1>5. /\ k <= r /\ k <= S
      /\ \A i \in 1..(r - k) : R[i] # Newline
      /\ \A i \in 1..k : R[(r - k) + i] = Text(q)[(S - k) + i]
  BY <1>3 DEF Ragged
<1>6. to \in Int /\ to > S /\ l \in Nat /\ g - l = r - k /\ to - l = S - k /\ l <= g /\ l <= to
  BY <1>1, <1>3, <1>4, <1>5
<1>7. ASSUME NEW i \in 1..(g - l) PROVE G[i] # Newline
  <2>1. i \in 1..r /\ i \in 1..(r - k)
    BY <1>4, <1>5, <1>6
  <2> QED BY <1>4, <1>5, <2>1
<1>8. ASSUME NEW i \in 1..l PROVE G[(g - l) + i] = Text(q)[(to - l) + i]
  <2>1. CASE i <= k
    <3>1. i \in 1..k /\ (r - k) + i \in 1..r
      BY <1>4, <1>5, <1>6, <2>1
    <3>2. G[(r - k) + i] = R[(r - k) + i]
      BY <1>4, <3>1
    <3> QED BY <1>5, <1>6, <3>1, <3>2
  <2>2. CASE i > k
    <3>1. PICK j : j = i - k
      OBVIOUS
    <3>2. /\ j \in 1..(to - (S + 1) + 1) /\ r + j = (g - l) + i
          /\ ((S + 1) - 1) + j = (to - l) + i
      BY <1>3, <1>4, <1>5, <1>6, <2>2, <3>1
    <3>3. G[r + j] = Text(q)[((S + 1) - 1) + j]
      BY <1>4, <3>2
    <3> QED BY <3>2, <3>3
  <2> QED BY <2>1, <2>2, <1>6
<1> QED BY <1>2, <1>3, <1>6, <1>7, <1>8 DEF Ragged

\* any other piece makes a damage at the end of what was kept.
LEMMA RaggedBegins ==
    ASSUME NEW q \in Peer, NEW R \in Seq(Char), \A i \in 1..Len(R) : R[i] # Newline,
           NEW from \in 1..TextLength(q), NEW to \in from..TextLength(q)
    PROVE  Ragged(q, R \o SubSeq(Text(q), from, to), to, to - from + 1)
<1>1. TextLength(q) \in Nat
  BY TextType
<1>2. PICK G : G = R \o SubSeq(Text(q), from, to)
  OBVIOUS
<1>3. PICK r, g, l : r = Len(R) /\ g = Len(G) /\ l = to - from + 1
  OBVIOUS
<1>4. /\ r \in Nat /\ g = r + l /\ l \in Nat /\ l <= to
      /\ \A i \in 1..r : G[i] = R[i]
      /\ \A i \in 1..l : G[r + i] = Text(q)[(from - 1) + i]
  <2>1. /\ r \in Nat /\ g = r + l
        /\ \A i \in 1..r : G[i] = R[i]
        /\ \A i \in 1..l : G[r + i] = Text(q)[(from - 1) + i]
    BY <1>2, <1>3, Glued
  <2>2. l \in Nat /\ l <= to
    BY <1>1, <1>3
  <2> QED BY <2>1, <2>2
<1>5. g - l = r /\ to - l = from - 1 /\ l <= g
  <2>1. from \in Int /\ to \in Int /\ l = to - from + 1 /\ g = r + l /\ r \in Nat /\ l \in Nat
    BY <1>1, <1>3, <1>4
  <2> QED BY <2>1
<1> QED BY <1>2, <1>3, <1>4, <1>5 DEF Ragged

(***************************************************************************)
(* Splitting.                                                              *)
(***************************************************************************)
First(R, f) == f \in 1..Len(R) /\ R[f] = Newline /\ \A j \in 1..(f - 1) : R[j] # Newline

\* There is one first newline.
LEMMA OneFirst ==
    ASSUME NEW R \in Seq(Char), NEW f, NEW g, First(R, f), First(R, g)
    PROVE  f = g
<1>1. Len(R) \in Nat /\ f \in 1..Len(R) /\ g \in 1..Len(R)
  BY DEF First
<1>2. ~(f < g)
  <2>1. f < g => f \in 1..(g - 1)
    BY <1>1
  <2> QED BY <2>1 DEF First
<1>3. ~(g < f)
  <2>1. g < f => g \in 1..(f - 1)
    BY <1>1
  <2> QED BY <2>1 DEF First
<1> QED BY <1>1, <1>2, <1>3

\* What is left behind the first newline is clean again: the newline ends a line
\* of the peer's, if not the one that the piece before it began.
LEMMA Split ==
    ASSUME NEW q \in Peer, NEW R \in Seq(Char), NEW S \in Nat, S <= TextLength(q), NEW k \in Nat,
           Ragged(q, R, S, k), NEW h \in 1..Len(R), R[h] = Newline
    PROVE  \E n \in 1..Lines[q], f \in 1..Len(R) :
              /\ First(R, f) /\ Clean(q, SubSeq(R, f + 1, Len(R)), S, n)
              /\ f = (Len(R) - k) + (n * Width - (S - k))
              /\ S - k >= n * Width - Width
<1>1. PICK r, T, t : r = Len(R) /\ T = Text(q) /\ t = TextLength(q)
  OBVIOUS
<1>2. /\ r \in Nat /\ t \in Nat /\ Width \in Nat /\ Lines[q] \in Nat
      /\ k <= r /\ k <= S /\ S <= t /\ h \in 1..r
      /\ \A i \in 1..(r - k) : R[i] # Newline
      /\ \A i \in 1..k : R[(r - k) + i] = T[(S - k) + i]
  BY <1>1, TextType DEF Ragged
<1>3. PICK a, b : a = S - k /\ b = r - k
  OBVIOUS
<1>4. /\ a \in Nat /\ b \in Nat /\ a + k = S /\ b + k = r
      /\ \A i \in 1..b : R[i] # Newline
      /\ \A i \in 1..k : R[b + i] = T[a + i]
  BY <1>2, <1>3
<1>5. PICK j \in 1..k : h = b + j
  <2>1. h > b
    <3>1. h <= b => h \in 1..b
      BY <1>2, <1>4
    <3> QED BY <1>2, <1>4, <3>1
  <2>2. h - b \in 1..k /\ h = b + (h - b)
    BY <1>2, <1>4, <2>1
  <2> QED BY <2>2
<1>6. PICK x : x = a + j
  OBVIOUS
<1>7. x \in 1..t /\ a < x /\ T[x] = Newline /\ x <= S
  <2>1. x \in 1..t /\ a < x /\ x <= S
    <3>1. a \in Nat /\ k \in Nat /\ a + k = S /\ j \in 1..k /\ S <= t /\ t \in Nat
      BY <1>2, <1>4
    <3> QED BY <1>6, <3>1
  <2>2. R[b + j] = T[a + j]
    BY <1>4
  <2> QED BY <1>5, <1>6, <2>1, <2>2
<1>8. PICK n \in 1..Lines[q] :
          /\ a < n * Width /\ n * Width <= x /\ a >= n * Width - Width
          /\ T[n * Width] = Newline
          /\ \A y \in 1..t : a < y /\ y < n * Width => T[y] # Newline
  <2>1. x \in 1..TextLength(q) /\ Text(q)[x] = Newline /\ a < x /\ a \in Nat
    BY <1>1, <1>4, <1>7
  <2>2. \E n \in 1..Lines[q] :
          /\ a < n * Width /\ n * Width <= x /\ a >= n * Width - Width
          /\ Text(q)[n * Width] = Newline
          /\ \A y \in 1..TextLength(q) : a < y /\ y < n * Width => Text(q)[y] # Newline
    BY <2>1, NextNewline
  <2> QED BY <1>1, <2>2
<1>9. PICK N, f : N = n * Width /\ f = b + (N - a)
  OBVIOUS
<1>10. N \in Nat /\ N > a /\ N <= x /\ T[N] = Newline
  <2>1. n \in Nat
    BY <1>2
  <2>2. n * Width \in Nat
    BY <1>2, <2>1, Times
  <2> QED BY <1>8, <1>9, <2>2
<1>11. f \in 1..r /\ f > b /\ N - a \in 1..k /\ f \in Nat
  BY <1>2, <1>4, <1>7, <1>9, <1>10
<1>12. R[f] = Newline
  <2>1. R[b + (N - a)] = T[a + (N - a)]
    BY <1>4, <1>11
  <2>2. a + (N - a) = N
    BY <1>4, <1>10
  <2> QED BY <1>9, <1>10, <2>1, <2>2
<1>13. ASSUME NEW i \in 1..(f - 1) PROVE R[i] # Newline
  <2>1. CASE i <= b
    <3>1. i \in 1..b
      BY <1>4, <2>1
    <3> QED BY <1>4, <3>1
  <2>2. CASE i > b
    <3>1. PICK y, l : y = a + (i - b) /\ l = i - b
      OBVIOUS
    <3>2. l \in 1..k /\ i = b + l /\ y = a + l
      BY <1>4, <1>11, <2>2, <3>1
    <3>3. R[i] = T[y]
      BY <1>4, <3>2
    <3>4. y \in 1..t /\ a < y /\ y < N
      BY <1>2, <1>4, <1>9, <1>10, <1>11, <3>2
    <3> QED BY <1>8, <1>9, <3>3, <3>4
  <2> QED BY <1>4, <1>11, <2>1, <2>2
<1>14. First(R, f)
  BY <1>1, <1>11, <1>12, <1>13 DEF First
<1>15. PICK Q : Q = SubSeq(R, f + 1, r)
  OBVIOUS
<1>16. Len(Q) = r - f /\ \A i \in 1..(r - f) : Q[i] = R[f + i]
  <2>1. R \in Seq(Char) /\ Len(R) = r /\ r \in Nat /\ f \in 1..r
    BY <1>1, <1>2, <1>11
  <2>2. r - (f + 1) + 1 = r - f
    BY <2>1
  <2>3. Len(Q) = r - f
    BY <1>15, <2>1, <2>2
  <2>4. ASSUME NEW i \in 1..(r - f) PROVE Q[i] = R[f + i]
    <3>1. Q[i] = R[(f + 1) + i - 1]
      BY <1>15, <2>1, <2>2
    <3>2. (f + 1) + i - 1 = f + i
      BY <2>1
    <3> QED BY <3>1, <3>2
  <2> QED BY <2>3, <2>4
<1>17. N + (r - f) = S
  <2>1. /\ a \in Nat /\ b \in Nat /\ k \in Nat /\ N \in Nat
        /\ a + k = S /\ b + k = r /\ f = b + (N - a)
    BY <1>4, <1>9, <1>10
  <2> QED BY <2>1
<1>18. ASSUME NEW i \in 1..(r - f) PROVE Q[i] = T[N + i]
  <2>1. PICK l : l = (N - a) + i
    OBVIOUS
  <2>2. l \in 1..k /\ b + l = f + i /\ a + l = N + i
    BY <1>2, <1>4, <1>9, <1>10, <1>11, <2>1
  <2>3. R[b + l] = T[a + l]
    BY <1>4, <2>2
  <2> QED BY <1>16, <2>2, <2>3
<1>19. Clean(q, Q, S, n)
  BY <1>1, <1>9, <1>16, <1>17, <1>18 DEF Clean
<1>20. f = (r - k) + (n * Width - (S - k)) /\ S - k >= n * Width - Width
  BY <1>3, <1>8, <1>9
<1> QED BY <1>1, <1>8, <1>11, <1>14, <1>15, <1>19, <1>20

\* What is clean begins with a line that the peer has sent.
LEMMA CleanSplit ==
    ASSUME NEW q \in Peer, NEW R \in Seq(Char), NEW S \in Nat, S <= TextLength(q), NEW n \in Nat,
           Clean(q, R, S, n), NEW h \in 1..Len(R), R[h] = Newline
    PROVE  /\ n + 1 \in 1..Lines[q]
           /\ \E f \in 1..Len(R) : /\ First(R, f) /\ SubSeq(R, 1, f) = Sent(q, n + 1)
                                   /\ Clean(q, SubSeq(R, f + 1, Len(R)), S, n + 1)
<1>1. PICK r, N, T, t : r = Len(R) /\ N = n * Width /\ T = Text(q) /\ t = TextLength(q)
  OBVIOUS
<1>2. /\ r \in Nat /\ N \in Nat /\ Width \in Nat /\ Width >= 2 /\ Lines[q] \in Nat
      /\ t \in Nat /\ T \in Seq(Char) /\ Len(T) = t
  BY <1>1, TextType, Times
<1>3. N + r = S /\ \A i \in 1..r : R[i] = T[N + i]
  BY <1>1 DEF Clean
<1>4. Ragged(q, R, S, r)
  <2>1. r <= Len(R) /\ r <= S
    BY <1>1, <1>2, <1>3
  <2>2. \A i \in 1..(r - r) : R[i] # Newline
    BY <1>2
  <2>3. \A i \in 1..r : R[(r - r) + i] = T[(S - r) + i]
    <3>1. (S - r) = N /\ \A i \in 1..r : (r - r) + i = i
      BY <1>2, <1>3
    <3> QED BY <1>3, <3>1
  <2> QED BY <1>1, <2>1, <2>2, <2>3 DEF Ragged
<1>5. PICK m \in 1..Lines[q], f \in 1..Len(R) :
          /\ First(R, f) /\ Clean(q, SubSeq(R, f + 1, Len(R)), S, m)
          /\ f = (Len(R) - r) + (m * Width - (S - r))
          /\ S - r >= m * Width - Width
  <2>1. r \in Nat
    BY <1>2
  <2> QED BY <1>4, <2>1, Split
<1>6. PICK M : M = m * Width
  OBVIOUS
<1>7. M \in Nat /\ m \in Nat
  <2>1. m \in Nat
    BY <1>2
  <2> QED BY <1>2, <1>6, <2>1, Times
<1>8. f = M - N /\ N >= M - Width /\ N < M /\ f \in 1..r
  <2>1. S - r = N /\ Len(R) - r = 0
    BY <1>1, <1>2, <1>3
  <2>2. /\ f = 0 + (M - N) /\ N >= M - Width /\ f \in 1..r
    BY <1>1, <1>5, <1>6, <2>1
  <2>3. M \in Nat /\ N \in Nat /\ r \in Nat /\ Width \in Nat
    BY <1>2, <1>7
  <2> QED BY <2>2, <2>3
<1>9. m = n + 1
  <2>1. (n + 1) * Width = N + Width /\ (m + 1) * Width = M + Width
    BY <1>1, <1>2, <1>6, <1>7, Times
  <2>2. ASSUME m <= n PROVE FALSE
    <3>1. m * Width <= n * Width
      BY <1>2, <1>7, <2>2, Times
    <3> QED BY <1>1, <1>2, <1>6, <1>7, <1>8, <3>1
  <2>3. ASSUME m >= n + 2 PROVE FALSE
    <3>1. n + 2 \in Nat /\ n + 2 <= m /\ (n + 1) \in Nat
      BY <1>7, <2>3
    <3>2. (n + 2) * Width <= m * Width
      BY <1>2, <1>7, <3>1, Times
    <3>3. ((n + 1) + 1) * Width = (n + 1) * Width + Width
      BY <1>2, <3>1, Times
    <3>4. (n + 1) + 1 = n + 2
      OBVIOUS
    <3>5. N + Width + Width <= M
      BY <2>1, <3>2, <3>3, <3>4, <1>6
    <3> QED BY <1>2, <1>7, <1>8, <3>5
  <2> QED BY <1>7, <2>2, <2>3
<1>10. f = Width /\ N + Width = M
  BY <1>1, <1>2, <1>6, <1>7, <1>8, <1>9, Times
<1>11. SubSeq(R, 1, f) = Sent(q, n + 1)
  <2>1. Sent(q, n + 1) = SubSeq(T, N + 1, M)
    <3>1. (n + 1) - 1 = n
      OBVIOUS
    <3>2. ((n + 1) - 1) * Width + 1 = N + 1 /\ (n + 1) * Width = M
      BY <1>1, <1>6, <1>9, <3>1
    <3> QED BY <1>1, <3>2 DEF Sent, Width
  <2>2. PICK A, B : A = SubSeq(R, 1, f) /\ B = SubSeq(T, N + 1, M)
    OBVIOUS
  <2>3. M <= t /\ M \in Nat /\ N \in Nat /\ N < M /\ t \in Nat
    <3>1. /\ M \in Nat /\ N \in Nat /\ r \in Nat /\ f = M - N /\ N < M /\ f \in 1..r
          /\ N + r = S /\ S <= t /\ t \in Nat
      BY <1>1, <1>2, <1>3, <1>7, <1>8
    <3> QED BY <3>1
  <2>4. A \in Seq(Char) /\ Len(A) = f /\ \A i \in 1..f : A[i] = R[i]
    BY <1>1, <1>8, <2>2
  <2>5. B \in Seq(Char) /\ Len(B) = M - N /\ \A i \in 1..(M - N) : B[i] = T[N + i]
    <3>1. T \in Seq(Char) /\ Len(T) = t
      BY <1>2
    <3>2. N + 1 \in 1..t /\ M \in (N + 1)..t /\ M - (N + 1) + 1 = M - N
      BY <2>3
    <3>3. Len(B) = M - N /\ B \in Seq(Char)
      BY <2>2, <2>3, <3>1, <3>2
    <3>4. ASSUME NEW i \in 1..(M - N) PROVE B[i] = T[N + i]
      <4>1. i \in 1..(M - (N + 1) + 1) /\ (N + 1) + i - 1 = N + i
        BY <2>3
      <4>2. B[i] = T[(N + 1) + i - 1]
        BY <2>2, <2>3, <3>1, <3>2, <4>1
      <4> QED BY <4>1, <4>2
    <3> QED BY <3>3, <3>4
  <2>6. \A i \in 1..f : A[i] = B[i]
    <3>1. ASSUME NEW i \in 1..f PROVE A[i] = B[i]
      <4>1. i \in 1..r /\ i \in 1..(M - N)
        BY <1>2, <1>8
      <4> QED BY <1>3, <2>4, <2>5, <4>1
    <3> QED BY <3>1
  <2>7. A = B
    <3>1. Len(A) = Len(B) /\ Len(A) \in Nat
      BY <1>2, <1>8, <2>4, <2>5
    <3> QED BY <2>4, <2>5, <2>6, <3>1
  <2> QED BY <2>1, <2>2, <2>7
<1> QED BY <1>5, <1>9, <1>11

(***************************************************************************)
(* Lines that go out.                                                      *)
(***************************************************************************)
\* The lines of q that q never sent.
Strange(q, out) == {k \in 1..Len(out) : out[k][1] = q /\ ~Genuine(q, out[k][2])}

\* The lines of q are its first n, each once and in order.
InTurn(q, out, n) ==
    /\ \A k \in 1..Len(out) : out[k][1] = q => \E i \in 1..n : out[k][2] = Sent(q, i)
    /\ \A i \in 1..n : \E k \in 1..Len(out) : out[k][1] = q /\ out[k][2] = Sent(q, i)
    /\ \A k, l \in 1..Len(out) : k < l /\ out[k][1] = q /\ out[l][1] = q =>
          \E i, j \in 1..n : i < j /\ out[k][2] = Sent(q, i) /\ out[l][2] = Sent(q, j)

\* There are finitely many strange lines.
LEMMA StrangeCount ==
    ASSUME NEW q, NEW out, IsSeq(out)
    PROVE  IsFiniteSet(Strange(q, out)) /\ Cardinality(Strange(q, out)) \in Nat
<1>1. Len(out) \in Nat
  BY Appended
<1>2. IsFiniteSet(1..Len(out))
  BY <1>1, FS_Interval
<1>3. Strange(q, out) \subseteq 1..Len(out)
  BY DEF Strange
<1>4. IsFiniteSet(Strange(q, out))
  BY <1>2, <1>3, FS_Subset
<1> QED BY <1>4, FS_CardinalityType

\* A line of another peer, a message or a line that q has sent is not strange;
LEMMA NotStrange ==
    ASSUME NEW q, NEW out, IsSeq(out), NEW e, e[1] # q \/ Genuine(q, e[2])
    PROVE  Strange(q, Append(out, e)) = Strange(q, out)
<1>1. PICK s, m : s = Append(out, e) /\ m = Len(out)
  OBVIOUS
<1>2. m \in Nat /\ Len(s) = m + 1 /\ (\A k \in 1..m : s[k] = out[k]) /\ s[m + 1] = e
  BY <1>1, Appended
<1>3. ASSUME NEW k \in 1..(m + 1) PROVE k \in 1..m \/ k = m + 1
  BY <1>2
<1>4. \A k \in 1..m : k \in 1..(m + 1)
  BY <1>2
<1>5. \A k : k \in Strange(q, s) <=> k \in Strange(q, out)
  BY <1>1, <1>2, <1>3, <1>4 DEF Strange
<1> QED BY <1>1, <1>5

\* and any other makes one more.
LEMMA OneMoreStrange ==
    ASSUME NEW q, NEW out, IsSeq(out), NEW e
    PROVE  /\ Cardinality(Strange(q, Append(out, e))) \in Nat
           /\ Cardinality(Strange(q, Append(out, e))) <= Cardinality(Strange(q, out)) + 1
<1>1. PICK s, m : s = Append(out, e) /\ m = Len(out)
  OBVIOUS
<1>2. /\ IsSeq(s) /\ m \in Nat /\ Len(s) = m + 1
      /\ (\A k \in 1..m : s[k] = out[k]) /\ s[m + 1] = e
  BY <1>1, Appended
<1>3. PICK A, B : A = Strange(q, out) /\ B = Strange(q, s)
  OBVIOUS
<1>4. /\ IsFiniteSet(A) /\ Cardinality(A) \in Nat /\ IsFiniteSet(B) /\ Cardinality(B) \in Nat
  BY <1>2, <1>3, StrangeCount
<1>5. B \subseteq A \cup {m + 1}
  <2>1. ASSUME NEW k \in B PROVE k \in A \cup {m + 1}
    <3>1. k \in 1..(m + 1) /\ s[k][1] = q /\ ~Genuine(q, s[k][2])
      BY <1>2, <1>3, <2>1 DEF Strange
    <3>2. k \in 1..m \/ k = m + 1
      BY <1>2, <3>1
    <3>3. ASSUME k \in 1..m PROVE k \in A
      <4>1. s[k] = out[k]
        BY <1>2, <3>3
      <4> QED BY <1>1, <1>3, <3>1, <3>3, <4>1 DEF Strange
    <3> QED BY <3>2, <3>3
  <2> QED BY <2>1
<1>6. /\ IsFiniteSet(A \cup {m + 1})
      /\ Cardinality(A \cup {m + 1}) = Cardinality(A) \/ Cardinality(A \cup {m + 1}) = Cardinality(A) + 1
  BY <1>4, FS_AddElement
<1>7. Cardinality(B) <= Cardinality(A \cup {m + 1})
  BY <1>5, <1>6, FS_Subset
<1> QED BY <1>1, <1>3, <1>4, <1>6, <1>7

\* What others deliver does not disturb the order of q's lines,
LEMMA TurnKept ==
    ASSUME NEW q, NEW out, IsSeq(out), NEW e, e[1] # q, NEW n, InTurn(q, out, n)
    PROVE  InTurn(q, Append(out, e), n)
<1>1. PICK s, m : s = Append(out, e) /\ m = Len(out)
  OBVIOUS
<1>2. m \in Nat /\ Len(s) = m + 1 /\ (\A k \in 1..m : s[k] = out[k]) /\ s[m + 1] = e
  BY <1>1, Appended
<1>3. \A k \in 1..(m + 1) : s[k][1] = q => k \in 1..m
  <2>1. \A k \in 1..(m + 1) : k \in 1..m \/ k = m + 1
    BY <1>2
  <2> QED BY <1>2, <2>1
<1>4. \A k \in 1..m : k \in 1..(m + 1)
  BY <1>2
<1>5. \A k \in 1..Len(s) : s[k][1] = q => \E i \in 1..n : s[k][2] = Sent(q, i)
  BY <1>1, <1>2, <1>3 DEF InTurn
<1>6. \A i \in 1..n : \E k \in 1..Len(s) : s[k][1] = q /\ s[k][2] = Sent(q, i)
  <2>1. ASSUME NEW i \in 1..n PROVE \E k \in 1..Len(s) : s[k][1] = q /\ s[k][2] = Sent(q, i)
    <3>1. PICK k \in 1..m : out[k][1] = q /\ out[k][2] = Sent(q, i)
      BY <1>1 DEF InTurn
    <3> QED BY <1>2, <1>4, <3>1
  <2> QED BY <2>1
<1>7. \A k, l \in 1..Len(s) : k < l /\ s[k][1] = q /\ s[l][1] = q =>
          \E i, j \in 1..n : i < j /\ s[k][2] = Sent(q, i) /\ s[l][2] = Sent(q, j)
  <2>1. SUFFICES ASSUME NEW k \in 1..Len(s), NEW l \in 1..Len(s), k < l, s[k][1] = q, s[l][1] = q
                 PROVE  \E i, j \in 1..n : i < j /\ s[k][2] = Sent(q, i) /\ s[l][2] = Sent(q, j)
    OBVIOUS
  <2>2. k \in 1..m /\ l \in 1..m /\ s[k] = out[k] /\ s[l] = out[l]
    BY <1>2, <1>3, <2>1
  <2> QED BY <1>1, <2>1, <2>2 DEF InTurn
<1>8. InTurn(q, s, n)
  BY <1>5, <1>6, <1>7, Zenon DEF InTurn
<1> QED BY <1>1, <1>8

\* and its next line is put behind the others.
LEMMA NextTurn ==
    ASSUME NEW q, NEW out, IsSeq(out), NEW n \in Nat, InTurn(q, out, n)
    PROVE  InTurn(q, Append(out, <<q, Sent(q, n + 1)>>), n + 1)
<1>1. PICK e, s, m : e = <<q, Sent(q, n + 1)>> /\ s = Append(out, e) /\ m = Len(out)
  OBVIOUS
<1>2. /\ m \in Nat /\ Len(s) = m + 1 /\ (\A k \in 1..m : s[k] = out[k])
      /\ s[m + 1] = e /\ e[1] = q /\ e[2] = Sent(q, n + 1)
  BY <1>1, Appended
<1>3. \A k \in 1..(m + 1) : k \in 1..m \/ k = m + 1
  BY <1>2
<1>4. (\A k \in 1..m : k \in 1..(m + 1)) /\ m + 1 \in 1..(m + 1)
  BY <1>2
<1>5. (\A i \in 1..n : i \in 1..(n + 1) /\ i < n + 1) /\ n + 1 \in 1..(n + 1)
  OBVIOUS
<1>6. ASSUME NEW k \in 1..m, s[k][1] = q PROVE \E i \in 1..n : s[k][2] = Sent(q, i)
  <2>1. s[k] = out[k] /\ k \in 1..Len(out)
    BY <1>1, <1>2
  <2> QED BY <1>6, <2>1 DEF InTurn
<1>7. \A k \in 1..Len(s) : s[k][1] = q => \E i \in 1..(n + 1) : s[k][2] = Sent(q, i)
  BY <1>2, <1>3, <1>5, <1>6
<1>8. ASSUME NEW i \in 1..(n + 1) PROVE \E k \in 1..Len(s) : s[k][1] = q /\ s[k][2] = Sent(q, i)
  <2>1. CASE i = n + 1
    BY <1>2, <1>4, <2>1
  <2>2. CASE i # n + 1
    <3>1. i \in 1..n
      BY <2>2
    <3>2. PICK k \in 1..m : out[k][1] = q /\ out[k][2] = Sent(q, i)
      BY <1>1, <3>1 DEF InTurn
    <3> QED BY <1>2, <1>4, <3>2
  <2> QED BY <2>1, <2>2
<1>9. ASSUME NEW k \in 1..Len(s), NEW l \in 1..Len(s), k < l, s[k][1] = q, s[l][1] = q
      PROVE  \E i, j \in 1..(n + 1) : i < j /\ s[k][2] = Sent(q, i) /\ s[l][2] = Sent(q, j)
  <2>1. k \in 1..m
    BY <1>2, <1>9
  <2>2. CASE l = m + 1
    <3>1. PICK i \in 1..n : s[k][2] = Sent(q, i)
      BY <1>6, <1>9, <2>1
    <3>2. s[l][2] = Sent(q, n + 1)
      BY <1>2, <2>2
    <3> QED BY <1>5, <3>1, <3>2
  <2>3. CASE l # m + 1
    <3>1. l \in 1..m /\ s[k] = out[k] /\ s[l] = out[l]
      BY <1>2, <1>3, <2>1, <2>3
    <3>2. PICK i \in 1..n, j \in 1..n : i < j /\ out[k][2] = Sent(q, i) /\ out[l][2] = Sent(q, j)
      <4>1. /\ k \in 1..Len(out) /\ l \in 1..Len(out) /\ k < l
            /\ out[k][1] = q /\ out[l][1] = q
        BY <1>1, <1>9, <2>1, <3>1
      <4> QED BY <4>1, Zenon DEF InTurn
    <3> QED BY <1>5, <3>1, <3>2
  <2> QED BY <2>2, <2>3
<1>10. InTurn(q, s, n + 1)
  BY <1>7, <1>8, <1>9, Zenon DEF InTurn
<1> QED BY <1>1, <1>10

(***************************************************************************)
(* The invariant of the UDP receiver.  R is what is kept of q's text, S    *)
(* the end of its last datagram, out the lines that go out, r and b the    *)
(* refused lines and the breaks.                                           *)
(***************************************************************************)
\* Every break makes at most one strange or refused line, and while a damage is
\* still in R that line is to come.
PeerOK(q, R, S, out, r, b) ==
    \/ \E n \in 0..Lines[q] : /\ Clean(q, R, S, n)
                              /\ r + Cardinality(Strange(q, out)) <= b
                              /\ b = 0 => InTurn(q, out, n)
    \/ \E k \in Nat : Ragged(q, R, S, k) /\ r + Cardinality(Strange(q, out)) + 1 <= b

UdpType ==
    /\ workerPC \in {"read", "lines", "out", "done"}
    /\ seen \in [Peer -> Nat] /\ \A q \in Peer : seen[q] <= TextLength(q)
    /\ breaks \in [Peer -> Nat] /\ refused \in [Peer -> Nat]
    /\ records \in [Peer -> Seq(Char)] /\ data \in Seq(Char)

\* No record has a newline, and while a peer's datagram is split its record is gone.
StoreOK ==
    \A q \in Peer : /\ \A i \in 1..Len(records[q]) : records[q][i] # Newline
                    /\ Splitting(q) => records[q] = Empty /\ q \notin expired

\* A receiver has a receive goroutine or connections, not both.
SchemeOK ==
    /\ scheme # "udp" => workerPC = "done"
    /\ scheme = "udp" => acceptPC = "done" /\ \A c \in Conn : handlerPC[c] = "none"

PeersOK == \A q \in Peer : PeerOK(q, Rest(q), seen[q], Outgoing, refused[q], breaks[q])

UdpInv == UdpType /\ StoreOK /\ SchemeOK /\ PeersOK

\* Somebody else's line or message goes out.
LEMMA OtherGoesOut ==
    ASSUME NEW q \in Peer, NEW R, NEW S, NEW out, IsSeq(out), NEW r, NEW b, NEW e, e[1] # q,
           PeerOK(q, R, S, out, r, b)
    PROVE  PeerOK(q, R, S, Append(out, e), r, b)
<1>1. Strange(q, Append(out, e)) = Strange(q, out)
  BY NotStrange
<1>2. \A n : InTurn(q, out, n) => InTurn(q, Append(out, e), n)
  BY TurnKept
<1> QED BY <1>1, <1>2 DEF PeerOK

\* The next datagram of the text arrives.
LEMMA GoesOn ==
    ASSUME NEW q \in Peer, NEW R \in Seq(Char), NEW S \in Nat, NEW out, NEW r, NEW b,
           S + 1 \in 1..TextLength(q), NEW to \in (S + 1)..TextLength(q),
           PeerOK(q, R, S, out, r, b)
    PROVE  PeerOK(q, R \o SubSeq(Text(q), S + 1, to), to, out, r, b)
<1>1. PICK G : G = R \o SubSeq(Text(q), S + 1, to)
  OBVIOUS
<1>2. Lines[q] \in Nat /\ TextLength(q) \in Nat
  BY TextType
<1>3. CASE \E n \in 0..Lines[q] : /\ Clean(q, R, S, n)
                                  /\ r + Cardinality(Strange(q, out)) <= b
                                  /\ b = 0 => InTurn(q, out, n)
  <2>1. PICK n \in 0..Lines[q] : /\ Clean(q, R, S, n)
                                 /\ r + Cardinality(Strange(q, out)) <= b
                                 /\ b = 0 => InTurn(q, out, n)
    BY <1>3
  <2>2. n \in Nat
    BY <1>2
  <2>3. Clean(q, G, to, n)
    BY <1>1, <2>1, <2>2, CleanGrows
  <2> QED BY <1>1, <2>1, <2>3 DEF PeerOK
<1>4. CASE \E k \in Nat : Ragged(q, R, S, k) /\ r + Cardinality(Strange(q, out)) + 1 <= b
  <2>1. PICK k \in Nat : Ragged(q, R, S, k) /\ r + Cardinality(Strange(q, out)) + 1 <= b
    BY <1>4
  <2>2. PICK l : l = k + (to - S)
    OBVIOUS
  <2>3. l \in Nat
    BY <1>2, <2>2
  <2>4. Ragged(q, G, to, l)
    BY <1>1, <2>1, <2>2, RaggedGrows
  <2> QED BY <1>1, <2>1, <2>3, <2>4 DEF PeerOK
<1> QED BY <1>3, <1>4 DEF PeerOK

\* However much is damaged, it is less than the breaks, and a new one counts.
LEMMA DamageBound ==
    ASSUME NEW q \in Peer, NEW R, NEW S, NEW out, IsSeq(out), NEW r \in Nat, NEW b \in Nat,
           PeerOK(q, R, S, out, r, b)
    PROVE  r + Cardinality(Strange(q, out)) <= b
<1>1. PICK c : c = Cardinality(Strange(q, out))
  OBVIOUS
<1>2. c \in Nat
  BY <1>1, StrangeCount
<1>3. r + c <= b \/ r + c + 1 <= b
  BY <1>1 DEF PeerOK
<1> QED BY <1>1, <1>2, <1>3

\* A datagram arrives that does not continue the text, or the record has gone.
LEMMA Breaking ==
    ASSUME NEW q \in Peer, NEW R, NEW S, NEW out, IsSeq(out), NEW r \in Nat, NEW b \in Nat,
           PeerOK(q, R, S, out, r, b),
           NEW Q \in Seq(Char), \A i \in 1..Len(Q) : Q[i] # Newline,
           NEW from \in 1..TextLength(q), NEW to \in from..TextLength(q)
    PROVE  PeerOK(q, Q \o SubSeq(Text(q), from, to), to, out, r, b + 1)
<1>1. PICK k, G, c : /\ k = to - from + 1 /\ G = Q \o SubSeq(Text(q), from, to)
                     /\ c = Cardinality(Strange(q, out))
  OBVIOUS
<1>2. k \in Nat
  BY <1>1, TextType
<1>3. Ragged(q, G, to, k)
  BY <1>1, RaggedBegins
<1>4. r + c <= b /\ c \in Nat
  BY <1>1, DamageBound, StrangeCount
<1>5. r + c + 1 <= b + 1
  BY <1>4
<1> QED BY <1>1, <1>2, <1>3, <1>5 DEF PeerOK

\* A record is purged.
LEMMA Purging ==
    ASSUME NEW q \in Peer, NEW R, NEW S \in Nat, NEW out, IsSeq(out), NEW r \in Nat, NEW b \in Nat,
           PeerOK(q, R, S, out, r, b)
    PROVE  PeerOK(q, Empty, S, out, r, b + 1)
<1>1. PICK c : c = Cardinality(Strange(q, out))
  OBVIOUS
<1>2. r + c <= b /\ c \in Nat
  BY <1>1, DamageBound, StrangeCount
<1>3. r + c + 1 <= b + 1
  BY <1>2
<1>4. Ragged(q, Empty, S, 0)
  BY DEF Ragged, Empty
<1> QED BY <1>1, <1>3, <1>4 DEF PeerOK

\* A line is taken off and goes out,
LEMMA LineTaken ==
    ASSUME NEW q \in Peer, NEW R \in Seq(Char), NEW S \in Nat, S <= TextLength(q),
           NEW out, IsSeq(out), NEW r \in Nat, NEW b \in Nat, PeerOK(q, R, S, out, r, b),
           NEW f, First(R, f)
    PROVE  PeerOK(q, SubSeq(R, f + 1, Len(R)), S, Append(out, <<q, SubSeq(R, 1, f)>>), r, b)
<1>1. PICK Q, l, c, d, o : /\ Q = SubSeq(R, f + 1, Len(R)) /\ l = SubSeq(R, 1, f)
                           /\ c = Cardinality(Strange(q, out)) /\ o = Append(out, <<q, l>>)
                           /\ d = Cardinality(Strange(q, o))
  OBVIOUS
<1>2. Lines[q] \in Nat /\ f \in 1..Len(R) /\ R[f] = Newline
  BY TextType DEF First
<1>3. c \in Nat /\ d \in Nat /\ d <= c + 1
  BY <1>1, StrangeCount, OneMoreStrange
<1>4. CASE \E n \in 0..Lines[q] : Clean(q, R, S, n) /\ r + c <= b /\ (b = 0 => InTurn(q, out, n))
  <2>1. PICK n \in 0..Lines[q] : Clean(q, R, S, n) /\ r + c <= b /\ (b = 0 => InTurn(q, out, n))
    BY <1>4
  <2>2. n \in Nat
    BY <1>2
  <2>3. PICK g \in 1..Len(R) :
            /\ First(R, g) /\ SubSeq(R, 1, g) = Sent(q, n + 1)
            /\ Clean(q, SubSeq(R, g + 1, Len(R)), S, n + 1) /\ n + 1 \in 1..Lines[q]
    BY <1>2, <2>1, <2>2, CleanSplit
  <2>4. f = g
    BY <2>3, OneFirst
  <2>5. l = Sent(q, n + 1) /\ Clean(q, Q, S, n + 1) /\ n + 1 \in 1..Lines[q]
    BY <1>1, <2>3, <2>4
  <2>6. d = c
    <3>1. Genuine(q, l)
      BY <2>5 DEF Genuine
    <3>2. <<q, l>>[2] = l
      OBVIOUS
    <3> QED BY <1>1, <3>1, <3>2, NotStrange
  <2>7. b = 0 => InTurn(q, o, n + 1)
    BY <1>1, <2>1, <2>2, <2>5, NextTurn
  <2>8. n + 1 \in 0..Lines[q] /\ r + d <= b
    BY <1>2, <2>1, <2>2, <2>5, <2>6
  <2> QED BY <1>1, <2>5, <2>7, <2>8 DEF PeerOK
<1>5. CASE \E k \in Nat : Ragged(q, R, S, k) /\ r + c + 1 <= b
  <2>1. PICK k \in Nat : Ragged(q, R, S, k) /\ r + c + 1 <= b
    BY <1>5
  <2>2. PICK n \in 1..Lines[q], g \in 1..Len(R) :
            First(R, g) /\ Clean(q, SubSeq(R, g + 1, Len(R)), S, n)
    BY <1>2, <2>1, Split
  <2>3. f = g
    BY <2>2, OneFirst
  <2>4. Clean(q, Q, S, n) /\ n \in 0..Lines[q]
    BY <1>1, <1>2, <2>2, <2>3
  <2>5. r + d <= b /\ b # 0
    BY <1>3, <2>1
  <2> QED BY <1>1, <2>4, <2>5 DEF PeerOK
<1> QED BY <1>1, <1>4, <1>5 DEF PeerOK

\* or is refused.
LEMMA LineRefused ==
    ASSUME NEW q \in Peer, NEW R \in Seq(Char), NEW S \in Nat, S <= TextLength(q),
           NEW out, IsSeq(out), NEW r \in Nat, NEW b \in Nat, PeerOK(q, R, S, out, r, b),
           NEW f, First(R, f), ~Genuine(q, SubSeq(R, 1, f))
    PROVE  PeerOK(q, SubSeq(R, f + 1, Len(R)), S, out, r + 1, b)
<1>1. PICK Q, c : Q = SubSeq(R, f + 1, Len(R)) /\ c = Cardinality(Strange(q, out))
  OBVIOUS
<1>2. Lines[q] \in Nat /\ f \in 1..Len(R) /\ R[f] = Newline
  BY TextType DEF First
<1>3. c \in Nat
  BY <1>1, StrangeCount
<1>4. CASE \E n \in 0..Lines[q] : Clean(q, R, S, n)
  <2>1. PICK n \in 0..Lines[q] : Clean(q, R, S, n)
    BY <1>4
  <2>2. n \in Nat
    BY <1>2
  <2>3. PICK g \in 1..Len(R) :
            First(R, g) /\ SubSeq(R, 1, g) = Sent(q, n + 1) /\ n + 1 \in 1..Lines[q]
    BY <1>2, <2>1, <2>2, CleanSplit
  <2>4. f = g
    BY <2>3, OneFirst
  <2> QED BY <2>3, <2>4 DEF Genuine
<1>5. CASE \E k \in Nat : Ragged(q, R, S, k) /\ r + c + 1 <= b
  <2>1. PICK k \in Nat : Ragged(q, R, S, k) /\ r + c + 1 <= b
    BY <1>5
  <2>2. PICK n \in 1..Lines[q], g \in 1..Len(R) :
            First(R, g) /\ Clean(q, SubSeq(R, g + 1, Len(R)), S, n)
    BY <1>2, <2>1, Split
  <2>3. f = g
    BY <2>2, OneFirst
  <2>4. Clean(q, Q, S, n) /\ n \in 0..Lines[q]
    BY <1>1, <1>2, <2>2, <2>3
  <2>5. r + 1 + c <= b /\ b # 0
    BY <1>3, <2>1
  <2> QED BY <1>1, <2>4, <2>5 DEF PeerOK
<1> QED BY <1>1, <1>4, <1>5 DEF PeerOK

(***************************************************************************)
(* The steps.                                                              *)
(***************************************************************************)
\* What goes out behind d.
LEMMA OutgoingOf ==
    ASSUME NEW d, IsSeq(d), NEW x
    PROVE  d \o Empty = d /\ d \o <<x>> = Append(d, x)
<1>1. PICK A : d \in Seq(A)
  BY DEF IsSeq
<1>2. \A k \in 1..Len(d) : d[k] \in A \cup {x}
  BY <1>1
<1>3. d \in Seq(A \cup {x}) /\ <<x>> \in Seq(A \cup {x})
  BY <1>1, <1>2
<1> QED BY <1>3 DEF Empty

\* With a line in hand it goes out last, now
LEMMA OutgoingSeq ==
    ASSUME IsSeq(delivered)
    PROVE  /\ workerPC # "out" => Outgoing = delivered
           /\ workerPC = "out" => Outgoing = Append(delivered, <<peer, line>>)
           /\ IsSeq(Outgoing)
<1>1. /\ workerPC # "out" => Outgoing = delivered
      /\ workerPC = "out" => Outgoing = Append(delivered, <<peer, line>>)
  <2>1. delivered \o Empty = delivered
    BY OutgoingOf
  <2>2. delivered \o << <<peer, line>> >> = Append(delivered, <<peer, line>>)
    BY OutgoingOf
  <2> QED BY <2>1, <2>2 DEF Outgoing
<1>2. IsSeq(Append(delivered, <<peer, line>>))
  BY Appended
<1> QED BY <1>1, <1>2

\* and after a step.
LEMMA OutgoingSeqNext ==
    ASSUME IsSeq(delivered')
    PROVE  /\ workerPC' # "out" => Outgoing' = delivered'
           /\ workerPC' = "out" => Outgoing' = Append(delivered', <<peer', line'>>)
<1>1. delivered' \o Empty = delivered'
  BY OutgoingOf
<1>2. delivered' \o << <<peer', line'>> >> = Append(delivered', <<peer', line'>>)
  BY OutgoingOf
<1> QED BY <1>1, <1>2 DEF Outgoing

\* A step that changes nothing of a peer.
LEMMA PeersQuiet ==
    ASSUME PeersOK, UNCHANGED <<seen, refused, breaks, Outgoing>>,
           \A q \in Peer : Rest(q)' = Rest(q)
    PROVE  PeersOK'
<1> SUFFICES ASSUME NEW q \in Peer
             PROVE  PeerOK(q, Rest(q)', seen'[q], Outgoing', refused'[q], breaks'[q])
    BY DEF PeersOK
<1>1. PeerOK(q, Rest(q), seen[q], Outgoing, refused[q], breaks[q])
  BY DEF PeersOK
<1> QED BY <1>1

\* Nothing has arrived and nothing is damaged.
LEMMA InitUdp == ReceiversInit => UdpInv
<1> SUFFICES ASSUME ReceiversInit PROVE UdpInv
    OBVIOUS
<1> USE DEF ReceiversInit, Init
<1>1. UdpType
  <2>1. \A q \in Peer : 0 <= TextLength(q) /\ Empty \in Seq(Char)
    BY TextType DEF Empty
  <2>2. data \in Seq(Char)
    BY DEF Empty
  <2> QED BY <2>1, <2>2 DEF UdpType
<1>2. StoreOK
  BY DEF StoreOK, Splitting, Empty
<1>3. SchemeOK
  BY DEF SchemeOK
<1>4. PeersOK
  <2> SUFFICES ASSUME NEW q \in Peer
               PROVE  PeerOK(q, Rest(q), seen[q], Outgoing, refused[q], breaks[q])
      BY DEF PeersOK
  <2>1. Rest(q) = Empty /\ seen[q] = 0 /\ refused[q] = 0 /\ breaks[q] = 0
    BY DEF Rest, Splitting
  <2>2. Outgoing = Empty
    <3>1. workerPC # "out" /\ delivered = Empty
      OBVIOUS
    <3> QED BY <3>1 DEF Outgoing, Empty
  <2>3. 0 * Width = 0 /\ Lines[q] \in Nat
    BY TextType
  <2>4. Clean(q, Empty, 0, 0)
    BY <2>3 DEF Clean, Empty
  <2>5. InTurn(q, Empty, 0)
    BY DEF InTurn, Empty
  <2>6. Cardinality(Strange(q, Empty)) = 0
    <3>1. Strange(q, Empty) = {}
      BY DEF Strange, Empty
    <3> QED BY <3>1, FS_EmptySet
  <2>7. PeerOK(q, Empty, 0, Empty, 0, 0)
    <3>1. 0 \in 0..Lines[q]
      BY <2>3
    <3> QED BY <2>4, <2>5, <2>6, <3>1 DEF PeerOK
  <2> QED BY <2>1, <2>2, <2>7
<1> QED BY <1>1, <1>2, <1>3, <1>4 DEF UdpInv

\* The steps of the TCP receivers: with UDP there is no connection that could
\* deliver between the lines.
LEMMA TcpStepUdp ==
    ASSUME ReceiverInv, UdpInv, Next, UNCHANGED udpVars PROVE UdpInv'
<1>1. /\ UNCHANGED <<workerPC, scheme, data, peer, line, records, expired, seen, breaks, refused>>
      /\ Len(delivered) \in Nat
  <2>1. UNCHANGED kindVars
    BY DEF Next, StopBegin, StopEnds, Listener, CloseSocket, AcceptEnds, Accept, CacheReceive,
           Stat, StatLoad, StatSubtract, Handler, HandlerStart, Fill, ReadItem, ReadBad, Count,
           Out, ReadFails, Watcher, WatcherFinished, WatcherExit, Client, ClientClose, ClientSend
  <2>2. IsSeq(delivered)
    BY DEF ReceiverInv, ConnType
  <2> QED BY <2>1, <2>2, Appended DEF kindVars, udpVars
<1>2. UdpType' /\ StoreOK'
  BY <1>1 DEF UdpInv, UdpType, StoreOK, Splitting
<1>3. SchemeOK'
  <2>1. scheme = "udp" => acceptPC' = acceptPC
    BY DEF UdpInv, SchemeOK, Next, StopBegin, StopEnds, Listener, CloseSocket, AcceptEnds, Accept,
           CacheReceive, Stat, StatLoad, StatSubtract, Handler, HandlerStart, Fill, ReadItem,
           ReadBad, Count, Out, ReadFails, Watcher, WatcherFinished, WatcherExit, Client,
           ClientClose, ClientSend, stopVars
  <2>2. scheme = "udp" => handlerPC' = handlerPC
    BY DEF UdpInv, SchemeOK, Next, StopBegin, StopEnds, Listener, CloseSocket, AcceptEnds, Accept,
           CacheReceive, Stat, StatLoad, StatSubtract, Handler, HandlerStart, Fill, ReadItem,
           ReadBad, Count, Out, ReadFails, Watcher, WatcherFinished, WatcherExit, Client,
           ClientClose, ClientSend, connVars
  <2> QED BY <1>1, <2>1, <2>2 DEF UdpInv, SchemeOK
<1>4. \A q \in Peer : Rest(q)' = Rest(q)
  BY <1>1 DEF Rest, Splitting
<1>5. delivered' = delivered \/ \E c \in Conn : Out(c)
  BY DEF Next, StopBegin, StopEnds, Listener, CloseSocket, AcceptEnds, Accept, CacheReceive,
         Stat, StatLoad, StatSubtract, Handler, HandlerStart, Fill, ReadItem, ReadBad, Count,
         ReadFails, Watcher, WatcherFinished, WatcherExit, Client, ClientClose, ClientSend, outVars
<1>6. CASE delivered' = delivered
  <2>1. Outgoing' = Outgoing
    BY <1>1, <1>6 DEF Outgoing
  <2> QED BY <1>1, <1>2, <1>3, <1>4, <2>1, PeersQuiet DEF UdpInv
<1>7. CASE \E c \in Conn : Out(c)
  <2>1. PICK c \in Conn : Out(c)
    BY <1>7
  <2>2. PICK e : e = Head(pending[c])
    OBVIOUS
  <2>3. delivered' = Append(delivered, e) /\ handlerPC[c] = "out"
    BY <2>1, <2>2 DEF Out
  <2>4. e[1] = c
    <3>1. Sending(c)
      BY <2>3 DEF ReceiverInv, PendingOK
    <3>2. pending[c] \in Seq(Conn \X Nat \X Nat) /\ 1 \in 1..Len(pending[c])
      BY <3>1 DEF Sending, ReceiverInv, ConnType
    <3>3. pending[c][1][1] = c
      BY <3>1, <3>2 DEF Sending
    <3> QED BY <2>2, <3>2, <3>3
  <2>5. workerPC # "out" /\ workerPC' # "out"
    BY <1>1, <2>3 DEF UdpInv, SchemeOK
  <2>6. IsSeq(delivered) /\ IsSeq(delivered')
    BY <2>3, Appended DEF ReceiverInv, ConnType
  <2>7. Outgoing = delivered /\ Outgoing' = Append(delivered, e)
    BY <2>3, <2>5, <2>6, OutgoingSeq, OutgoingSeqNext
  <2>8. PeersOK'
    <3> SUFFICES ASSUME NEW q \in Peer
                 PROVE  PeerOK(q, Rest(q)', seen'[q], Outgoing', refused'[q], breaks'[q])
        BY DEF PeersOK
    <3>1. PeerOK(q, Rest(q), seen[q], delivered, refused[q], breaks[q])
      BY <2>7 DEF UdpInv, PeersOK
    <3>2. e[1] # q
      BY <2>4, UdpAssumption
    <3>3. PeerOK(q, Rest(q), seen[q], Append(delivered, e), refused[q], breaks[q])
      BY <2>6, <3>1, <3>2, OtherGoesOut
    <3> QED BY <1>1, <1>4, <2>7, <3>3
  <2> QED BY <1>2, <1>3, <2>8 DEF UdpInv
<1> QED BY <1>5, <1>6, <1>7

\* A record expires, or a second has passed.
LEMMA ClockUdp == ASSUME ReceiverInv, UdpInv, Clock PROVE UdpInv'
<1>1. UNCHANGED <<vars, records, peer, data, line, seen, breaks, refused>>
  BY DEF Clock, PurgeTick, Expire
<1>2. UNCHANGED <<workerPC, scheme, acceptPC, handlerPC, delivered>>
  BY <1>1 DEF vars, kindVars, stopVars, connVars, outVars
<1>3. UdpType' /\ SchemeOK'
  BY <1>1, <1>2 DEF UdpInv, UdpType, SchemeOK
<1>4. StoreOK'
  <2> SUFFICES ASSUME NEW q \in Peer
               PROVE  /\ \A i \in 1..Len(records'[q]) : records'[q][i] # Newline
                      /\ Splitting(q)' => records'[q] = Empty /\ q \notin expired'
      BY DEF StoreOK
  <2>1. /\ \A i \in 1..Len(records[q]) : records[q][i] # Newline
        /\ Splitting(q) => records[q] = Empty /\ q \notin expired
    BY DEF UdpInv, StoreOK
  <2>2. Splitting(q)' <=> Splitting(q)
    BY <1>1, <1>2 DEF Splitting
  <2>3. records[q] = Empty /\ q \notin expired => q \notin expired'
    BY DEF Clock, PurgeTick, Expire
  <2> QED BY <1>1, <2>1, <2>2, <2>3
<1>5. PeersOK'
  <2>1. Outgoing' = Outgoing
    BY <1>1, <1>2 DEF Outgoing
  <2>2. \A q \in Peer : Rest(q)' = Rest(q)
    BY <1>1, <1>2 DEF Rest, Splitting
  <2> QED BY <1>1, <2>1, <2>2, PeersQuiet DEF UdpInv
<1> QED BY <1>3, <1>4, <1>5 DEF UdpInv

\* A datagram arrives.
LEMMA ReadUdp ==
    ASSUME ReceiverInv, UdpInv, NEW p \in Peer, NEW from \in 1..TextLength(p),
           NEW to \in from..TextLength(p), ReadFromUDP(p, from, to)
    PROVE  UdpInv'
<1>1. PICK P, G : P = Pop(p) /\ G = P \o SubSeq(Text(p), from, to)
  OBVIOUS
<1>2. /\ workerPC = "read" /\ workerPC' = "lines" /\ peer' = p /\ data' = G
      /\ records' = [records EXCEPT ![p] = Empty] /\ expired' = expired \ {p}
      /\ seen' = [seen EXCEPT ![p] = to]
      /\ breaks' = [breaks EXCEPT ![p] = @ + (IF Broken(p, from) THEN 1 ELSE 0)]
      /\ UNCHANGED <<scheme, acceptPC, handlerPC, delivered, refused>>
  BY <1>1 DEF ReadFromUDP, tcpVars, stopVars, connVars, outVars
<1>3. /\ TextLength(p) \in Nat /\ to \in Nat /\ to <= TextLength(p)
      /\ IsSeq(delivered) /\ IsSeq(delivered')
  BY <1>2, TextType DEF ReceiverInv, ConnType
<1>4. P \in Seq(Char) /\ \A i \in 1..Len(P) : P[i] # Newline
  <2>1. P = Empty \/ P = records[p]
    BY <1>1 DEF Pop
  <2>2. CASE P = Empty
    BY <2>2 DEF Empty
  <2>3. CASE P = records[p]
    BY <2>3 DEF UdpInv, UdpType, StoreOK
  <2> QED BY <2>1, <2>2, <2>3
<1>5. G \in Seq(Char)
  BY <1>1, <1>4, Glued
<1>6. /\ breaks[p] \in Nat /\ seen[p] \in Nat /\ refused[p] \in Nat
      /\ seen'[p] = to /\ records'[p] = Empty
      /\ breaks'[p] = breaks[p] + (IF Broken(p, from) THEN 1 ELSE 0)
      /\ \A q \in Peer : q # p =>
            seen'[q] = seen[q] /\ records'[q] = records[q] /\ breaks'[q] = breaks[q]
  BY <1>2 DEF UdpInv, UdpType
<1>7. UdpType'
  <2>1. seen' \in [Peer -> Nat] /\ \A q \in Peer : seen'[q] <= TextLength(q)
    BY <1>2, <1>3, <1>6 DEF UdpInv, UdpType
  <2>2. breaks' \in [Peer -> Nat]
    BY <1>2 DEF UdpInv, UdpType
  <2>3. records' \in [Peer -> Seq(Char)]
    <3>1. Empty \in Seq(Char)
      BY DEF Empty
    <3> QED BY <1>2, <3>1 DEF UdpInv, UdpType
  <2> QED BY <1>2, <1>5, <2>1, <2>2, <2>3 DEF UdpInv, UdpType
<1>8. SchemeOK'
  BY <1>2 DEF UdpInv, SchemeOK
<1>9. StoreOK'
  <2> SUFFICES ASSUME NEW q \in Peer
               PROVE  /\ \A i \in 1..Len(records'[q]) : records'[q][i] # Newline
                      /\ Splitting(q)' => records'[q] = Empty /\ q \notin expired'
      BY DEF StoreOK
  <2>1. CASE q = p
    BY <1>2, <1>6, <2>1 DEF Empty
  <2>2. CASE q # p
    BY <1>2, <1>6, <2>2 DEF UdpInv, StoreOK, Splitting
  <2> QED BY <2>1, <2>2
<1>10. Outgoing = delivered /\ Outgoing' = delivered
  BY <1>2, <1>3, OutgoingSeq, OutgoingSeqNext
<1>11. PeersOK'
  <2> SUFFICES ASSUME NEW q \in Peer
               PROVE  PeerOK(q, Rest(q)', seen'[q], Outgoing', refused'[q], breaks'[q])
      BY DEF PeersOK
  <2>1. Rest(q) = records[q]
    BY <1>2 DEF Rest, Splitting
  <2>2. PeerOK(q, records[q], seen[q], delivered, refused[q], breaks[q])
    BY <1>10, <2>1 DEF UdpInv, PeersOK
  <2>3. CASE q # p
    <3>1. Rest(q)' = records[q]
      BY <1>2, <1>6, <2>3 DEF Rest, Splitting
    <3> QED BY <1>2, <1>6, <1>10, <2>2, <2>3, <3>1
  <2>4. CASE q = p
    <3>1. Rest(q)' = G
      BY <1>2, <2>4 DEF Rest, Splitting
    <3>2. PeerOK(p, records[p], seen[p], delivered, refused[p], breaks[p])
      BY <2>2, <2>4
    <3>3. CASE Broken(p, from)
      <4>1. PeerOK(p, G, to, delivered, refused[p], breaks[p] + 1)
        BY <1>1, <1>3, <1>4, <1>6, <3>2, Breaking
      <4> QED BY <1>2, <1>6, <1>10, <2>4, <3>1, <3>3, <4>1
    <3>4. CASE ~Broken(p, from)
      <4>1. from = seen[p] + 1 /\ P = records[p] /\ breaks'[p] = breaks[p]
        BY <1>1, <1>6, <3>4 DEF Broken, Pop
      <4>2. /\ seen[p] + 1 \in 1..TextLength(p) /\ to \in (seen[p] + 1)..TextLength(p)
            /\ records[p] \in Seq(Char)
        BY <1>4, <4>1
      <4>3. PeerOK(p, records[p] \o SubSeq(Text(p), seen[p] + 1, to), to, delivered, refused[p],
                   breaks[p])
        BY <1>6, <3>2, <4>2, GoesOn
      <4> QED BY <1>1, <1>2, <1>6, <1>10, <2>4, <3>1, <4>1, <4>3
    <3> QED BY <3>3, <3>4
  <2> QED BY <2>3, <2>4
<1> QED BY <1>7, <1>8, <1>9, <1>11 DEF UdpInv

\* A line is split off.
LEMMA SplitUdp ==
    ASSUME ReceiverInv, UdpInv, NEW ok \in BOOLEAN, SplitLine(ok) PROVE UdpInv'
<1>1. PICK p, f, l, D : /\ p = peer /\ f = FirstNewline /\ l = SubSeq(data, 1, f)
                        /\ D = SubSeq(data, f + 1, Len(data))
  OBVIOUS
<1>2. /\ workerPC = "lines" /\ HasNewline /\ (Genuine(p, l) => ok) /\ data' = D
      /\ UNCHANGED <<scheme, acceptPC, handlerPC, delivered, records, expired, peer, seen, breaks>>
      /\ IF ok THEN line' = l /\ workerPC' = "out" /\ refused' = refused
               ELSE workerPC' = "lines" /\ line' = line /\ refused' = [refused EXCEPT ![p] = @ + 1]
  BY <1>1 DEF SplitLine, tcpVars, stopVars, connVars, outVars
<1>3. /\ p \in Peer /\ data \in Seq(Char) /\ IsSeq(delivered) /\ IsSeq(delivered')
      /\ workerPC' \in {"lines", "out"}
  BY <1>1, <1>2 DEF ReceiverInv, ConnType, PeerType, UdpInv, UdpType
<1>4. /\ seen[p] \in Nat /\ seen[p] <= TextLength(p) /\ breaks[p] \in Nat /\ refused[p] \in Nat
  BY <1>3 DEF UdpInv, UdpType
<1>5. Outgoing = delivered /\ Rest(p) = data
  BY <1>1, <1>2, <1>3, OutgoingSeq DEF Rest, Splitting
<1>6. PeerOK(p, data, seen[p], delivered, refused[p], breaks[p])
  BY <1>3, <1>5 DEF UdpInv, PeersOK
<1>7. First(data, f)
  <2>1. PICK h \in 1..Len(data) : data[h] = Newline
    BY <1>2 DEF HasNewline
  <2>2. \E g \in 1..Len(data) : First(data, g)
    <3>1. CASE \E n \in 0..Lines[p] : Clean(p, data, seen[p], n)
      <4>1. PICK n \in 0..Lines[p] : Clean(p, data, seen[p], n)
        BY <3>1
      <4>2. n \in Nat
        BY <1>3, TextType
      <4> QED BY <1>3, <1>4, <2>1, <4>1, <4>2, CleanSplit
    <3>2. CASE \E k \in Nat : Ragged(p, data, seen[p], k)
      <4>1. PICK k \in Nat : Ragged(p, data, seen[p], k)
        BY <3>2
      <4> QED BY <1>3, <1>4, <2>1, <4>1, Split
    <3> QED BY <1>6, <3>1, <3>2 DEF PeerOK
  <2>3. PICK g \in 1..Len(data) : data[g] = Newline /\ \A j \in 1..(g - 1) : data[j] # Newline
    BY <2>2 DEF First
  <2>4. f \in 1..Len(data) /\ data[f] = Newline /\ \A j \in 1..(f - 1) : data[j] # Newline
    BY <1>1, <2>3 DEF FirstNewline
  <2> QED BY <2>4 DEF First
<1>8. D \in Seq(Char)
  <2>1. f \in 1..Len(data) /\ Len(data) \in Nat
    BY <1>3, <1>7 DEF First
  <2>2. f + 1 \in Nat /\ f + 1 >= 1
    BY <2>1
  <2> QED BY <1>1, <1>3, <2>1, <2>2
<1>9. UdpType'
  <2>1. refused' \in [Peer -> Nat]
    BY <1>2, <1>3 DEF UdpInv, UdpType
  <2> QED BY <1>2, <1>3, <1>8, <2>1 DEF UdpInv, UdpType
<1>10. SchemeOK'
  BY <1>2, <1>3 DEF UdpInv, SchemeOK
<1>11. StoreOK'
  <2>1. \A q \in Peer : Splitting(q)' <=> Splitting(q)
    BY <1>2, <1>3 DEF Splitting
  <2> QED BY <1>2, <2>1 DEF UdpInv, StoreOK
<1>12. /\ ok => Outgoing' = Append(delivered, <<p, l>>)
       /\ ~ok => Outgoing' = delivered
  BY <1>1, <1>2, <1>3, OutgoingSeqNext
<1>13. PeersOK'
  <2> SUFFICES ASSUME NEW q \in Peer
               PROVE  PeerOK(q, Rest(q)', seen'[q], Outgoing', refused'[q], breaks'[q])
      BY DEF PeersOK
  <2>1. CASE q = p
    <3>1. Rest(q)' = D
      BY <1>1, <1>2, <1>3, <2>1 DEF Rest, Splitting
    <3>2. CASE ok
      <4>1. PeerOK(p, D, seen[p], Append(delivered, <<p, l>>), refused[p], breaks[p])
        BY <1>1, <1>3, <1>4, <1>6, <1>7, LineTaken
      <4> QED BY <1>2, <1>12, <2>1, <3>1, <3>2, <4>1
    <3>3. CASE ~ok
      <4>1. ~Genuine(p, l)
        BY <1>2, <3>3
      <4>2. PeerOK(p, D, seen[p], delivered, refused[p] + 1, breaks[p])
        BY <1>1, <1>3, <1>4, <1>6, <1>7, <4>1, LineRefused
      <4>3. refused'[p] = refused[p] + 1
        BY <1>2, <1>3, <3>3 DEF UdpInv, UdpType
      <4> QED BY <1>2, <1>12, <2>1, <3>1, <3>3, <4>2, <4>3
    <3> QED BY <3>2, <3>3
  <2>2. CASE q # p
    <3>1. Rest(q)' = Rest(q) /\ refused'[q] = refused[q]
      BY <1>1, <1>2, <1>3, <2>2 DEF Rest, Splitting, UdpInv, UdpType
    <3>2. PeerOK(q, Rest(q), seen[q], delivered, refused[q], breaks[q])
      BY <1>5 DEF UdpInv, PeersOK
    <3>3. CASE ok
      <4>1. <<p, l>>[1] # q
        BY <2>2
      <4>2. PeerOK(q, Rest(q), seen[q], Append(delivered, <<p, l>>), refused[q], breaks[q])
        BY <1>3, <3>2, <4>1, OtherGoesOut
      <4> QED BY <1>2, <1>12, <3>1, <3>3, <4>2
    <3>4. CASE ~ok
      BY <1>2, <1>12, <3>1, <3>2, <3>4
    <3> QED BY <3>3, <3>4
  <2> QED BY <2>1, <2>2
<1> QED BY <1>9, <1>10, <1>11, <1>13 DEF UdpInv

\* A line enters the input channel.
LEMMA OutUdp == ASSUME ReceiverInv, UdpInv, OutLine PROVE UdpInv'
<1>1. /\ workerPC = "out" /\ workerPC' = "lines" /\ delivered' = Append(delivered, <<peer, line>>)
      /\ UNCHANGED <<scheme, acceptPC, handlerPC, records, expired, peer, data, seen, breaks,
                     refused>>
  BY DEF OutLine, tcpVars, stopVars, connVars
<1>2. IsSeq(delivered) /\ IsSeq(delivered')
  BY <1>1, Appended DEF ReceiverInv, ConnType
<1>3. Outgoing' = Outgoing
  BY <1>1, <1>2, OutgoingSeq, OutgoingSeqNext
<1>4. \A q \in Peer : (Splitting(q)' <=> Splitting(q)) /\ Rest(q)' = Rest(q)
  BY <1>1 DEF Rest, Splitting
<1>5. UdpType' /\ SchemeOK' /\ StoreOK'
  BY <1>1, <1>4 DEF UdpInv, UdpType, SchemeOK, StoreOK
<1>6. PeersOK'
  BY <1>1, <1>3, <1>4, PeersQuiet DEF UdpInv
<1> QED BY <1>5, <1>6 DEF UdpInv

\* The rest of a datagram is stored, and the store may be purged.
LEMMA StoreUdp == ASSUME ReceiverInv, UdpInv, StoreRest PROVE UdpInv'
<1>1. PICK p, stored : /\ p = peer
                       /\ stored = IF data = Empty THEN records ELSE [records EXCEPT ![peer] = data]
  OBVIOUS
<1>2. /\ workerPC = "lines" /\ ~HasNewline /\ workerPC' = "read" /\ data' = Empty
      /\ UNCHANGED <<scheme, acceptPC, handlerPC, delivered, seen, refused>>
      /\ \/ /\ records' = Purge(stored) /\ expired' = {}
            /\ breaks' = [q \in Peer |-> breaks[q] + (IF q \in expired \ {p} THEN 1 ELSE 0)]
         \/ records' = stored /\ UNCHANGED <<expired, breaks>>
  BY <1>1 DEF StoreRest, tcpVars, stopVars, connVars, outVars
<1>3. /\ p \in Peer /\ Splitting(p) /\ records[p] = Empty /\ p \notin expired
      /\ data \in Seq(Char) /\ records \in [Peer -> Seq(Char)] /\ breaks \in [Peer -> Nat]
      /\ IsSeq(delivered) /\ IsSeq(delivered')
  BY <1>1, <1>2 DEF ReceiverInv, ConnType, PeerType, UdpInv, UdpType, StoreOK, Splitting
<1>4. /\ stored \in [Peer -> Seq(Char)] /\ stored[p] = data
      /\ \A q \in Peer : q # p => stored[q] = records[q]
  <2>1. CASE data = Empty
    BY <1>1, <1>3, <2>1
  <2>2. CASE data # Empty
    <3>1. stored = [records EXCEPT ![p] = data]
      BY <1>1, <2>2
    <3> QED BY <1>3, <3>1
  <2> QED BY <2>1, <2>2
<1>5. \A q \in Peer : stored[q] = Rest(q) /\ \A i \in 1..Len(stored[q]) : stored[q][i] # Newline
  <2> SUFFICES ASSUME NEW q \in Peer
               PROVE  stored[q] = Rest(q) /\ \A i \in 1..Len(stored[q]) : stored[q][i] # Newline
      OBVIOUS
  <2>1. CASE q = p
    BY <1>2, <1>3, <1>4, <2>1 DEF Rest, HasNewline
  <2>2. CASE q # p
    BY <1>1, <1>4, <2>2 DEF Rest, Splitting, UdpInv, StoreOK
  <2> QED BY <2>1, <2>2
<1>6. /\ Empty \in Seq(Char) /\ \A i \in 1..Len(Empty) : Empty[i] # Newline
  BY DEF Empty
<1>7. \A q \in Peer : \/ records'[q] = stored[q] /\ breaks'[q] = breaks[q]
                      \/ records'[q] = Empty /\ breaks'[q] = breaks[q] + 1
  <2>1. CASE records' = stored /\ UNCHANGED breaks
    BY <2>1
  <2>2. CASE /\ records' = Purge(stored)
             /\ breaks' = [q \in Peer |-> breaks[q] + (IF q \in expired \ {p} THEN 1 ELSE 0)]
    <3> SUFFICES ASSUME NEW q \in Peer
                 PROVE  \/ records'[q] = stored[q] /\ breaks'[q] = breaks[q]
                        \/ records'[q] = Empty /\ breaks'[q] = breaks[q] + 1
        OBVIOUS
    <3>1. breaks[q] \in Nat
      BY <1>3
    <3>2. CASE q \in expired \ {p}
      BY <1>1, <2>2, <3>2 DEF Purge
    <3>3. CASE q \notin expired \ {p}
      <4>1. records'[q] = stored[q] /\ breaks'[q] = breaks[q] + 0
        BY <1>1, <2>2, <3>3 DEF Purge
      <4> QED BY <3>1, <4>1
    <3> QED BY <3>2, <3>3
  <2> QED BY <1>2, <2>1, <2>2
<1>8. records' \in [Peer -> Seq(Char)] /\ breaks' \in [Peer -> Nat]
  <2>1. CASE records' = stored /\ UNCHANGED breaks
    BY <1>3, <1>4, <2>1
  <2>2. CASE /\ records' = Purge(stored)
             /\ breaks' = [q \in Peer |-> breaks[q] + (IF q \in expired \ {p} THEN 1 ELSE 0)]
    BY <1>3, <1>4, <1>6, <2>2 DEF Purge
  <2> QED BY <1>2, <2>1, <2>2
<1>9. UdpType' /\ SchemeOK'
  BY <1>2, <1>6, <1>8 DEF UdpInv, UdpType, SchemeOK
<1>10. StoreOK'
  <2>1. \A q \in Peer : ~Splitting(q)'
    BY <1>2 DEF Splitting
  <2>2. \A q \in Peer : \A i \in 1..Len(records'[q]) : records'[q][i] # Newline
    BY <1>5, <1>6, <1>7
  <2> QED BY <2>1, <2>2 DEF StoreOK
<1>11. Outgoing = delivered /\ Outgoing' = delivered
  BY <1>2, <1>3, OutgoingSeq, OutgoingSeqNext
<1>12. PeersOK'
  <2> SUFFICES ASSUME NEW q \in Peer
               PROVE  PeerOK(q, Rest(q)', seen'[q], Outgoing', refused'[q], breaks'[q])
      BY DEF PeersOK
  <2>1. Rest(q)' = records'[q]
    BY <1>2 DEF Rest, Splitting
  <2>2. PeerOK(q, stored[q], seen[q], delivered, refused[q], breaks[q])
    BY <1>5, <1>11 DEF UdpInv, PeersOK
  <2>3. seen[q] \in Nat /\ refused[q] \in Nat /\ breaks[q] \in Nat
    BY DEF UdpInv, UdpType
  <2>4. PeerOK(q, Empty, seen[q], delivered, refused[q], breaks[q] + 1)
    BY <1>3, <2>2, <2>3, Purging
  <2>5. CASE records'[q] = stored[q] /\ breaks'[q] = breaks[q]
    BY <1>2, <1>11, <2>1, <2>2, <2>5
  <2>6. CASE records'[q] = Empty /\ breaks'[q] = breaks[q] + 1
    BY <1>2, <1>11, <2>1, <2>4, <2>6
  <2> QED BY <1>7, <2>5, <2>6
<1> QED BY <1>9, <1>10, <1>12 DEF UdpInv

\* The goroutine ends, or nothing happens.
LEMMA EndUdp == ASSUME UdpInv, WorkerEnds \/ UNCHANGED allVars PROVE UdpInv'
<1>1. /\ UNCHANGED <<scheme, acceptPC, handlerPC, delivered, udpVars>>
      /\ workerPC' = workerPC \/ (workerPC = "read" /\ workerPC' = "done")
  BY DEF WorkerEnds, tcpVars, stopVars, connVars, outVars, allVars, vars, kindVars
<1>2. /\ UNCHANGED <<records, expired, peer, data, line, seen, breaks, refused>>
  BY <1>1 DEF udpVars
<1>3. \A q \in Peer : (Splitting(q)' <=> Splitting(q)) /\ Rest(q)' = Rest(q)
  BY <1>1, <1>2 DEF Rest, Splitting
<1>4. Outgoing' = Outgoing
  BY <1>1, <1>2 DEF Outgoing
<1>5. UdpType' /\ SchemeOK' /\ StoreOK'
  BY <1>1, <1>2, <1>3 DEF UdpInv, UdpType, SchemeOK, StoreOK
<1>6. PeersOK'
  BY <1>2, <1>3, <1>4, PeersQuiet DEF UdpInv
<1> QED BY <1>5, <1>6 DEF UdpInv

\* What the UDP receiver has kept of a peer's text, and how much was damaged, at
\* any time and for every cut, loss and order of the datagrams.
THEOREM UdpInvariance == ReceiversSpec => []UdpInv
<1>1. ReceiversInit => UdpInv
  BY InitUdp
<1>2. ReceiverInv /\ UdpInv /\ [ReceiversNext]_allVars => UdpInv'
  <2> SUFFICES ASSUME ReceiverInv, UdpInv, [ReceiversNext]_allVars PROVE UdpInv'
      OBVIOUS
  <2>1. CASE Next /\ UNCHANGED udpVars
    BY <2>1, TcpStepUdp
  <2>2. CASE Clock
    BY <2>2, ClockUdp
  <2>3. CASE Worker
    <3>1. CASE \E q \in Peer : \E from \in 1..TextLength(q) : \E to \in from..TextLength(q) :
                   ReadFromUDP(q, from, to)
      <4>1. PICK q \in Peer : \E from \in 1..TextLength(q) : \E to \in from..TextLength(q) :
                                  ReadFromUDP(q, from, to)
        BY <3>1
      <4>2. PICK from \in 1..TextLength(q) : \E to \in from..TextLength(q) : ReadFromUDP(q, from, to)
        BY <4>1
      <4>3. PICK to \in from..TextLength(q) : ReadFromUDP(q, from, to)
        BY <4>2
      <4> QED BY <4>3, ReadUdp
    <3>2. CASE \E ok \in BOOLEAN : SplitLine(ok)
      BY <3>2, SplitUdp
    <3>3. CASE OutLine
      BY <3>3, OutUdp
    <3>4. CASE StoreRest
      BY <3>4, StoreUdp
    <3>5. CASE WorkerEnds
      BY <3>5, EndUdp
    <3> QED BY <2>3, <3>1, <3>2, <3>3, <3>4, <3>5, Zenon DEF Worker
  <2>4. CASE UNCHANGED allVars
    BY <2>4, EndUdp
  <2> QED BY <2>1, <2>2, <2>3, <2>4 DEF ReceiversNext
<1> QED BY <1>1, <1>2, ReceiverInvariance, PTL DEF ReceiversSpec

\* A gap damages one line (udp.go:157-190): lines that were never sent, delivered
\* or refused, are at most as many as the breaks in the peer's text.
THEOREM DamageStaysContained == ReceiversSpec => []DamageContained
<1>1. ReceiverInv /\ UdpInv => DamageContained
  <2> SUFFICES ASSUME ReceiverInv, UdpInv, NEW q \in Peer
               PROVE  refused[q] + Cardinality({k \in OwnLines(q) : ~Genuine(q, Outgoing[k][2])})
                          <= breaks[q]
      BY DEF DamageContained
  <2>1. {k \in OwnLines(q) : ~Genuine(q, Outgoing[k][2])} = Strange(q, Outgoing)
    BY DEF OwnLines, Strange
  <2>2. IsSeq(Outgoing) /\ refused[q] \in Nat /\ breaks[q] \in Nat
    BY OutgoingSeq DEF ReceiverInv, ConnType, UdpInv, UdpType
  <2>3. PeerOK(q, Rest(q), seen[q], Outgoing, refused[q], breaks[q])
    BY DEF UdpInv, PeersOK
  <2>4. refused[q] + Cardinality(Strange(q, Outgoing)) <= breaks[q]
    BY <2>2, <2>3, DamageBound
  <2> QED BY <2>1, <2>4
<1> QED BY <1>1, UdpInvariance, ReceiverInvariance, PTL

\* A peer whose datagrams come in order and in time has its lines delivered, in
\* order, unchanged and none left behind, whatever happens to the other peers.
THEOREM IntactAlways == ReceiversSpec => []IntactPeer
<1>1. ReceiverInv /\ UdpInv => IntactPeer
  <2> SUFFICES ASSUME ReceiverInv, UdpInv, NEW q \in Peer, breaks[q] = 0
               PROVE  \E n \in 0..Lines[q] :
                        /\ {Outgoing[k][2] : k \in OwnLines(q)} = {Sent(q, i) : i \in 1..n}
                        /\ \A k, l \in OwnLines(q) : k < l =>
                              \E i, j \in 1..n : /\ i < j
                                                 /\ Outgoing[k][2] = Sent(q, i)
                                                 /\ Outgoing[l][2] = Sent(q, j)
                        /\ Rest(q) = SubSeq(Text(q), n * (Parts + 1) + 1, seen[q])
                        /\ Splitting(q) \/ seen[q] < (n + 1) * (Parts + 1)
      BY DEF IntactPeer
  <2>1. PICK out, R, S, c : /\ out = Outgoing /\ R = Rest(q) /\ S = seen[q]
                            /\ c = Cardinality(Strange(q, out))
    OBVIOUS
  <2>2. /\ IsSeq(out) /\ refused[q] \in Nat /\ S \in Nat /\ S <= TextLength(q)
        /\ R \in Seq(Char)
    BY <2>1, OutgoingSeq DEF ReceiverInv, ConnType, UdpInv, UdpType, Rest
  <2>3. c \in Nat
    BY <2>1, <2>2, StrangeCount
  <2>4. PICK n \in 0..Lines[q] : Clean(q, R, S, n) /\ InTurn(q, out, n)
    <3>1. PeerOK(q, R, S, out, refused[q], 0)
      BY <2>1 DEF UdpInv, PeersOK
    <3>2. ~(refused[q] + c + 1 <= 0)
      BY <2>2, <2>3
    <3> QED BY <2>1, <3>1, <3>2 DEF PeerOK
  <2>5. {out[k][2] : k \in OwnLines(q)} = {Sent(q, i) : i \in 1..n}
    <3>1. \A k : k \in OwnLines(q) <=> k \in 1..Len(out) /\ out[k][1] = q
      BY <2>1 DEF OwnLines
    <3>2. ASSUME NEW k \in OwnLines(q) PROVE \E i \in 1..n : out[k][2] = Sent(q, i)
      BY <2>4, <3>1, <3>2 DEF InTurn
    <3>3. ASSUME NEW i \in 1..n PROVE \E k \in OwnLines(q) : out[k][2] = Sent(q, i)
      BY <2>4, <3>1, <3>3 DEF InTurn
    <3> QED BY <3>2, <3>3
  <2>6. \A k, l \in OwnLines(q) : k < l =>
            \E i, j \in 1..n : i < j /\ out[k][2] = Sent(q, i) /\ out[l][2] = Sent(q, j)
    BY <2>1, <2>4 DEF InTurn, OwnLines
  <2>7. PICK N, T, t : N = n * Width /\ T = Text(q) /\ t = TextLength(q)
    OBVIOUS
  <2>8. /\ n \in Nat /\ N \in Nat /\ Width \in Nat /\ Width >= 2 /\ Lines[q] \in Nat
        /\ T \in Seq(Char) /\ Len(T) = t /\ t \in Nat /\ S <= t
        /\ \A x \in 1..t : T[x] = Newline <=> x % Width = 0
    <3>1. n \in Nat
      BY TextType
    <3> QED BY <2>2, <2>7, <3>1, TextType, Times
  <2>9. Len(R) \in Nat /\ N + Len(R) = S /\ \A i \in 1..Len(R) : R[i] = T[N + i]
    BY <2>2, <2>4, <2>7 DEF Clean
  <2>10. R = SubSeq(T, N + 1, S)
    <3>1. PICK B : B = SubSeq(T, N + 1, S)
      OBVIOUS
    <3>2. /\ T \in Seq(Char) /\ N + 1 \in 1..(t + 1) /\ S \in Nat /\ N <= S /\ S <= t /\ Len(T) = t
          /\ S - (N + 1) + 1 = Len(R)
      BY <2>2, <2>8, <2>9
    <3>3. B \in Seq(Char) /\ Len(B) = Len(R)
      BY <2>8, <2>9, <3>1, <3>2
    <3>4. ASSUME NEW i \in 1..Len(R) PROVE B[i] = R[i]
      <4>1. (N + 1) + i - 1 = N + i /\ i \in 1..(S - (N + 1) + 1)
        BY <2>8, <2>9
      <4>2. B[i] = T[(N + 1) + i - 1]
        BY <2>8, <3>1, <3>2, <4>1
      <4> QED BY <2>9, <4>1, <4>2
    <3>5. B = R
      BY <2>2, <3>3, <3>4
    <3> QED BY <3>1, <3>5
  <2>11. Splitting(q) \/ S < (n + 1) * Width
    <3> SUFFICES ASSUME ~Splitting(q), ~(S < (n + 1) * Width) PROVE FALSE
        OBVIOUS
    <3>1. (n + 1) * Width = N + Width
      BY <2>7, <2>8, Times
    <3>2. Width \in 1..Len(R) /\ N + Width \in 1..t
      BY <2>2, <2>8, <2>9, <3>1
    <3>3. R[Width] # Newline
      <4>1. R = records[q]
        BY <2>1 DEF Rest
      <4> QED BY <3>2, <4>1 DEF UdpInv, StoreOK
    <3>4. (N + Width) % Width = 0
      <4>1. N + Width = 0 + (n + 1) * Width /\ n + 1 \in Int /\ N + Width \in Nat
        BY <2>8, <3>1
      <4>2. 0 % Width = (N + Width) % Width
        BY <2>8, <4>1, ModShift
      <4>3. 0 % Width = 0
        BY <2>8
      <4> QED BY <4>2, <4>3
    <3> QED BY <2>8, <2>9, <3>2, <3>3, <3>4
  <2>12. {Outgoing[k][2] : k \in OwnLines(q)} = {Sent(q, i) : i \in 1..n}
    BY <2>1, <2>5
  <2>13. \A k, l \in OwnLines(q) : k < l =>
            \E i, j \in 1..n : /\ i < j
                               /\ Outgoing[k][2] = Sent(q, i) /\ Outgoing[l][2] = Sent(q, j)
    BY <2>1, <2>6
  <2>14. /\ Rest(q) = SubSeq(Text(q), n * (Parts + 1) + 1, seen[q])
         /\ Splitting(q) \/ seen[q] < (n + 1) * (Parts + 1)
    BY <2>1, <2>7, <2>10, <2>11 DEF Width
  <2> QED BY <2>12, <2>13, <2>14, Zenon
<1> QED BY <1>1, UdpInvariance, ReceiverInvariance, PTL
=============================================================================

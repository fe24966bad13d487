----------------------------- MODULE Carbonlink -----------------------------
(***************************************************************************)
(* The carbonlink listener (cache/carbonlink.go): graphite-web connects,   *)
(* sends framed pickle requests and reads framed pickle replies.  Every    *)
(* connection has a goroutine that parses a request, hands a query to the  *)
(* cache, waits for the answer or for queryTimeout, and packs the reply.   *)
(*                                                                         *)
(* Pickles are sequences of opcodes.  The cache is the environment here:   *)
(* it takes a query from queryChan and answers it at once, late or never.  *)
(***************************************************************************)
EXTENDS Naturals, Sequences, FiniteSets

Seqs == INSTANCE SequencesExt

CONSTANTS
    Client,       \* connections of graphite-web
    Metric,       \* metric names
    Answers,      \* what the cache may answer: [inFlight, cacheData]
    Styles,       \* how a client writes a request: [first, memo, string]
    MaxRequests,  \* bound: requests on a connection
    QueryCap,     \* capacity of queryChan (16)
    MaxFrameSize, \* opcodes of the longest reply (1 MB)
    Nil           \* the nil pointer

Empty   == <<>>
Types   == {"cache-query", "foo", "get-metadata"}
Request == [type : Types, metric : Metric]
QueryId == Client \X (1..MaxRequests)

\* What a request's pickle is made of, and what the cache answers about a metric
\* (every point stands with its metric).
Text      == {"metric", "type"} \cup Types \cup Metric
RequestOp == [op : {"proto", "(", "q", "U", "T", "X", "u", "."}, arg : {Nil} \cup Text]
Answered(metric, a) ==
    LET of(points) == [i \in DOMAIN points |-> <<metric, points[i]>>] IN
    [inFlight |-> [b \in DOMAIN a.inFlight |-> of(a.inFlight[b])], cacheData |-> of(a.cacheData)]
Answer   == {Answered(m, a) : m \in Metric, a \in Answers}
QueryObj == [metric : Metric, answer : {Nil} \cup Answer]

ASSUME CarbonlinkAssumption ==
    /\ MaxRequests \in Nat /\ QueryCap \in Nat \ {0} /\ MaxFrameSize \in Nat
    /\ Styles \subseteq [first : {"metric", "type"}, memo : BOOLEAN, string : {"U", "T", "X"}]

\* The nil pointer is no query, no request, no text and no part of one.
ASSUME NilAssumption ==
    /\ Nil \notin QueryId /\ Nil \notin QueryObj /\ Nil \notin Request
    /\ Nil \notin Seq(RequestOp)
    /\ Nil \notin [value : Text, rest : Seq(RequestOp)]

VARIABLES
    exit,         \* Stoppable's exit channel is closed
    socketOpen,   \* the listening socket is open
    closerPC,     \* the goroutine that closes the socket at exit
    acceptPC,     \* the goroutine that accepts connections
    stopPC,       \* "no", "waiting" or "returned": the caller of Stop
    clientOpen,   \* the client keeps its end of the connection open
    asked,        \* the requests the client meant to send, Nil for rubbish
    wire,         \* frames the handler has not read
    handlerPC,    \* where HandleConnection is
    current,      \* the query HandleConnection holds
    query,        \* the heap of *Query: [metric, answer]
    queryChan,    \* the cache's query channel
    taken,        \* queries the cache has taken and not answered
    cacheUp,      \* the cache's worker runs
    packed,       \* the reply about to be written
    replies       \* the replies a client can read

listenVars  == <<exit, socketOpen, closerPC, acceptPC, stopPC>>
clientVars  == <<clientOpen, asked>>
cacheVars   == <<queryChan, taken, cacheUp>>
handlerVars == <<handlerPC, current, packed>>
vars == <<listenVars, clientVars, wire, handlerVars, query, cacheVars, replies>>

(***************************************************************************)
(* The request.  Encode is the client's pickle.dumps: keys in either       *)
(* order, memo opcodes after every object or nowhere, short or long        *)
(* strings as values.                                                      *)
(***************************************************************************)
Op(op, arg) == [op |-> op, arg |-> arg]
Proto  == Op("proto", Nil)           \* "\x80\x02}"
Mark   == Op("(", Nil)
Key(k) == Op("U", k)

Encode(req, style) ==
    LET memo == IF style.memo THEN <<Op("q", Nil)>> ELSE Empty
        pair(k) == <<Key(k)>> \o memo \o <<Op(style.string, req[k])>> \o memo
        second == IF style.first = "type" THEN "metric" ELSE "type"
    IN  <<Proto>> \o memo \o <<Mark>> \o pair(style.first) \o pair(second)
            \o <<Op("u", Nil), Op(".", Nil)>>

\* expectBytes: what follows the token, or Nil.
expectBytes(d, token) ==
    IF d # Nil /\ d # Empty /\ Head(d) = token THEN Tail(d) ELSE Nil

pickleMaybeMemo(d) ==
    IF d # Nil /\ d # Empty /\ Head(d).op = "q" THEN Tail(d) ELSE d

\* A key and its string, each with an optional memo: the value and the rest.
field(d, key) ==
    LET v == pickleMaybeMemo(expectBytes(d, Key(key))) IN
    IF v # Nil /\ v # Empty /\ Head(v).op \in {"U", "T", "X"}
    THEN [value |-> Head(v).arg, rest |-> pickleMaybeMemo(Tail(v))]
    ELSE Nil

\* A bug: a type that comes first takes the place of the metric.
ParseByPosition(d) ==
    LET body == expectBytes(pickleMaybeMemo(expectBytes(d, Proto)), Mark)
        metricFirst == expectBytes(body, Key("metric")) # Nil
        one  == field(body, IF metricFirst THEN "metric" ELSE "type")
        two  == IF one = Nil THEN Nil
                ELSE field(one.rest, IF metricFirst THEN "type" ELSE "metric")
    IN  IF two = Nil THEN Nil ELSE [type |-> "cache-query", metric |-> one.value]

\* ParseCarbonlinkRequest: Nil is the error.  The end of the frame is not read.
ParseCarbonlinkRequest(d) ==
    LET body  == expectBytes(pickleMaybeMemo(expectBytes(d, Proto)), Mark)
        metricFirst == expectBytes(body, Key("metric")) # Nil
        one   == field(body, IF metricFirst THEN "metric" ELSE "type")
        two   == IF one = Nil THEN Nil
                 ELSE field(one.rest, IF metricFirst THEN "type" ELSE "metric")
    IN  IF two = Nil THEN Nil
        ELSE IF metricFirst THEN [type |-> two.value, metric |-> one.value]
        ELSE [type |-> one.value, metric |-> two.value]

\* The frames clients send, and what each is parsed to.
Rubbish == <<Proto, Mark, Op("X", "metric")>>   \* a key that is a long string
Frames  == {Rubbish} \cup {Encode(req, s) : req \in Request, s \in Styles}
Parsed  == [d \in Frames |-> ParseCarbonlinkRequest(d)]

(***************************************************************************)
(* The reply.  packReply counts the batches in flight, not their points,   *)
(* to choose between append and appends.                                   *)
(***************************************************************************)
\* The points of an answer, in the order in which they are packed.
DataPoints(answer) == Seqs!FlattenSeq(answer.inFlight) \o answer.cacheData

pack(items, numPoints) ==
    LET close == CASE numPoints = 0 -> Empty
                   [] numPoints = 1 -> <<Op("a", Nil)>>
                   [] numPoints > 1 -> <<Op("e", Nil)>>
    IN  (IF numPoints > 1 THEN <<Mark>> ELSE Empty)
            \o [i \in DOMAIN items |-> Op("point", items[i])]
            \o close \o <<Op("s", Nil), Op(".", Nil)>>

\* A bug: the batches in flight are packed and not counted.
packReplyCached(answer) ==
    IF answer = Nil THEN pack(Empty, 0) ELSE pack(DataPoints(answer), Len(answer.cacheData))

packReply(answer) ==
    IF answer = Nil THEN pack(Empty, 0)
    ELSE pack(DataPoints(answer), Len(answer.inFlight) + Len(answer.cacheData))

\* The reply to another type.  Its string is announced with a length of 26,
\* which is right for a type of three letters.
ErrorReply(type) ==
    LET letters == IF type = "foo" THEN 3 ELSE 12 IN
    <<Op("error", 23 + letters), Op("s", Nil), Op(".", Nil)>>

(***************************************************************************)
(* The client's unpickler: a machine with the reply's list below its       *)
(* stack.  An append takes one value, appends takes all above the mark;    *)
(* the value below must be the list, and so it must be for the last "s".   *)
(***************************************************************************)
unpickleOp(m, o) ==
    CASE o.op = "("     -> [m EXCEPT !.mark = Len(m.stack)]
      [] o.op = "point" -> [m EXCEPT !.stack = Append(@, o.arg)]
      [] o.op = "a"     -> IF Len(m.stack) = 1 /\ m.mark = Nil
                           THEN [m EXCEPT !.stack = Empty, !.list = @ \o m.stack]
                           ELSE [m EXCEPT !.ok = FALSE]
      [] o.op = "e"     -> IF m.mark = 0
                           THEN [m EXCEPT !.stack = Empty, !.list = @ \o m.stack, !.mark = Nil]
                           ELSE [m EXCEPT !.ok = FALSE]
      [] o.op = "s"     -> [m EXCEPT !.ok = @ /\ m.stack = Empty /\ m.mark = Nil]
      [] o.op = "error" -> [m EXCEPT !.ok = o.arg = 26]
      [] OTHER          -> m

Unpickle(ops) ==
    LET end == Seqs!FoldLeft(unpickleOp,
                    [ok |-> TRUE, stack |-> Empty, mark |-> Nil, list |-> Empty], ops)
    IN  IF end.ok THEN end.list ELSE Nil

-----------------------------------------------------------------------------
Init ==
    /\ exit = FALSE /\ socketOpen = TRUE /\ stopPC = "no"
    /\ closerPC = "run" /\ acceptPC = "run"
    /\ clientOpen = [c \in Client |-> FALSE]
    /\ asked = [c \in Client |-> Empty]
    /\ wire = [c \in Client |-> Empty]
    /\ handlerPC = [c \in Client |-> "none"]
    /\ current = [c \in Client |-> Nil]
    /\ packed = [c \in Client |-> Nil]
    /\ replies = [c \in Client |-> Empty]
    /\ query = [q \in QueryId |-> Nil]
    /\ queryChan = Empty /\ taken = {} /\ cacheUp = TRUE

(***************************************************************************)
(* Listen and Stop: two goroutines under the wait group.  The handlers are *)
(* started with a plain go statement, so Stop does not wait for them.      *)
(***************************************************************************)
\* The kernel completes the connection and Accept returns it: a handler starts.
Accept(c) ==
    /\ acceptPC = "run" /\ socketOpen
    /\ handlerPC[c] = "none"
    /\ handlerPC' = [handlerPC EXCEPT ![c] = "read"]
    /\ clientOpen' = [clientOpen EXCEPT ![c] = TRUE]
    /\ UNCHANGED <<listenVars, asked, wire, current, packed, query, cacheVars, replies>>

Stop ==
    /\ stopPC = "no"
    /\ stopPC' = "waiting" /\ exit' = TRUE
    /\ UNCHANGED <<socketOpen, closerPC, acceptPC, clientVars, wire, handlerVars, query,
                   cacheVars, replies>>

CloseSocket ==
    /\ closerPC = "run" /\ exit
    /\ closerPC' = "done" /\ socketOpen' = FALSE
    /\ UNCHANGED <<exit, acceptPC, stopPC, clientVars, wire, handlerVars, query, cacheVars,
                   replies>>

\* Accept fails with "use of closed network connection".
AcceptEnds ==
    /\ acceptPC = "run" /\ ~socketOpen
    /\ acceptPC' = "done"
    /\ UNCHANGED <<exit, socketOpen, closerPC, stopPC, clientVars, wire, handlerVars, query,
                   cacheVars, replies>>

StopEnds ==
    /\ stopPC = "waiting" /\ closerPC = "done" /\ acceptPC = "done"
    /\ stopPC' = "returned"
    /\ UNCHANGED <<exit, socketOpen, closerPC, acceptPC, clientVars, wire, handlerVars, query,
                   cacheVars, replies>>

(***************************************************************************)
(* Clients.  A client may send a request before it has read the reply to   *)
(* the one before.                                                         *)
(***************************************************************************)
ClientSend(c, req, frame) ==
    /\ clientOpen[c] /\ Len(asked[c]) < MaxRequests
    /\ asked' = [asked EXCEPT ![c] = Append(@, req)]
    /\ wire' = [wire EXCEPT ![c] = Append(@, frame)]
    /\ UNCHANGED <<listenVars, clientOpen, handlerVars, query, cacheVars, replies>>

ClientClose(c) ==
    /\ clientOpen[c]
    /\ clientOpen' = [clientOpen EXCEPT ![c] = FALSE]
    /\ UNCHANGED <<listenVars, asked, wire, handlerVars, query, cacheVars, replies>>

(***************************************************************************)
(* HandleConnection.                                                       *)
(***************************************************************************)
\* Every return of HandleConnection closes the connection.
Close(c) ==
    /\ handlerPC' = [handlerPC EXCEPT ![c] = "closed"]
    /\ current' = [current EXCEPT ![c] = Nil]
    /\ packed' = [packed EXCEPT ![c] = Nil]
    /\ UNCHANGED <<listenVars, clientVars, query, cacheVars>>

\* ReadFrame fails: the client is gone, readTimeout has passed, or the frame is
\* announced with more than MaxFrameSize.
ReadFails(c) ==
    /\ handlerPC[c] = "read"
    /\ Close(c)
    /\ UNCHANGED <<wire, replies>>

\* The number of queries this connection has made, the new one included.
Number(c) == 1 + Cardinality({q \in QueryId : q[1] = c /\ query[q] # Nil})

\* A bug: a connection uses one query for all its requests.
NewQueryOnce(c, metric) ==
    /\ current' = [current EXCEPT ![c] = <<c, 1>>]
    /\ query' = [query EXCEPT ![<<c, 1>>] =
                    IF @ = Nil THEN [metric |-> metric, answer |-> Nil] ELSE @]

NewQuery(c, metric) ==
    /\ current' = [current EXCEPT ![c] = <<c, Number(c)>>]
    /\ query' = [query EXCEPT ![<<c, Number(c)>>] = [metric |-> metric, answer |-> Nil]]

ReadRequest(c) ==
    /\ handlerPC[c] = "read" /\ wire[c] # Empty
    /\ LET req == Parsed[Head(wire[c])] IN
       /\ req # Nil /\ req.type = "cache-query"
       /\ NewQuery(c, req.metric)
    /\ handlerPC' = [handlerPC EXCEPT ![c] = "send"]
    /\ wire' = [wire EXCEPT ![c] = Tail(@)]
    /\ UNCHANGED <<listenVars, clientVars, packed, cacheVars, replies>>

\* A frame that does not parse ends the connection without a reply.
ReadRubbish(c) ==
    /\ handlerPC[c] = "read" /\ wire[c] # Empty
    /\ Parsed[Head(wire[c])] = Nil
    /\ Close(c)
    /\ wire' = [wire EXCEPT ![c] = Tail(@)]
    /\ UNCHANGED replies

\* Another type is answered with an error, and ends the connection.
ReadOtherType(c) ==
    /\ handlerPC[c] = "read" /\ wire[c] # Empty
    /\ LET req == Parsed[Head(wire[c])] IN
       /\ req # Nil /\ req.type # "cache-query"
       /\ replies' = [replies EXCEPT ![c] = Append(@, ErrorReply(req.type))]
    /\ Close(c)
    /\ wire' = [wire EXCEPT ![c] = Tail(@)]

\* listener.queryChan <- query: blocks while the channel is full.
SendQuery(c) ==
    /\ handlerPC[c] = "send" /\ Len(queryChan) < QueryCap
    /\ queryChan' = Append(queryChan, current[c])
    /\ handlerPC' = [handlerPC EXCEPT ![c] = "wait"]
    /\ UNCHANGED <<listenVars, clientVars, wire, current, packed, query, taken, cacheUp, replies>>

\* query.Wait is closed.
WaitAnswer(c) ==
    /\ handlerPC[c] = "wait" /\ query[current[c]].answer # Nil
    /\ packed' = [packed EXCEPT ![c] = packReply(query[current[c]].answer)]
    /\ handlerPC' = [handlerPC EXCEPT ![c] = "write"]
    /\ UNCHANGED <<listenVars, clientVars, wire, current, query, cacheVars, replies>>

\* A bug: no timeout for a query that the cache has taken.
WaitTimeoutQueued(c) ==
    /\ handlerPC[c] = "wait" /\ current[c] \notin taken
    /\ packed' = [packed EXCEPT ![c] = packReply(Nil)]
    /\ current' = [current EXCEPT ![c] = Nil]
    /\ handlerPC' = [handlerPC EXCEPT ![c] = "write"]
    /\ UNCHANGED <<listenVars, clientVars, wire, query, cacheVars, replies>>

\* queryTimeout has passed: the reply is empty and the query is forgotten.
WaitTimeout(c) ==
    /\ handlerPC[c] = "wait"
    /\ packed' = [packed EXCEPT ![c] = packReply(Nil)]
    /\ current' = [current EXCEPT ![c] = Nil]
    /\ handlerPC' = [handlerPC EXCEPT ![c] = "write"]
    /\ UNCHANGED <<listenVars, clientVars, wire, query, cacheVars, replies>>

WriteReply(c) ==
    /\ handlerPC[c] = "write" /\ Len(packed[c]) <= MaxFrameSize
    /\ replies' = [replies EXCEPT ![c] = Append(@, packed[c])]
    /\ handlerPC' = [handlerPC EXCEPT ![c] = "read"]
    /\ packed' = [packed EXCEPT ![c] = Nil]
    /\ current' = [current EXCEPT ![c] = Nil]
    /\ UNCHANGED <<listenVars, clientVars, wire, query, cacheVars>>

\* conn.Write fails: the client is gone, or the reply is longer than a frame.
WriteFails(c) ==
    /\ handlerPC[c] = "write"
    /\ ~clientOpen[c] \/ Len(packed[c]) > MaxFrameSize
    /\ Close(c)
    /\ UNCHANGED <<wire, replies>>

(***************************************************************************)
(* The cache, as carbonlink sees it (Cache models it in full).             *)
(***************************************************************************)
CacheTake ==
    /\ cacheUp /\ queryChan # Empty
    /\ queryChan' = Tail(queryChan) /\ taken' = taken \cup {Head(queryChan)}
    /\ UNCHANGED <<listenVars, clientVars, wire, handlerVars, query, cacheUp, replies>>

CacheAnswer(q, a) ==
    /\ cacheUp /\ q \in taken
    /\ taken' = taken \ {q}
    /\ query' = [query EXCEPT ![q].answer = Answered(query[q].metric, a)]
    /\ UNCHANGED <<listenVars, clientVars, wire, handlerVars, queryChan, cacheUp, replies>>

\* After the listener's Stop in app.stop, before it in a dump.
CacheStop ==
    /\ cacheUp
    /\ cacheUp' = FALSE
    /\ UNCHANGED <<listenVars, clientVars, wire, handlerVars, query, queryChan, taken, replies>>

Clients == \E c \in Client :
    \/ ClientClose(c)
    \/ ClientSend(c, Nil, Rubbish)
    \/ \E req \in Request, s \in Styles : ClientSend(c, req, Encode(req, s))
Handler(c) == \/ ReadFails(c) \/ ReadRequest(c) \/ ReadRubbish(c) \/ ReadOtherType(c)
              \/ SendQuery(c) \/ WaitAnswer(c) \/ WaitTimeout(c)
              \/ WriteReply(c) \/ WriteFails(c)
Listener  == CloseSocket \/ AcceptEnds \/ StopEnds \/ \E c \in Client : Accept(c)
CacheSide == CacheTake \/ CacheStop \/ \E q \in QueryId, a \in Answers : CacheAnswer(q, a)

Next == Clients \/ Listener \/ Stop \/ CacheSide \/ \E c \in Client : Handler(c)

Spec == Init /\ [][Next]_vars

(***************************************************************************)
(* Fairness: goroutines run; a blocked sender is served in turn (channels  *)
(* are queues of waiters); timers fire; the cache's worker takes queries.  *)
(* The cache owes no answer: queryTimeout is there because it may be late. *)
(***************************************************************************)
Fairness ==
    /\ WF_vars(CloseSocket) /\ WF_vars(AcceptEnds) /\ WF_vars(StopEnds)
    /\ WF_vars(CacheTake)
    /\ \A c \in Client : /\ WF_vars(ReadRequest(c) \/ ReadRubbish(c) \/ ReadOtherType(c))
                          /\ SF_vars(SendQuery(c))
                          /\ WF_vars(WaitAnswer(c) \/ WaitTimeout(c))
                          /\ WF_vars(WriteReply(c) \/ WriteFails(c))
FairSpec == Spec /\ Fairness

-----------------------------------------------------------------------------
\* Every query that carbonlink makes is for the metric which the client meant,
\* whatever the order of the keys, the memos and the string opcodes of its
\* pickle, and the n-th query is for the n-th request: nothing is queried for
\* after a request that is not a cache-query.
QueriesAsAsked ==
    \A q \in QueryId : query[q] # Nil =>
        /\ q[2] <= Len(asked[q[1]])
        /\ asked[q[1]][q[2]] = [type |-> "cache-query", metric |-> query[q].metric]

\* The n-th reply on a connection is the packed answer to the n-th query, or the
\* empty one of a timeout: an answer that comes after the timeout is never given
\* to a later request, although the query is still with the cache by then.  Only
\* the last reply before the connection is closed may be the error for a request
\* of another type.
RepliesInTurn ==
    \A c \in Client : \A n \in DOMAIN replies[c] :
        /\ n <= Len(asked[c]) /\ asked[c][n] # Nil
        /\ IF asked[c][n].type # "cache-query"
           THEN /\ replies[c][n] = ErrorReply(asked[c][n].type)
                /\ n = Len(replies[c]) /\ handlerPC[c] = "closed"
           ELSE \/ replies[c][n] = packReply(Nil)
                \/ /\ query[<<c, n>>] # Nil /\ query[<<c, n>>].answer # Nil
                   /\ replies[c][n] = packReply(query[<<c, n>>].answer)

\* Requests on one connection are queried for and answered in turn.
RequestsInTurn == QueriesAsAsked /\ RepliesInTurn

\* And the client reads from it exactly what the cache answered to its n-th
\* request.  The exceptions are an answer whose only contents are one batch in
\* flight with several points (carbonlink.go:202) and the error for a type
\* that has not three letters (carbonlink.go:262): these do not decode.
LoneBatch(a) == Len(a.inFlight) = 1 /\ Len(a.inFlight[1]) > 1 /\ a.cacheData = Empty
RepliesMatch ==
    \A c \in Client : \A n \in DOMAIN replies[c] :
        LET decoded == Unpickle(replies[c][n]) IN
        IF asked[c][n].type # "cache-query"
        THEN decoded = IF asked[c][n].type = "foo" THEN Empty ELSE Nil
        ELSE \/ replies[c][n] = packReply(Nil)
             \/ /\ query[<<c, n>>] # Nil /\ query[<<c, n>>].answer # Nil
                /\ LET a == query[<<c, n>>].answer IN
                   decoded = IF LoneBatch(a) THEN Nil ELSE DataPoints(a)

\* Every answer is packed into a pickle that the client can load, as the ones
\* in carbonlink_test.go are: {'datapoints': [(time, value), ...]}.
RepliesDecode ==
    \A c \in Client : packed[c] # Nil => Unpickle(packed[c]) # Nil

\* A request is answered, or its connection is closed, whatever the cache is
\* doing, as long as it takes queries at all.
RequestAnswered ==
    \A c \in Client : \A n \in 1..MaxRequests :
        Len(asked[c]) >= n /\ handlerPC[c] # "none" ~>
            Len(replies[c]) >= n \/ handlerPC[c] = "closed" \/ ~cacheUp

=============================================================================

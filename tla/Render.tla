------------------------------- MODULE Render -------------------------------
(***************************************************************************)
(* A render request of carbonserver (fetchHandler, fetchCachedData) beside *)
(* the cache and the persister: the handler asks the cache for a metric,   *)
(* opens the metric's whisper file, waits for the reply, and puts the      *)
(* values of the file in front of those of the reply, while points move    *)
(* from the cache to the file.                                             *)
(*                                                                         *)
(* The whisper library is modelled from its use: a file keeps one value    *)
(* per step, and Fetch(from, until) returns those of the steps behind      *)
(* from's, up to until's.  There is one metric; its client's timestamps    *)
(* need be neither on the steps nor in order.                              *)
(***************************************************************************)
EXTENDS Cache

Seqs == INSTANCE SequencesExt

CONSTANTS
    Step,       \* seconds per point of the finest archive
    Stamps,     \* what clients may send: timestamps by serial number
    Requests    \* the from and until of a request

ASSUME RenderAssumption ==
    /\ Step \in Nat \ {0}
    /\ Stamps \subseteq [Serial -> Nat \ {0}]
    /\ Requests \subseteq [from : Nat, until : Nat]
    /\ \A r \in Requests : r.from <= r.until
    /\ Cardinality(Query) = 1 /\ Cardinality(Metric) = 1

VARIABLES
    stamp,      \* timestamps of the points
    request,    \* the request
    file,       \* the points in the whisper file, one for a step
    saved,      \* batches the persister has stored and not confirmed
    pc,         \* the handler: "no", "open", "wait", "fetch", "done", or "ended" without
    cached,     \* what it made of the cache's reply
    response,   \* what it sends
    known       \* history: points the answer is to contain

renderVars == <<stamp, request, file, saved, pc, cached, response, known>>

theQuery  == CHOOSE q \in Query : TRUE
theMetric == CHOOSE m \in Metric : TRUE
NaN       == 0
Nothing   == [values |-> Empty, from |-> 0]

RenderInit ==
    /\ Init
    /\ stamp \in Stamps /\ request = [from |-> 0, until |-> 0]
    /\ file = {} /\ saved = {} /\ pc = "no" /\ cached = Nothing
    /\ response = [start |-> 0, stop |-> 0, values |-> Empty] /\ known = {}

(***************************************************************************)
(* fetchCachedData: the values of a batch, with NaN for every step that is *)
(* missing between two points, and the time of the first value.  A point   *)
(* out of range is skipped after the gap before it was filled.             *)
(***************************************************************************)
fetchPoint(acc, n) ==
    LET ts     == stamp[n]
        gap    == IF acc.prev # 0 /\ ts > acc.prev + Step
                  THEN (ts - acc.prev) \div Step - 1 ELSE 0
        filled == acc.values \o [i \in 1..gap |-> NaN]
    IN  IF ts > request.until \/ ts < request.from \/ acc.prev = ts
        THEN [acc EXCEPT !.values = filled]
        ELSE [values |-> Append(filled, n), prev |-> ts,
              from |-> IF acc.from = 0 \/ acc.from > ts THEN ts ELSE acc.from]

fetchCachedData(batch) ==
    Seqs!FoldLeft(fetchPoint, [values |-> Empty, prev |-> 0, from |-> 0], batch)

\* Mutant: the batches in flight are left out.
BatchesInCache(q) == IF query[q].cacheData # Empty THEN <<query[q].cacheData>> ELSE Empty

\* The batches of a reply: those in flight, then the cache's.
Batches(q) == Contents(query[q].inFlight)
              \o (IF query[q].cacheData # Empty THEN <<query[q].cacheData>> ELSE Empty)

\* The values of all batches one after the other.  A batch without a point in
\* range has from 0, which wins over an earlier batch's.
Combine(q) ==
    Seqs!FoldLeft(LAMBDA acc, batch :
        LET r == fetchCachedData(batch) IN
        [values |-> acc.values \o r.values,
         from   |-> IF acc.from = 0 \/ acc.from > r.from THEN r.from ELSE acc.from],
        Nothing, Batches(q))

(***************************************************************************)
(* whisper.                                                                *)
(***************************************************************************)
\* The step of a point.
slot(x) == stamp[x] \div Step

\* Archive.Interval
Interval(t) == (t - (t % Step)) + Step

\* Fetch: the values from Interval(from) to before Interval(until).
Fetch(from, until) ==
    LET n == (Interval(until) - Interval(from)) \div Step IN
    [i \in 1..n |->
        LET here == {x \in file : slot(x) * Step = Interval(from) + (i - 1) * Step}
        IN  IF here = {} THEN NaN ELSE CHOOSE x \in here : TRUE]

\* UpdateMany: each step of the points gets one of them.
UpdateMany(points) ==
    \E new \in SUBSET points :
        /\ \A x \in points : Cardinality({y \in new : slot(y) = slot(x)}) = 1
        /\ file' = new \cup {x \in file : \A y \in new : slot(y) # slot(x)}

(***************************************************************************)
(* The handler.                                                            *)
(***************************************************************************)
unchangedInCache == <<obj, inVars, storeVars, workerVars, trackVars, queryVars, persistVars,
                      fixedVars, accepted>>

\* expandGlobs finds the file; the query is sent, which blocks while the
\* channel is full.
RenderBegin(r) ==
    /\ pc = "no" /\ file # {}
    /\ request' = r
    /\ Ask(theQuery, theMetric)
    /\ pc' = "open"
    /\ known' = file
    /\ UNCHANGED <<stamp, file, saved, cached, response>>

\* whisper.Open, and the choice of the archive that reaches back to from.  Without
\* the best one the reply is not used: there is no answer, or one from a coarser
\* archive alone.
RenderOpen(best) ==
    /\ pc = "open"
    /\ pc' = IF best THEN "wait" ELSE "ended"
    /\ UNCHANGED <<unchangedInCache, stamp, request, file, saved, cached, response, known>>

\* The reply is there and is put together.
RenderReply ==
    /\ pc = "wait" /\ query[theQuery].status = "replied"
    /\ cached' = Combine(theQuery)
    /\ known' = {x \in Serial : <<theMetric, x>> \in query[theQuery].due} \cup known
    /\ pc' = "fetch"
    /\ UNCHANGED <<unchangedInCache, stamp, request, file, saved, response>>

\* No reply in time: the file alone.
RenderTimeout ==
    /\ pc = "wait"
    /\ pc' = "fetch"
    /\ UNCHANGED <<unchangedInCache, stamp, request, file, saved, cached, response,
                   known>>

\* Mutant: the file is read up to the first cached point.
fileUntilCached == IF cached.from = 0 THEN request.until ELSE cached.from

\* The file is read up to the step before the first cached point.
fileUntil == IF cached.from = 0 THEN request.until ELSE cached.from - Step

\* The cache has everything, or the file's values go in front; Fetch refuses an
\* empty range.
RenderFetch ==
    /\ pc = "fetch"
    /\ \/ /\ cached.from # 0 /\ cached.from <= request.from
          /\ response' = [start |-> cached.from, stop |-> fileUntil, values |-> cached.values]
          /\ pc' = "done"
       \/ /\ cached.from = 0 \/ cached.from > request.from
          /\ request.from <= fileUntil
          /\ response' = [start |-> Interval(request.from), stop |-> Interval(fileUntil),
                          values |-> Fetch(request.from, fileUntil) \o cached.values]
          /\ pc' = "done"
       \/ /\ cached.from = 0 \/ cached.from > request.from
          /\ request.from > fileUntil
          /\ pc' = "ended"
          /\ UNCHANGED response
    /\ UNCHANGED <<unchangedInCache, stamp, request, file, saved, cached, known>>

(***************************************************************************)
(* The persister stores a batch and then confirms it.                      *)
(***************************************************************************)
Save(a) ==
    /\ saved = {} /\ a \in taken /\ \A b \in taken : a[2] <= b[2]
    /\ UpdateMany(Elems(obj[a]))
    /\ saved' = saved \cup {a}
    /\ UNCHANGED <<unchangedInCache, stamp, request, pc, cached, response, known>>

ConfirmSaved(a) ==
    /\ a \in saved
    /\ Confirm(a)
    /\ saved' = saved \ {a}
    /\ UNCHANGED <<stamp, request, file, pc, cached, response, known>>

-----------------------------------------------------------------------------
Handler == \/ RenderReply \/ RenderTimeout \/ RenderFetch
           \/ \E r \in Requests : RenderBegin(r)
           \/ \E best \in BOOLEAN : RenderOpen(best)

RenderNext ==
    \/ Handler
    \/ \E a \in Addr : Save(a) \/ ConfirmSaved(a)
    \/ /\ \/ Worker \/ Tracker \/ Take \/ Stop
          \/ \E m \in Metric, k \in 1..MaxBatch : Receive(m, k)
       /\ UNCHANGED renderVars

RenderSpec == RenderInit /\ [][RenderNext]_<<vars, renderVars>>

-----------------------------------------------------------------------------
\* fetchCachedData and whisper agree on the steps of a batch: its timestamps do
\* not fall, and two neighbours are as many steps apart as the difference of
\* their timestamps has full ones, and one at least.  They do not agree when,
\* with Step = 60, a batch has 119 and 240 (two steps missing, one NaN), or 61
\* and 70 (two values, one step).
Regular(batch) ==
    \A i \in 2..Len(batch) :
        LET x == batch[i - 1]
            y == batch[i]
        IN  \/ stamp[y] = stamp[x]
            \/ /\ stamp[y] > stamp[x]
               /\ slot(y) - slot(x) = Seqs!Max({1, (stamp[y] - stamp[x]) \div Step})

\* The reply is one the handler can join: its batches are regular, and after one
\* that is in range the next begins in range, one step after the end of the first.
\* It does not when points are missing between them, when only the second is out
\* of range, when a late point begins the second, and when they are the same
\* batch: the worker answers from its hand and may pass the batch to the tracker
\* before that sees the query.
Seamless(q) ==
    /\ \A i \in 1..Len(Batches(q)) : Regular(Batches(q)[i])
    /\ \A i \in 2..Len(Batches(q)) :
          LET a == Batches(q)[i - 1]
              b == Batches(q)[i]
          IN  (\E x \in Elems(a) : stamp[x] \in request.from..request.until)
              => slot(b[1]) = slot(a[Len(a)]) + 1 /\ stamp[b[1]] <= request.until

Answered == pc = "done" /\ (cached # Nothing => Seamless(theQuery))

\* A value stands at the step of its own time, and where it was not cached the
\* answer ends where it says: joining the file's values with those of the batches
\* in flight and in the cache shifts none, as long as the reply is seamless,
\* although batches are saved and confirmed between the query, the reply and the
\* read, and whether or not timestamps fall on the steps of the file or of the
\* request (carbonserver.go:526-560).
ValuesInPlace ==
    Answered =>
        /\ \A i \in 1..Len(response.values) :
              response.values[i] # NaN =>
                  slot(response.values[i]) = response.start \div Step + (i - 1)
        /\ cached.values = Empty =>
              response.stop = response.start + Len(response.values) * Step

\* No point is lost between cache and file: what was saved before the request,
\* and what the cache had when it read the query, is in the answer, itself or
\* another point of its step, if it is in range.  Two kinds of points are not:
\* those the cache has taken after the batch in the worker's hand, which is all
\* that the worker answers with (cache.go:266), and those in the file whose time
\* is behind that of a late point still in the cache.
KnownShown ==
    Answered =>
        \A x \in known :
            \/ slot(x) <= request.from \div Step \/ stamp[x] > request.until
            \/ \E y \in Elems(response.values) : y # NaN /\ slot(y) = slot(x)
            \/ Elems(query[theQuery].cacheData) # {}
               /\ \A y \in Elems(query[theQuery].cacheData) : y < x
            \/ \E y \in Elems(cached.values) : y > x /\ slot(y) < slot(x)
=============================================================================

# TLA+ models of go-carbon

go-carbon is a Graphite storage daemon: receivers take points from the network,
a cache in memory collects them per metric, a persister writes batches to
whisper files, and carbonlink answers graphite-web's questions about points
that are not on disk yet; carbonserver answers them from the files and the
cache. This directory models these parts in TLA+,
model-checks them with TLC and proves, with TLAPS, the safety properties of all
of them but carbonserver. `PROJECT.json` lists the components, the runs, the source lines behind
every definition, the hazards of the code and the properties aimed at them.

## The system

| Part | Code | State | Operations | Talks to |
|---|---|---|---|---|
| receivers (TCP, pickle, UDP) | `receiver/` | sockets, a goroutine and a watcher per connection, counters, UDP's half lines | accept, read, parse, send, `Stat`, `Stop` | the cache's `inputChan` |
| cache worker | `cache/cache.go` | map of objects, size, write-out queue, the batch in its hand | receive/add, pop, hand over, query, exit | `inputChan`, `queryChan`, the tracker |
| confirm tracker | `cache/confirm.go` | unconfirmed batches per metric, the batch in its hand | add, send, confirm, answer, exit | the worker, `outputChan`, `confirmChan` |
| persister | `persister/whisper.go` | throttle, shuffler, workers and the channels between them | `Start`, `Stop`, `store` | `outputChan`, `confirmChan`, files |
| carbonlink | `cache/carbonlink.go` | a goroutine per connection, the query it holds | parse, query, wait or time out, reply | graphite-web, `queryChan` |
| carbonserver | `carbonserver/` | HTTP handlers, a list of files | find, render, info | `queryChan`, files |
| application | `carbon/app.go`, `carbon/grace.go`, `carbon-agent.go` | the components, a lock | `Start`, `ReloadConfig` (HUP), `GraceStop` (USR2), `Stop`, dump and restore | all of them |
| collector | `carbon/collector.go` | a queue of its own points | tick, send | `Stat` of everybody, `inputChan` |
| Stoppable | `helper/stoppable.go` | exit channel, wait group | `StartFunc`, `StopFunc` | embedded in most of the above |

What makes it hard: five kinds of goroutines share *pointers* to batches and
have no locks, only the discipline that nobody changes a batch that was handed
over; the queue of the worker outlives the map it was made from; a query is
answered in two places at two times; `Stop` of one part needs the next part to
keep reading; the persister is replaced under load; the two graceful stops look
at channel lengths and sizes while points are on their way; a dump has a second
reader on the channel it empties, and what follows it does not hold the lock;
datagrams are cut, lost and reordered; and a render request reads the cache and
the file at different times while points move from one to the other.

What makes each part correct:

- cache: no stored point is lost, doubled, reordered or miscounted on its way;
  replies have no holes; handed-out batches do not change; every point is
  written and every query answered in the end; `Stop` comes to an end.
- persister: a metric's batches are stored in order and once, a file is open in
  one worker, each batch is confirmed, `Stop` leaves nothing behind and returns.
- application: the two fit together under reload and both graceful stops; there
  is one persister at a time, the collector asks the current modules, and a
  process that is told to stop ends.
- dump and restore: exactly what is lost is known, nothing is stored twice.
- carbonlink: a reply belongs to its request and can be decoded.
- receivers: what was read is delivered, `Stop` is final and returns; a gap in a
  peer's datagrams damages one line of that peer.
- carbonserver: a value stands at its own time, and no point is missing because
  it was on its way from the cache to the file.

## Modules

| Module | What it is |
|---|---|
| `Cache` | worker and tracker; receivers, carbonlink and persister are its environment |
| `WriteBehind` | abstract: a write-behind buffer per metric. `Cache` implements it (`IsWriteBehind`) |
| `CacheWriteout` | `Cache` with a history of its write-out rounds |
| `CacheProofs` | theorems about `Cache`: types, the queue, conservation of points, the size, the tracker, shared objects, the limit |
| `CacheServiceProofs` | theorems about what `Cache` promises: the refinement of `WriteBehind`, replies, write-out rounds (`CacheWriteout`) |
| `Persister` | throttle, shuffler, workers, `store`; `Start` and `Stop` |
| `PersisterSystem` | `Persister` with a cache that feeds it and reads confirmations |
| `PersisterProofs` | theorems about `PersisterSystem`, and lemmas about `Persister` between any neighbours |
| `Pipeline` | `Cache` and `Persister` (by INSTANCE) over shared channels, driven by the application |
| `PipelineProofs` | theorems about `Pipeline`, from those about `Cache` and `Persister` |
| `Dump` | `Cache` with `GraceStopDump`, and the process that restores |
| `DumpProofs` | theorems about `Dump`, from those about `Cache` |
| `Carbonlink` | listener, connections, request parser, reply packer |
| `CarbonlinkProofs` | theorems about `Carbonlink`, and lemmas about its request parser |
| `Receiver` | the TCP receiver in its two protocols, with Stoppable and `Stat` |
| `Receivers` | `Receiver` and the UDP receiver: whatever `receiver.New` builds |
| `ReceiverProofs` | theorems about `Receivers` |
| `Render` | `Cache` with a persister's file and a render request of carbonserver |
| `App` | the fields of the application, its lock and everybody who touches them |
| `AppProofs` | theorems about `App` |
| `MC*` | constants for TLC |

### Cache

A `*points.Points` is an object on a heap: `obj` maps an address to the object's
points. An address is the metric and the serial number of the object's first
point, and serial numbers are given per metric when a message enters
`inputChan`. Aliasing is therefore visible: the queue, the map, `values`, the
tracker and a query may hold the same address, and `Add` to an object changes
what all of them see. The data of a point is its serial number (which stands
for the order of arrival) and a timestamp, which only `byTimestamp` reads.

The worker's loop is cut at its blocking points. The top of the loop (threshold,
`Pop`, choice of `sendTo`) is `LoopKeep`, `LoopPopQueued`, `LoopRebuild` or
`LoopEmpty`; each case of `select` is an action; the send of a query to the
tracker, outside the `select`, is `ForwardQuery` and may block. `updateQueue` is
the set of all queues that the map's iteration order and an unstable sort
permit. `c.size` and `c.sizeShared` always change together and are one variable.
`Stat`'s other counters, `SetMaxSize` and the getters have no action.
`accepted` and `written` are history: points that `Add` stored and points whose
batch was confirmed.

### Persister

A batch is a metric and a number. `store` is cut into open, update and confirm,
with a failure before the update (no schema, no permission, ...) and a panic in
it; the deferred confirmation comes last in every case. The throttle's ticker
may fire at any time, so the rate is irrelevant; the throttle is not in the wait
group, as in the code. The CRC of a metric's name is the constant `Hash`.

### Pipeline

The application's lock makes Start, reload, GraceStop and Stop exclude each
other, so one program counter serves all. `FlushLoop` reads the size and the
length of the input channel in two steps. `CacheContract` states that the
composition implements `Cache`'s own specification, so that what is checked and
proved about `Cache` with an environment that takes and confirms is true of the
cache with the real persister.

### Dump

The files are sequences of lines, a line is a point. `Cache.Dump` writes the
objects of the map one after the other, in any order (`left` are those it has
still to write), while the persister goes on confirming. Glue's buffer holds
`ChunkLines` lines. The persister stays `Cache`'s environment and keeps reading
the output channel. A line that `ParseText` refuses (a name that is empty or has
a blank in it, or the value NaN, all of which pickle lets in) is that of a point
in `Unreadable`. (A name with a newline would make two lines of one point; that
is not modelled.) The restoring process may crash, may fail to read a file, which
it then removes, and may fail to remove one, which is then left to the next
process (`kept`). Carbonlink and carbonserver go on asking the cache, and
carbonserver's `Stop` may not return (`StopListenersBlocks`). `DumpBlocked` names
the three waits that have no end.

### Carbonlink

Pickles are sequences of opcodes: the parser works on the opcodes of the
request, the packer produces those of the reply, and the client's unpickler
(external) is a stack machine that says whether a reply loads and to what.
The cache takes queries and answers any of them, late or never, and may stop at
any time. A reply of more opcodes than `MaxFrameSize` (1 MB in the code) is not
written and ends the connection, like one to a client that is gone.

### Receiver

A line or a frame parses or not and holds a number of messages; a pickle frame
may hold an empty list. The kernel's
and bufio's buffers are separate, because lines in the latter are still handled
after the connection was closed. Of framing it has the limit: a frame that is too
long ends the connection. `Stat` is two steps: load, subtract, on a counter modulo
`Wrap` (2^32 in the code). `loaded` and `overrun` are history: what had been
counted at the last load, and whether `Wrap` or more were ever counted between two
loads. In that case the counter has lost a multiple of `Wrap` before anybody could
read it, and `StatExact` says nothing; otherwise it says that the reports are
exact, not only modulo `Wrap`.

### Receivers

A scheme picks the receiver. For UDP a character of a peer's text is an atom or
the newline, and a datagram is an interval of the text. The next datagram to
arrive is any interval that has not arrived yet: this covers every cut, loss and
reordering. A record of an unfinished line expires after it was stored, is
deleted by `pop`, and the store is purged when it is at its limit and a second
has passed. `seen`, `breaks` and `refused` are history. A line put together from
two pieces may or may not parse. (The test that skips empty lines never
succeeds, because `ReadBytes` returns the newline too; an empty line is refused
by `ParseText` and counted as an error.)

### Render

`fetchHandler` is cut where it can wait: the query is sent, the file opened, the
reply awaited or timed out, the file read. Meanwhile the cache, the tracker and
a persister that saves a batch and then confirms it go on. `fetchCachedData` and
the joining of batches are folds over the reply, as in the code. Timestamps may
be off the steps of the file, equal, or late. Of whisper there is `Interval`,
`Fetch` and `UpdateMany`, from how the code uses them (external): a file keeps one
value per step, a timestamp belongs to the step it is rounded down to, of several
points of a batch in one step any one may be kept, and a `Fetch` whose range has
the length zero is taken to return no values. The persister saves and confirms
the metric's batches in the order in which it took them, which is what
`InOrderOnce` says of it.

`ValuesInPlace` and `KnownShown` are about *seamless* replies. Within each of
their batches the timestamps do not fall and `fetchCachedData`'s count of missing
steps, which it takes from the raw difference of two timestamps
(`carbonserver.go:388-399`), is the number of steps of the file between them
(`Regular`); and each batch begins one step after the end of the one before. For
the others the code gives what its concatenation gives: with a step of 60, the
timestamps 119 and 240 in one batch get one NaN for two missing steps and 61 and
70 two values for one step, and all values behind them are shifted; so are those
of a batch that does not follow on the one before, and a batch stands twice when
the worker answers from its hand and passes that batch to the tracker before the
tracker sees the query.

### App

A field of `App` is 0 (nil) or the number of the object it points to, and cache
and persister are counts of batches. This is the module for what happens around
the lock. `stopAll` after a dump runs without it, so every read and every write
of a field that another goroutine may write is a step: `if app.F != nil`, the
call of `app.F.Stop()` on what the field holds by then, the wait, and `app.F =
nil`. `Loop` reads `app.exit` under the lock and once more without.
`NewCollector` compares each module with nil and reads it again. Loading a nil
pointer is the outcome `"panic"`, `logrus.Fatal` is `"fatal"`. The cache is up or
not; that its `Stop` may wait for ever for a worker that is left in its send to
the tracker (`cache.go:272`, in full in `Cache`) is the action `CacheStuck`, at
both places where a graceful stop calls it (`DumpStop`, `StopOwn`).

## Runs

All constants are in the `.cfg` files. Capacities are 1 where a full channel is
the interesting case; two metrics suffice wherever metrics interact (queue
order, shuffling, the map), since no operation looks at more than two at a time.

| Run | Shows | Bounds |
|---|---|---|
| `cache` | types, fresh queue, nothing lost, exact size, exact tracker, bounded overshoot, replies without holes, frozen batches, refinement of `WriteBehind` (and with it the order) | two metrics, two points each, messages of up to two points, one query, limit 2, so that overflow, rebuilds and a query between two batches happen; `InputCap` 9 makes any waiting message urgent, so that the cache can fill up before the worker takes a batch (`pipeline` has the threshold at 1) |
| `cache_live` | every point written, every query answered, `Stop` ends | one metric, two points, two queries on channels of capacity 1: enough for the blocked send at exit |
| `cache_writeout` | no metric is passed more than twice | three points per metric, all strategies |
| `persister` | order, exclusive files, nothing left after `Stop` | two metrics, two batches each, one or two workers, throttled or not, two starts |
| `pipeline` | confirmations in order, the persister's `Stop` and the flush loop end, everything taken is confirmed, `Cache`'s specification | one metric with two points, two starts, all operations; no queries, which the persister never sees (`cache_live` has them, and the `Stop` of the cache that they can block) |
| `dump` | what exactly a dump loses, nothing twice, order, restore; a dump and the stop after it end, or are in one of three named waits | one metric with two points, the second unreadable (the theorems have any number of metrics), two queries, all channels of capacity 1, so that each of the three waits happens; one process that starts over after a crash or a failed remove |
| `carbonlink` | queries as asked and replies in turn, replies that decode to the answer, requests answered | one connection, two requests in four pickle styles, three types, six answers, one of them too long for a frame, query channel of capacity 1 (a query that timed out can block the next) |
| `receivers` | nothing read is dropped, intact peers, contained damage, silence after `Stop`, `Stop` returns, exact reports of `Stat` | one connection, three items (parsed or refused, of none, one or two messages, or over the frame limit), input channel of capacity 1; two peers with two lines and one, each line one character and the newline, cut anywhere; two breaks, a store of two records, so that a purge meets another peer's half line and a line is joined from two others; counters modulo 3 and three calls of `Stat` beside TCP, one beside UDP, so that the counter wraps between load and subtraction and between two loads, and by `Wrap` or more |
| `render` | values at the step of their own time, no known point missing | one metric (the handler treats each by itself), three points in messages of up to two, with steps left out, off the steps, two of one time, two of one step and a late one; requests that begin before, at and off a step |
| `app` | panics only in the two unlocked situations, one persister, current collector, no receiver's message left, the process ends or is in one of four named blocked states | one reload to any of three configurations (throttled; dump with everything local; no whisper and a remote collector), carbonserver with and without a scan frequency, one message, one restored line and one collected value on channels of capacity 1, so that each can block the other |

In `app`, carbonserver switched off adds no behaviour to the two others and is
left out; with one value the collector's queue is never over its limit, so the
drop is not exercised there. One reload is enough for each of the five places
where a reload beside a stop can panic.

Connections share only the channel and the counters, so one connection with
several items stands for several; the channel is already full and the counters
already change under `Stat` with one.

Two runs expect a violation; each is a finding in `PROJECT.json`:

- `grace_stop`: GraceStop can return with points in the worker's hand, the
  tracker or the output channel, which `FlushLoop` does not count.
- `pack_reply`: one batch of several points in flight and nothing cached gives a
  reply that no unpickler loads. (`RepliesMatch`, which holds, says that this and
  the error reply to a type without exactly three letters are the only ones.)

Passing properties also fix the exact limits of what the code does:

- `ReplyHasNoHole`: a query that finds an older batch of its metric in the
  worker's hand does not get the newer points of the map (`cache.go:266`): only
  the youngest points can be missing.
- `DumpLosesOnlyInHand`: a dump loses what is in the worker's and the tracker's
  hand and the lines in Glue's buffer, which exit leaves there (`glue.go:37`),
  although `grace.go:180` waits "for all data from input channel written".
- `PanicsOnlyUnlocked`: a reload panics if it runs when GraceStop is over and
  main has not returned, or beside the `stopAll` after a dump (`grace.go:30`).
- `StopEnds`: a stop waits for ever for a cache whose worker is left in its send
  to the tracker (`cache.go:272`; `StopReturns` of `Cache` and `DumpEnds`
  have the same exception); for a carbonserver without a scan frequency,
  whose exit channel is nil (`carbonserver.go:785`); after a dump for a persister
  whose confirmations nobody reads (`grace.go:143`; 2048 must be under way); and
  main, when the whole stop fell between its two reads of `app.exit`
  (`app.go:352`).
- `StatExact`: a report lacks a multiple of 2^32 if that many points were counted
  since the one before.
- `KnownShown`: an answer lacks points of the map while an older batch is in the
  worker's hand, and saved points behind a late one that is still cached.
- `OnlyOwnPointsLeft`: points of the collector and of a restorer that still runs
  can be left in the input channel of a process that stopped gracefully.

Seen on the way and not a run: `configure` accepts the write strategy
`"sorted"`, which the README documents, and `SetWriteStrategy` knows only
`"sort"`; its error is ignored (`app.go:239`), so `"sorted"` means `"max"`. And
`README.md:18` has the persister stopped before a dump, which `GraceStopDump`
does not do; `DumpedOnce` shows that nothing is stored twice all the same.

In carbonserver's render: a `from` off a step, in the step of the first cached
point, makes `whisper.Fetch` refuse the range and the metric is missing from the
answer (`RenderFetch`, third case); the stop time is wrong as soon as the cache
contributes, since it is that of the file's part (`ValuesInPlace` speaks of it
for answers without); `cacheUntilTime = cacheFetchedFromTime` takes the wrong
variable, but its value is overwritten before use; the return for a request
without an archive leaves the file open.

## Fairness

Go runs every goroutine that can move, and `select` picks at random among the
cases that are ready. A case of the worker's `select` is ready only while the
worker stands there, again and again, so it gets strong fairness; the tracker
goes straight back to its `select`, where a ready case stays ready, so weak
fairness is enough. A goroutine blocked on a full channel waits in a queue and
is served in turn: strong fairness for such sends (`SendQuery`, `Out`). Timers
fire (`queryTimeout`, tickers). The persister keeps taking and confirming. No
fairness is assumed of clients, of receivers' input, of the cache's answers in
`Carbonlink`, or of the read deadline in `Receiver`, which every line moves.

In `Pipeline` and `Dump` it is weak fairness of each goroutine as a whole (worker,
tracker, persister, application, log, dump, restore), which leaves open which case
a `select` takes. The input and the queries are finite there, so no goroutine can
be kept busy for ever. Signals and new processes get none.

In `Receivers` the UDP goroutine is fair where it is not waiting for a datagram.
In `App` each goroutine is weakly fair (main, the two handlers once they have
begun, the cache, the input log, the persisters, a scan; not `CacheStuck`), and the message that
ends `fileListUpdater` is strongly fair, because that comes to its select again
and again. Signals, clients, ticks, the restorer, the collector and failures get
none: `StopEnds` does not rest on them. Reloads and input are bounded in `App`,
so nobody can keep the lock or the input channel busy for ever; in the code an
endless stream of HUPs or of the collector's points could.

Runs do not check for deadlock: all these systems may stop, because they were
stopped or because the bounded input is used up.

## Proofs

Every theorem is proved by TLAPS for all values of the constants that satisfy the
named assumptions of the modules. These say: bounds are natural numbers,
capacities, chunks and counts of workers are positive, `Nil` and `None` are none
of the values they stand beside; for `Cache` also that there are finitely many
metrics, for `Carbonlink` that a request's style is made of an order of the keys,
memos or none and a string opcode, for `Persister` and `Pipeline` that the counts of
workers have a maximum, for `Receivers` that a peer is not a connection, and for `App` what a configuration
is. TLC evaluates all of them on the instances of the runs.

No property below is inductive alone. Each module strengthens it to an invariant
that says why it survives every step, proves `Init => Inv`, one lemma per action
(or per group of actions that change the same things), and combines them. All
these invariants were checked by TLC on the runs' instances before they were
proved.

### Cache: `CacheProofs`

`TypeCorrect`, `QueueAlwaysFresh`, `NothingLost`, `SizeAlwaysExact` follow from
`Invariance`, `Spec => []IInv`. That the size stays exact when `Pop` subtracts an
object's length needs that an object's points are distinct (`ObjectsOK`) and that
map and hand are disjoint (`NoLoss`); that `NoLoss` survives `Add` needs that what
waits in the input channel is new (`InputOK`), which needs that `accepted` lies
below the serial numbers given out (`AcceptedOK`); that it survives `Pop` needs a
fresh queue and that the map files an object under its own metric (`MapOK`); that
it survives the tracker's `confirm` needs that a confirmed batch is already in
`written` (`BehindOK`).

The argument has one lemma per kind of step: `QuietStep` for the actions that
move no point (queries, exits, the loop without a pop), `ReceiveStep`, `PopStep`,
`SendStep`, `PassOnStep` and `BehindStep` for a batch that moves on,
`TrackerConfirmStep`, `AddNewStep`, `AddExtendStep` and `OverflowStep` for the
input. Facts about sequences as sets (`ElemsAppend`, `ElemsTail`, ...) and about
cardinalities (`DisjointCount`) come first.

`TrackerAlwaysExact`, `Frozen` (the action property `HandedOutFrozen`) and
`Overshoot` follow from `HandOverInvariance`, `Spec => []TInv`. `TInv` is `IInv`
and: a batch behind the worker is in exactly one of the tracker's hand, the output
channel, the persister and the confirm channel (`OncePlaced`; without it one
confirmation could remove two entries of the tracker, or none); two unconfirmed
batches share no point (`InFlightApart`); a batch that a reply points to is
neither in the map nor in the input channel, where `Add` could still change it
(`ShownOK`); no message is longer than `MaxBatch` (`InputShort`).

### What the cache promises: `CacheServiceProofs`

`Refinement` is `Spec => IsWriteBehind`. The mapping takes a metric's map object to
the buffer, the tracker's list and the worker's hand to the pending batches, and
what is written and no longer with the tracker to the settled points. `Receive`,
queries, `Take`, `Confirm` and the moves between worker and tracker leave the
mapped state alone; `Add` is an `Accept`, `Pop` a `Flush`, `confirm` a `Settle`.
Each case uses `TInv`: that an object handed out keeps its contents and that a
confirmation is for exactly one entry of the list.

`RepliesHaveNoHoles` follows from `ReplyInvariance`, `Spec => []RInv`: the input
channel, the map, the hand and the tracker keep a metric's order of arrival
(`InputOrder`, `StageOrder`), a query is in one place that its status tells
(`QueryPlaced`), and a point that is due to a query between worker and tracker has
been copied, is with the tracker, or is younger than all that was copied
(`HandledOK`). `NoStarvation` is `WriteoutSpec => []BoundedBypass`. The bound 2 is
not inductive; `BypassOK` splits it: a metric in the queue has been passed at most
once by one that is in the queue too, and a metric that is in the map only, never
by one in the queue and at most once by one that is not. A rebuilt queue has every
metric of the map once (`RebuiltComplete`), which is what closes the argument.

### Persister: `PersisterProofs`

`StopLeavesNothing`, `OneWriterPerFile` and `NothingLostOrReordered` follow from
`PersisterInvariance`, `SystemSpec => []PInv`: where each goroutine stands in each
state of the persister and which channels are closed or empty then (`LifeOK`; it
makes a restart with another number of workers find nothing left), a worker has
only batches whose metric hashes to it (`HomeOK`), the batches of a metric stand in
feeding order along the eight stages from the confirmations back to the input
(`LineOK`), and a file has only batches that are confirmed or about to be, oldest
first (`FileOK`). There is one lemma per goroutine step; `LineOK` is kept by a
lemma on moving a batch from the front of one stage to the end of the one before
(`PersistLine`, for batches with any numbers, not only those that `Feed` gives).

### Cache and persister together: `PipelineProofs`

`PersisterKeepsContract` (`PipelineSpec => CacheContract`), `ConfirmedInOrder`
(`ConfirmsHead`) and `PipelineLosesNothing` follow from `PipelineInvariance`,
`PipelineSpec => []PipeInv`, which has four parts: the cache's `TInv`; the
persister's `Sound` (types, `LifeOK`, `HomeOK` and the order along the stages);
`taken = Inside`, the cache's view of the persister; and `BatchOrder`, the order of
a metric's batches in the input channel, the map, the worker's hand, the tracker's
list and hand. The parts need each other. A step of a persister goroutine moves a
batch within `Inside`, takes the first of `outputChan`, or confirms one that is
nowhere else inside (`InsideStep`; that there is no second copy needs the strict
order along the stages), so for the cache it is a stutter, a `Take` or a `Confirm`.
Start and Stop move no batch, because a stopped persister has none
(`NothingInside`). The order along the stages survives the tracker's send because
the batch in its hand is the youngest (`HandOrder`), and the order of the tracker's
list survives `confirm` because the confirmed batch is its first, which is
`ConfirmsHead` itself (`HeadConfirmed`). `PersisterProofs` enters as an instance
whose neighbours are the cache's channels; the assumptions of `Persister` are proved
from `Pipeline`'s (`PersisterConstants`).

### Dump and restore: `DumpProofs`

`DumpLoss` (`DumpLosesOnlyInHand`) and `DumpOnce` (`DumpedOnce`) follow from
`DumpInvariance`, `DumpSpec => []DumpInv`. `IInv` holds throughout a dump; `TInv`
does not, because the dump reads batches from the output channel that the tracker
still remembers and nobody will confirm. So `TInv` is a part of `DumpInv` only until
the snapshot begins (`Early`), and what survives it is stated by itself: a batch on
its way to the confirmation is in one place and shares no point with another, and
what the tracker remembers is on its way, written or saved (`WayOK`); the batches on
their way are not written and are in order (`WayOrder`). `SnapOK` and `LogOK` make
the two files two more stages of the conservation of points: what is in them is
nowhere else and in the order of arrival. From the snapshot on (`Late`) the map
stands still and what is still to be saved is younger than what has been
(`SaveOK`), and each wait of `GraceStopDump` has left empty what it waited for
(`PhaseOK`). At the end `PhaseOK` leaves only the two hands and Glue's buffer.

`AllRestored` (`RestoredAll`) has an invariant of its own, `RestoreInv`: unless a
read failed, every readable line of a file that is no longer to be read has been
sent, and of the file being read those that were read, by this process or an earlier
one; nothing but lines of the files was sent (`SentAll`). As long as no process
started over, they were sent in the order of the files (`SentInOrder`, by `Ordered`,
which names for each line sent its place in the files).

### Carbonlink: `CarbonlinkProofs`

The parser first: `RequestRead` and `RubbishRefused` follow `ParseCarbonlinkRequest`
through the opcodes of a request in every style, so that `FrameRead` can say that
what the handler reads of a frame is what the client meant. `QueriesMeant`,
`NoLateReply` and, from both, `ServedInTurn` (`RequestsInTurn`) follow from
`LinkInvariance`, `Spec => []LinkInv`. For each connection there is a number k of
queries made so far: these are its first k requests (`Made`), what is on the wire
are the requests after them (`Unread`), and all of them but the one in hand have
their replies (`Answering`). The handler's timeout does not take its query back, so
a later answer still writes into it; that it does so at most once, and never into
a query whose answer a reply was made from, needs that a query is in one place
between handler and answer (`OnePlace`).

### App: `AppProofs`

`LockedHandlersDoNotPanic`, `AtMostOnePersister`, `CollectorAlwaysCurrent` and
`NoMessageLeft` follow from `AppInvariance`, `Spec => []AInv`: who has the lock at
which program counter (`LockOK`), how far a stop has come and what is gone by then
(`PhaseOK`), that outside the unlocked part of a stop what a handler has read of a
field is still true when it uses it (`FieldsOK`), which persister and which
collector run (`PersisterOK`, `CollectorOK`). `FieldsOK` is the heart: it is a
statement about two handlers that read and write the same fields step by step.

### Receivers: `ReceiverProofs`

`QuietStop` (the action property `QuietAfterStop`), `StatAlwaysExact` and
`NothingEverDropped` follow from `ReceiverInvariance`, `ReceiversSpec =>
[]ReceiverInv`, for TCP, pickle and UDP together. After Stop no goroutine is left
that could send (`StoppedOK`). What was counted since the last load, with what Stat
has read and not yet subtracted, is the counter plus a multiple of `Wrap` (`Wraps`):
this survives counting and subtraction however often the counter wraps, and at the
next load, if fewer than `Wrap` were counted, it makes the value read exactly what
was counted (`SmallEqual`), which is what `StatExact` needs to survive. The items of
a connection stand in sending order in `consumed`, `buf` and `wire` (`QueueOK`), pending messages are the last piece of the item read
(`PendingOK`), and the messages before that piece, and no others, were delivered in
order (`DeliveredOK`).

`DamageStaysContained` and `IntactAlways` (the invariants `DamageContained` and
`IntactPeer`) follow from `UdpInvariance`, `ReceiversSpec => []UdpInv`, proved on top
of `ReceiverInv` for any number of peers, lines and parts of a line. The two
invariants speak of lines that went out; the proof needs what the receiver still
holds of a peer's text, which is the peer's record or, while a datagram of that peer
is split, the rest of the datagram (`Rest`). By `PeerOK` this is

- *clean*: the text from the beginning of a line to the end of the last datagram,
  with no more strange and refused lines so far than breaks, and with exactly the
  lines before it delivered in turn if there was no break; or
- *ragged*: it ends with the last characters of the text seen, no newline stands
  before those, and one break has not yet cost its line.

A break turns clean into ragged, the next newline turns ragged into clean and costs
one line, and a break of what is already ragged costs nothing more; this is why a gap
never damages two lines. `StoreOK` (a record has no newline, and is gone while a
datagram of its peer is split) keeps the two places of the text apart, and `SchemeOK`
(a receiver has a receive goroutine or connections, never both) keeps TCP messages
out of the argument. The lemmas about the text (where the next newline of an interval
stands, what splitting there leaves) are arithmetic on multiples of the width of a
line.

### Only model-checked

- Liveness (`EventuallyWritten`, `OperationReturns`, `TakenConfirmed`, `DumpEnds`,
  `StopReturns` and the other leads-to properties): fairness and ENABLED are outside
  TLAPS as installed.
- What folds over data compute: the client's unpickler in `Carbonlink`
  (`RepliesMatch`), `fetchCachedData` and the joining of batches in `Render`
  (`ValuesInPlace`, `KnownShown`). Induction over data is not available to the
  provers.

## Not modelled

- carbonserver's globs, find, info, response formats and trigram index:
  sequential reads of the file system, with no state shared but a list that is
  replaced as a whole.
- The arithmetic of the throttle's rate, and Restore's throttle: delays.
- The collector's values and its connection to another host; transient read
  errors of the UDP socket and its counter of incomplete messages.
- whisper itself, schemas and aggregation: a file is what was written to it, a
  missing schema is one reason of a failed store.
- The byte layout of frames, `framing`'s `Read`, the parsing of numbers in text
  and pickle messages.
- The order of restored and live points, which nothing promises.
- Command line, daemon and pid file; logging, configuration files, test helpers,
  vendored code.

## Plan

1. (done) `Cache` with its properties, refinement and liveness; `Persister`;
   their composition; the dump; carbonlink; the TCP receiver; the proofs of the
   cache's four main invariants.
2. (done) `Receivers` with UDP; `Render`; `App` with the collector, carbonserver's
   stop, and reload beside both graceful stops.
3. (done) Proofs: the tracker, shared objects, the limit, the refinement, replies
   and write-out rounds of the cache; the persister; cache and persister together;
   the receivers; the application's lock.
4. (done) Proofs: the dump and the restore; carbonlink's requests and replies; the
   text of the UDP receiver's peers.

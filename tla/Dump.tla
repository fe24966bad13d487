-------------------------------- MODULE Dump --------------------------------
(***************************************************************************)
(* GraceStopDump and Restore (carbon/grace.go) around the cache: on USR2   *)
(* new input goes to a log file, the cache is stopped, its contents and    *)
(* what is left in its output channel go to a snapshot file, the listeners *)
(* are stopped and the process ends; the next process sends the lines of   *)
(* both files to its own input channel.                                    *)
(*                                                                         *)
(* The persister is Cache's environment (Take, Confirm): nobody stops it   *)
(* before the dump is finished, and it goes on reading the output channel  *)
(* which the dump reads, too.  A file is a sequence of lines, a line is a  *)
(* point.  ParseText reads back what Sprintf wrote, except some lines of   *)
(* points that came in by pickle: a name that is empty or has a blank in   *)
(* it, and a value that is not a number.                                   *)
(***************************************************************************)
EXTENDS Cache

CONSTANTS
    ChunkLines,   \* lines in Glue's buffer (65536 bytes)
    Unreadable,   \* points whose lines ParseText does not read back
    MaxRestarts   \* bound: processes that start over with files left by another

ASSUME DumpAssumption == /\ ChunkLines \in Nat \ {0} /\ MaxRestarts \in Nat
                         /\ Unreadable \subseteq Point

VARIABLES
    dumpPC,       \* where GraceStop is, and after it the next process
    listening,    \* the receivers run
    outputClosed, \* outputChan is closed
    snap,         \* the file cache.<pid>.<nanoseconds>
    left,         \* objects of the map that Cache.Dump has still to write
    xlog,         \* the file input.<pid>.<nanoseconds>
    xlogPC,       \* the goroutine that runs Glue on the input channel
    xlogBuf,      \* its buffer
    xlogExit,     \* its exit channel is closed
    files,        \* the dump files that are on disk
    kept,         \* those that this process has read and could not remove
    pos,          \* lines read of the file being restored
    restored,     \* lines sent to the next process's input channel
    restarts, readFailed

snapVars    == <<snap, left>>
glueVars    == <<xlog, xlogPC, xlogBuf, xlogExit>>
dumpVars    == <<dumpPC, listening, outputClosed, snapVars, glueVars>>
restoreVars == <<files, kept, pos, restored, restarts, readFailed>>
allVars     == <<vars, dumpVars, restoreVars>>

Alive == dumpPC \notin {"fatal", "restore", "restored"}

DumpInit ==
    /\ Init
    /\ dumpPC = "run" /\ listening = TRUE /\ outputClosed = FALSE
    /\ snap = Empty /\ left = {} /\ xlog = Empty
    /\ xlogPC = "off" /\ xlogBuf = Empty /\ xlogExit = FALSE
    /\ files = {} /\ kept = {} /\ pos = 0 /\ restored = Empty
    /\ restarts = 0 /\ readFailed = FALSE

\* The running process: receivers, cache and persister.  The handlers of
\* carbonlink and carbonserver ask as long as the process lives.
CacheStep ==
    /\ Alive
    /\ \/ Worker \/ Tracker
       \/ listening /\ \E m \in Metric, k \in 1..MaxBatch : Receive(m, k)
       \/ \E q \in Query, m \in Metric : Ask(q, m)
       \/ Take
       \/ \E a \in Addr : Confirm(a)
    /\ UNCHANGED <<dumpVars, restoreVars>>

(***************************************************************************)
(* Glue: lines are collected in a buffer that is handed on when the next   *)
(* line does not fit, and once a second.                                   *)
(***************************************************************************)
Lines(a) == [i \in 1..Len(obj[a]) |-> <<MetricOf(a), obj[a][i]>>]
\* How many of n lines stay in the buffer.
Kept(n)  == IF n = 0 THEN 0 ELSE 1 + ((n - 1) % ChunkLines)

GlueReceive ==
    LET all  == xlogBuf \o Lines(Head(inputChan))
        done == Len(all) - Kept(Len(all)) IN
    /\ xlogPC = "run" /\ Alive
    /\ inputChan # Empty
    /\ inputChan' = Tail(inputChan)
    /\ xlog' = xlog \o SubSeq(all, 1, done)
    /\ xlogBuf' = SubSeq(all, done + 1, Len(all))
    /\ UNCHANGED <<obj, next, storeVars, workerVars, trackVars, queryVars, persistVars,
                   fixedVars, accepted, dumpPC, listening, outputClosed, snapVars, xlogPC,
                   xlogExit, restoreVars>>

GlueTick ==
    /\ xlogPC = "run" /\ Alive
    /\ xlogBuf # Empty
    /\ xlog' = xlog \o xlogBuf
    /\ xlogBuf' = Empty
    /\ UNCHANGED <<vars, dumpPC, listening, outputClosed, snapVars, xlogPC, xlogExit, restoreVars>>

\* Exit: the buffer is dropped.
GlueExit ==
    /\ xlogPC = "run" /\ Alive
    /\ xlogExit
    /\ xlogPC' = "done"
    /\ UNCHANGED <<vars, dumpPC, listening, outputClosed, snapVars, xlog, xlogBuf, xlogExit,
                   restoreVars>>

(***************************************************************************)
(* GraceStopDump.                                                          *)
(***************************************************************************)
Goto(pc) == dumpPC' = pc

\* Create the files and start the goroutine that logs the input.
BeginDump ==
    /\ dumpPC = "run"
    /\ Goto("stopCache")
    /\ xlogPC' = "run"
    /\ files' = {"cache", "input"}
    /\ UNCHANGED <<vars, listening, outputClosed, snapVars, xlog, xlogBuf, xlogExit, kept, pos,
                   restored, restarts, readFailed>>

\* A file cannot be created, or Dump, Flush or Close fails: GraceStop ends the
\* process.  (Glue ignores the errors of its writes.)
DumpFails ==
    /\ dumpPC \in {"run", "snapMap", "flushXlog"}
    /\ Goto("fatal")
    /\ UNCHANGED <<vars, listening, outputClosed, snapVars, glueVars, restoreVars>>

StopCache ==
    /\ dumpPC = "stopCache"
    /\ Stop
    /\ Goto("closeOut")
    /\ UNCHANGED <<listening, outputClosed, snapVars, glueVars, restoreVars>>

\* Mutant: the channel stays open.
CloseOutNot ==
    /\ dumpPC = "closeOut"
    /\ workerPC = "done" /\ trackerPC = "done"
    /\ Goto("snapOut")
    /\ UNCHANGED <<vars, listening, outputClosed, snapVars, glueVars, restoreVars>>

\* The cache's goroutines have ended; close its output channel.
CloseOut ==
    /\ dumpPC = "closeOut"
    /\ workerPC = "done" /\ trackerPC = "done"
    /\ outputClosed' = TRUE
    /\ Goto("snapOut")
    /\ UNCHANGED <<vars, listening, snapVars, glueVars, restoreVars>>

\* Mutant: the batch is copied and stays in the channel.
SnapOutKeeps ==
    /\ dumpPC = "snapOut"
    /\ outputChan # Empty
    /\ snap' = snap \o Lines(Head(outputChan))
    /\ UNCHANGED <<vars, dumpPC, listening, outputClosed, left, glueVars, restoreVars>>

\* Glue on the closed output channel, beside the persister; its buffer is
\* flushed at the end.
SnapOut ==
    /\ dumpPC = "snapOut"
    /\ outputChan # Empty
    /\ outputChan' = Tail(outputChan)
    /\ snap' = snap \o Lines(Head(outputChan))
    /\ UNCHANGED <<obj, inVars, storeVars, workerVars, trackVars, queryVars, taken,
                   confirmChan, written, fixedVars, accepted, dumpPC, listening, outputClosed,
                   left, glueVars, restoreVars>>

SnapOutEnds ==
    /\ dumpPC = "snapOut"
    /\ outputChan = Empty /\ outputClosed
    /\ Goto("snapMap")
    /\ left' = CachedAddrs
    /\ UNCHANGED <<vars, listening, outputClosed, snap, glueVars, restoreVars>>

\* Cache.Dump writes the map's objects, one after the other in any order.
SnapObject ==
    /\ dumpPC = "snapMap"
    /\ \E a \in left : /\ snap' = snap \o Lines(a)
                       /\ left' = left \ {a}
    /\ UNCHANGED <<vars, dumpPC, listening, outputClosed, glueVars, restoreVars>>

\* Dump returns; the snapshot is flushed and closed.
SnapMapEnds ==
    /\ dumpPC = "snapMap"
    /\ left = {}
    /\ Goto("stopListeners")
    /\ UNCHANGED <<vars, listening, outputClosed, snapVars, glueVars, restoreVars>>

\* stopListeners returns when no receiver will send any more.
StopListeners ==
    /\ dumpPC = "stopListeners"
    /\ listening' = FALSE
    /\ Goto("waitInput")
    /\ UNCHANGED <<vars, outputClosed, snapVars, glueVars, restoreVars>>

\* The receivers have stopped, but not carbonserver: its Stop sends on a channel
\* that nobody receives from when there is no scan frequency.
StopListenersBlocks ==
    /\ dumpPC = "stopListeners"
    /\ listening' = FALSE
    /\ Goto("blocked")
    /\ UNCHANGED <<vars, outputClosed, snapVars, glueVars, restoreVars>>

\* Mutant: the log is closed without waiting for the input channel.
WaitInputNot ==
    /\ dumpPC = "waitInput"
    /\ xlogExit' = TRUE
    /\ Goto("waitXlog")
    /\ UNCHANGED <<vars, listening, outputClosed, snapVars, xlog, xlogPC, xlogBuf, restoreVars>>

\* FlushLoop: wait until the input channel is empty, then end the log.
WaitInput ==
    /\ dumpPC = "waitInput"
    /\ inputChan = Empty
    /\ xlogExit' = TRUE
    /\ Goto("waitXlog")
    /\ UNCHANGED <<vars, listening, outputClosed, snapVars, xlog, xlogPC, xlogBuf, restoreVars>>

WaitXlog ==
    /\ dumpPC = "waitXlog"
    /\ xlogPC = "done"
    /\ Goto("flushXlog")
    /\ UNCHANGED <<vars, listening, outputClosed, snapVars, glueVars, restoreVars>>

FlushXlog ==
    /\ dumpPC = "flushXlog"
    /\ Goto("stopPersister")
    /\ UNCHANGED <<vars, listening, outputClosed, snapVars, glueVars, restoreVars>>

\* stopAll: the persister finishes what it has taken; the process ends and
\* the next one starts to restore.
ProcessEnds ==
    /\ dumpPC = "stopPersister"
    /\ taken = {}
    /\ Goto("restore")
    /\ UNCHANGED <<vars, listening, outputClosed, snapVars, glueVars, restoreVars>>

(***************************************************************************)
(* The next process: RestoreFromDir.  (Restore's throttle only delays.)    *)
(***************************************************************************)
\* Both files have the same time stamp; "1" for cache sorts before "2" for input.
ToRead    == files \ kept
FirstFile == IF "cache" \in ToRead THEN "cache" ELSE "input"

Content(f) == IF f = "cache" THEN snap ELSE xlog

\* A line is read, parsed, and sent unless it is refused.
RestoreLine ==
    /\ dumpPC = "restore" /\ ToRead # {}
    /\ pos < Len(Content(FirstFile))
    /\ LET line == Content(FirstFile)[pos + 1] IN
       restored' = IF line \in Unreadable THEN restored ELSE Append(restored, line)
    /\ pos' = pos + 1
    /\ UNCHANGED <<vars, dumpVars, files, kept, restarts, readFailed>>

\* os.Remove, which may fail: then the file stays for the next process.
RemoveFile(f) ==
    \/ files' = files \ {f} /\ UNCHANGED kept
    \/ kept' = kept \cup {f} /\ UNCHANGED files

\* Mutant: the file is removed when its last line is still to be read.
RestoreRemoveEarly ==
    /\ dumpPC = "restore" /\ ToRead # {}
    /\ \/ pos + 1 >= Len(Content(FirstFile)) /\ UNCHANGED readFailed
       \/ readFailed' = TRUE
    /\ RemoveFile(FirstFile)
    /\ pos' = 0
    /\ UNCHANGED <<vars, dumpVars, restored, restarts>>

\* The file is removed: at its end, and also when reading it failed.
RestoreRemove ==
    /\ dumpPC = "restore" /\ ToRead # {}
    /\ \/ pos = Len(Content(FirstFile)) /\ UNCHANGED readFailed
       \/ readFailed' = TRUE
    /\ RemoveFile(FirstFile)
    /\ pos' = 0
    /\ UNCHANGED <<vars, dumpVars, restored, restarts>>

RestoreEnds ==
    /\ dumpPC = "restore" /\ ToRead = {}
    /\ Goto("restored")
    /\ UNCHANGED <<vars, listening, outputClosed, snapVars, glueVars, restoreVars>>

\* Another process starts over: the one before it crashed while it restored, or
\* ended later and had left a file that it could not remove.
RestoreAgain ==
    /\ dumpPC \in {"restore", "restored"} /\ files # {}
    /\ restarts < MaxRestarts
    /\ restarts' = restarts + 1
    /\ Goto("restore")
    /\ pos' = 0 /\ kept' = {}
    /\ UNCHANGED <<vars, listening, outputClosed, snapVars, glueVars, files, restored, readFailed>>

Glue    == GlueReceive \/ GlueTick \/ GlueExit
Dumper  == \/ StopCache \/ CloseOut \/ SnapOut \/ SnapOutEnds \/ SnapObject \/ SnapMapEnds
           \/ StopListeners \/ StopListenersBlocks \/ WaitInput \/ WaitXlog \/ FlushXlog \/ ProcessEnds
Restore == RestoreLine \/ RestoreRemove \/ RestoreEnds

DumpNext == CacheStep \/ Glue \/ BeginDump \/ DumpFails \/ Dumper \/ Restore \/ RestoreAgain

DumpSpec == DumpInit /\ [][DumpNext]_allVars

-----------------------------------------------------------------------------
\* The points that receivers have put on the input channel.
Received == {x \in Point : x[2] < next[x[1]]}
Dumped   == Elems(snap) \cup Elems(xlog)
Saved    == snap \o xlog
Finished == dumpPC \in {"restore", "restored"}
Ascending(s) == \A i, j \in 1..Len(s) : i < j /\ s[i][1] = s[j][1] => s[i][2] < s[j][2]

\* A dump that has finished loses exactly three things: the batch in the
\* worker's hand, the batch in the tracker's hand (both goroutines return from
\* their select with it, and nobody looks there: cache.go:281, confirm.go:84),
\* and what the input log had in its buffer (glue.go:37, although grace.go:180
\* wants "all data from input channel written").  Everything else that the
\* cache accepted or the log received is in one of the two files or has been
\* through the persister, although the dump and the persister read the same
\* channel; and that is all that was ever received, unless the cache has a
\* size limit and drops what comes when it is full.
DumpLosesOnlyInHand ==
    Finished =>
        /\ (accepted \cup Elems(xlog) \cup Elems(xlogBuf)) \ (written \cup Dumped)
               = InHand \cup PointsAt({p} \ {Nil}) \cup Elems(xlogBuf)
        /\ MaxSize = 0 => Received = accepted \cup Elems(xlog) \cup Elems(xlogBuf)

\* No point is in the files twice, and none that the persister has dealt with
\* is in a file: the next process stores every point once.  And in each file a
\* metric's points stand in the order of arrival: the batches of the output
\* channel are older than the map's.
DumpedOnce ==
    /\ \A i, j \in 1..Len(Saved) : Saved[i] = Saved[j] => i = j
    /\ Dumped \cap written = {}
    /\ Ascending(snap) /\ Ascending(xlog)

\* Lines that ParseText reads back.
Readable == Dumped \ Unreadable

\* Restoring sends every line that can be read and nothing else, although the
\* process may crash on the way, or be unable to remove a file, and another one
\* start over, since a file is removed only after its last line was sent to an
\* input channel (what a process that crashes had in memory is lost like any
\* cached point); and if no process starts over the lines go out in the order in
\* which they stand in the files, the snapshot before the log, and so each once
\* (DumpedOnce).
RestoredAll ==
    dumpPC = "restored" /\ ~readFailed =>
        /\ Elems(restored) = Readable
        /\ restarts = 0 =>
              \A i, j \in 1..Len(restored) : i < j =>
                  \E k, l \in 1..Len(Saved) :
                      k < l /\ Saved[k] = restored[i] /\ Saved[l] = restored[j]

(***************************************************************************)
(* Fairness: the goroutines of the cache, of the dump and of the persister *)
(* run; nobody has to start a dump, and no process has to start over.      *)
(* Which case a select takes is left open (what the receivers send and the *)
(* handlers ask is finite here).                                           *)
(***************************************************************************)
DumpFairness ==
    /\ WF_allVars(CacheStep /\ Worker)
    /\ WF_allVars(CacheStep /\ Tracker)
    /\ WF_allVars(CacheStep /\ Take)
    /\ WF_allVars(CacheStep /\ \E a \in Addr : Confirm(a))
    /\ WF_allVars(Glue)
    /\ WF_allVars(Dumper)
    /\ WF_allVars(Restore)

FairDumpSpec == DumpSpec /\ DumpFairness

\* The waits of a dump that have no end: Cache.Stop, when the worker is left in its
\* send to the tracker (cache.go:272); carbonserver's Stop without a scan frequency
\* (carbonserver.go:785); and the persister's Stop, when it has more to confirm than
\* the channel holds and the cache, stopped at grace.go:143, no longer reads.
DumpBlocked ==
    \/ dumpPC = "closeOut" /\ WorkerStuck
    \/ dumpPC = "blocked"
    \/ dumpPC = "stopPersister" /\ taken # {} /\ Len(confirmChan) = ConfirmCap

\* A dump that was begun ends and is restored, unless a file operation fails or
\* it comes into one of the three waits of DumpBlocked: the output channel, which
\* the persister reads as well, runs empty, and receivers and input log do not
\* wait for each other when the cache no longer reads.
DumpEnds == dumpPC = "stopCache" ~> dumpPC \in {"restored", "fatal"} \/ DumpBlocked
=============================================================================

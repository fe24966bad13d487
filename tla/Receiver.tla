------------------------------ MODULE Receiver ------------------------------
(***************************************************************************)
(* The TCP receiver (receiver/tcp.go) for the plain text protocol and for  *)
(* pickle, with the start and stop of helper/stoppable.go: a goroutine     *)
(* that closes the listening socket at exit, one that accepts, and for     *)
(* every connection a handler and a watcher that closes the connection at  *)
(* exit.  All of them are in the wait group that Stop waits for.           *)
(*                                                                         *)
(* An item is a line of text or a pickle frame: [ok, n, points, size] says *)
(* whether it parses, how many messages it holds (a line holds one), the   *)
(* number of points in each, and the length its prefix announces.  A       *)
(* message is <<connection, item, index>>.                                 *)
(*                                                                         *)
(* What every receiver has (Stop, the goroutine that closes the socket,    *)
(* the input channel, Stat) is shared with module Receivers, which adds    *)
(* the UDP receiver.                                                       *)
(***************************************************************************)
EXTENDS Naturals, Sequences, FiniteSets

CONSTANTS
    Schemes,    \* the schemes a receiver is made for: "tcp", "pickle", "udp"
    Conn,       \* connections
    Items,      \* what a client may send, a set of [ok, n, points, size]
    MaxFrame,   \* maxPickleMessageSize
    MaxItems,   \* bound: items on a connection
    InputCap,   \* capacity of the cache's input channel
    MaxStats,   \* bound: calls of Stat, for each scheme
    Wrap        \* counters are modulo this (2^32)

Empty == <<>>

ASSUME ReceiverAssumption == /\ Schemes \subseteq {"tcp", "pickle", "udp"}
                             /\ Items \subseteq [ok : BOOLEAN, n : Nat, points : Nat, size : Nat]
                             /\ MaxFrame \in Nat
                             /\ MaxItems \in Nat /\ InputCap \in Nat \ {0}
                             /\ MaxStats \in [Schemes -> Nat] /\ Wrap \in Nat \ {0}

VARIABLES
    scheme,           \* the scheme of the receiver's address
    workerPC,         \* the receive goroutine of UDP, "done" for the others
    stopPC,           \* "no", "waiting" or "returned": the caller of Stop
    exit,             \* Stoppable's exit channel is closed
    socketOpen, closerPC, acceptPC,
    handlerPC,        \* HandleConnection or handlePickle
    watcherPC,        \* the goroutine a handler starts
    connOpen,         \* the server's end of the connection is open
    finished,         \* the handler's channel finished is closed
    sent,             \* the items a client has sent
    clientClosed,     \* the client has closed its end
    wire,             \* numbers of the items in the socket's buffer
    buf,              \* numbers of the items in bufio's buffer
    consumed,         \* number of the last item the handler has read
    pending,          \* messages of that item not yet sent
    delivered,        \* all messages that entered the input channel, in order
    inputLen,         \* messages in the input channel
    metricsReceived, errors, active,
    counted,          \* all additions to metricsReceived
    statPC, statRead, reported, stats,
    loaded,           \* history: counted, at the last load of Stat
    overrun           \* history: Wrap or more were counted between two loads

kindVars   == <<scheme, workerPC>>
connVars   == <<handlerPC, watcherPC, connOpen, finished>>
stopVars   == <<stopPC, exit, socketOpen, closerPC, acceptPC>>
clientVars == <<sent, clientClosed>>
readVars   == <<wire, buf, consumed, pending>>
outVars    == <<delivered, inputLen>>
statVars   == <<statPC, statRead, reported, stats, loaded, overrun>>
countVars  == <<metricsReceived, counted>>
vars == <<kindVars, stopVars, connVars, clientVars, readVars,
          outVars, countVars, errors, active, statVars>>

Init ==
    /\ scheme \in Schemes
    /\ workerPC = IF scheme = "udp" THEN "read" ELSE "done"
    /\ stopPC = "no" /\ exit = FALSE /\ socketOpen = TRUE
    /\ closerPC = "run" /\ acceptPC = IF scheme = "udp" THEN "done" ELSE "run"
    /\ handlerPC = [c \in Conn |-> "none"] /\ watcherPC = [c \in Conn |-> "none"]
    /\ connOpen = [c \in Conn |-> FALSE] /\ finished = [c \in Conn |-> FALSE]
    /\ sent = [c \in Conn |-> Empty] /\ clientClosed = [c \in Conn |-> FALSE]
    /\ wire = [c \in Conn |-> Empty] /\ buf = [c \in Conn |-> Empty]
    /\ consumed = [c \in Conn |-> 0] /\ pending = [c \in Conn |-> Empty]
    /\ delivered = Empty /\ inputLen = 0
    /\ metricsReceived = 0 /\ counted = 0 /\ errors = 0 /\ active = 0
    /\ statPC = "idle" /\ statRead = 0 /\ reported = 0 /\ stats = 0
    /\ loaded = 0 /\ overrun = FALSE

(***************************************************************************)
(* Stop: close exit, wait for the wait group.                              *)
(***************************************************************************)
StopBegin ==
    /\ stopPC = "no"
    /\ stopPC' = "waiting" /\ exit' = TRUE
    /\ UNCHANGED <<kindVars, socketOpen, closerPC, acceptPC, connVars, clientVars, readVars,
                   outVars, countVars, errors, active, statVars>>

\* Mutant: the handlers are started with a go statement of their own.
StopEndsAlone ==
    /\ stopPC = "waiting" /\ closerPC = "done" /\ acceptPC = "done" /\ workerPC = "done"
    /\ stopPC' = "returned"
    /\ UNCHANGED <<kindVars, exit, socketOpen, closerPC, acceptPC, connVars, clientVars,
                   readVars, outVars, countVars, errors, active, statVars>>

StopEnds ==
    /\ stopPC = "waiting" /\ closerPC = "done" /\ acceptPC = "done" /\ workerPC = "done"
    /\ \A c \in Conn : handlerPC[c] \in {"none", "done"} /\ watcherPC[c] # "run"
    /\ stopPC' = "returned"
    /\ UNCHANGED <<kindVars, exit, socketOpen, closerPC, acceptPC, connVars, clientVars,
                   readVars, outVars, countVars, errors, active, statVars>>

CloseSocket ==
    /\ closerPC = "run" /\ exit
    /\ closerPC' = "done" /\ socketOpen' = FALSE
    /\ UNCHANGED <<kindVars, stopPC, exit, acceptPC, connVars, clientVars, readVars,
                   outVars, countVars, errors, active, statVars>>

\* A connection may still be accepted between the close of exit and of the
\* socket: its handler is in the wait group like the others.
Accept(c) ==
    /\ acceptPC = "run" /\ socketOpen
    /\ handlerPC[c] = "none"
    /\ handlerPC' = [handlerPC EXCEPT ![c] = "start"]
    /\ connOpen' = [connOpen EXCEPT ![c] = TRUE]
    /\ UNCHANGED <<kindVars, stopVars, watcherPC, finished, clientVars, readVars, outVars,
                   countVars, errors, active, statVars>>

AcceptEnds ==
    /\ acceptPC = "run" /\ ~socketOpen
    /\ acceptPC' = "done"
    /\ UNCHANGED <<kindVars, stopPC, exit, socketOpen, closerPC, connVars, clientVars,
                   readVars, outVars, countVars, errors, active, statVars>>

(***************************************************************************)
(* The client.                                                             *)
(***************************************************************************)
ClientSend(c, item) ==
    /\ connOpen[c] /\ ~clientClosed[c] /\ Len(sent[c]) < MaxItems
    /\ scheme = "tcp" => item.n = 1 /\ item.points = 1
    /\ sent' = [sent EXCEPT ![c] = Append(@, item)]
    /\ wire' = [wire EXCEPT ![c] = Append(@, Len(sent'[c]))]
    /\ UNCHANGED <<kindVars, stopVars, connVars, clientClosed, buf, consumed, pending,
                   outVars, countVars, errors, active, statVars>>

ClientClose(c) ==
    /\ connOpen[c] /\ ~clientClosed[c]
    /\ clientClosed' = [clientClosed EXCEPT ![c] = TRUE]
    /\ UNCHANGED <<kindVars, stopVars, connVars, sent, readVars, outVars, countVars, errors,
                   active, statVars>>

(***************************************************************************)
(* A connection's handler and its watcher.                                 *)
(***************************************************************************)
HandlerStart(c) ==
    /\ handlerPC[c] = "start"
    /\ handlerPC' = [handlerPC EXCEPT ![c] = "read"]
    /\ watcherPC' = [watcherPC EXCEPT ![c] = "run"]
    /\ active' = active + 1
    /\ UNCHANGED <<kindVars, stopVars, connOpen, finished, clientVars, readVars, outVars,
                   countVars, errors, statVars>>

\* The handler returns: its deferred calls close finished and the connection.
Return(c) ==
    /\ handlerPC' = [handlerPC EXCEPT ![c] = "done"]
    /\ finished' = [finished EXCEPT ![c] = TRUE]
    /\ connOpen' = [connOpen EXCEPT ![c] = FALSE]
    /\ active' = active - 1

WatcherFinished(c) ==
    /\ watcherPC[c] = "run" /\ finished[c]
    /\ watcherPC' = [watcherPC EXCEPT ![c] = "done"]
    /\ UNCHANGED <<kindVars, stopVars, handlerPC, connOpen, finished, clientVars, readVars,
                   outVars, countVars, errors, active, statVars>>

\* Mutant: the watcher ends and leaves the connection open.
WatcherExitLeavesOpen(c) ==
    /\ watcherPC[c] = "run" /\ exit
    /\ watcherPC' = [watcherPC EXCEPT ![c] = "done"]
    /\ UNCHANGED <<kindVars, stopVars, handlerPC, connOpen, finished, clientVars, readVars,
                   outVars, countVars, errors, active, statVars>>

WatcherExit(c) ==
    /\ watcherPC[c] = "run" /\ exit
    /\ watcherPC' = [watcherPC EXCEPT ![c] = "done"]
    /\ connOpen' = [connOpen EXCEPT ![c] = FALSE]
    /\ UNCHANGED <<kindVars, stopVars, handlerPC, finished, clientVars, readVars, outVars,
                   countVars, errors, active, statVars>>

\* A read from the socket.  bufio takes what is there, a line or several; a
\* pickle frame is read alone.
Fill(c) ==
    /\ handlerPC[c] = "read" /\ buf[c] = Empty
    /\ connOpen[c] /\ wire[c] # Empty
    /\ \E k \in (IF scheme = "pickle" THEN {1} ELSE 1..Len(wire[c])) :
          /\ buf' = [buf EXCEPT ![c] = SubSeq(wire[c], 1, k)]
          /\ wire' = [wire EXCEPT ![c] = SubSeq(@, k + 1, Len(@))]
    /\ UNCHANGED <<kindVars, stopVars, connVars, clientVars, consumed, pending, outVars,
                   countVars, errors, active, statVars>>

\* The messages of an item, in order.
Messages(c, i) == [j \in 1..sent[c][i].n |-> <<c, i, j>>]

\* ReadFrame refuses a frame whose prefix is over the limit; the parsers refuse
\* what is not a message.
Readable(item) == item.ok /\ (scheme = "pickle" => item.size <= MaxFrame)

\* The next line or frame parses.  Lines in bufio's buffer are read even after
\* the connection was closed.  A frame may hold an empty list.
ReadItem(c) ==
    /\ handlerPC[c] = "read" /\ buf[c] # Empty
    /\ Readable(sent[c][Head(buf[c])])
    /\ pending' = [pending EXCEPT ![c] = Messages(c, Head(buf[c]))]
    /\ consumed' = [consumed EXCEPT ![c] = Head(buf[c])]
    /\ buf' = [buf EXCEPT ![c] = Tail(@)]
    /\ handlerPC' = [handlerPC EXCEPT ![c] = IF pending'[c] = Empty THEN "read" ELSE "count"]
    /\ UNCHANGED <<kindVars, stopVars, watcherPC, connOpen, finished, clientVars, wire,
                   outVars, countVars, errors, active, statVars>>

\* A line that does not parse is counted and skipped; a frame ends the handler.
ReadBad(c) ==
    /\ handlerPC[c] = "read" /\ buf[c] # Empty
    /\ ~Readable(sent[c][Head(buf[c])])
    /\ errors' = (errors + 1) % Wrap
    /\ consumed' = [consumed EXCEPT ![c] = Head(buf[c])]
    /\ buf' = [buf EXCEPT ![c] = Tail(@)]
    /\ IF scheme = "pickle" THEN Return(c) ELSE UNCHANGED <<handlerPC, finished, connOpen, active>>
    /\ UNCHANGED <<kindVars, stopVars, watcherPC, clientVars, wire, pending, outVars,
                   countVars, statVars>>

\* The read fails: end of file, a closed connection, or two minutes of silence.
\* The text handler does not count an end of file as an error.
ReadFails(c, eof) ==
    /\ handlerPC[c] = "read" /\ buf[c] = Empty
    /\ eof => connOpen[c] /\ clientClosed[c] /\ wire[c] = Empty
    /\ errors' = IF eof /\ scheme = "tcp" THEN errors ELSE (errors + 1) % Wrap
    /\ Return(c)
    /\ UNCHANGED <<kindVars, stopVars, watcherPC, clientVars, readVars, outVars, countVars,
                   statVars>>

\* metricsReceived grows by the message's points before the message is sent.
Count(c) ==
    /\ handlerPC[c] = "count"
    /\ LET k == sent[c][consumed[c]].points IN
       metricsReceived' = (metricsReceived + k) % Wrap /\ counted' = counted + k
    /\ handlerPC' = [handlerPC EXCEPT ![c] = "out"]
    /\ UNCHANGED <<kindVars, stopVars, watcherPC, connOpen, finished, clientVars, readVars,
                   outVars, errors, active, statVars>>

\* Mutant: a message is dropped when the channel is full.
OutOrDrop(c) ==
    /\ handlerPC[c] = "out"
    /\ IF inputLen < InputCap
       THEN delivered' = Append(delivered, Head(pending[c])) /\ inputLen' = inputLen + 1
       ELSE UNCHANGED outVars
    /\ pending' = [pending EXCEPT ![c] = Tail(@)]
    /\ handlerPC' = [handlerPC EXCEPT ![c] = IF Len(pending[c]) > 1 THEN "count" ELSE "read"]
    /\ UNCHANGED <<kindVars, stopVars, watcherPC, connOpen, finished, clientVars, wire, buf,
                   consumed, countVars, errors, active, statVars>>

\* rcv.out(msg) blocks while the input channel is full.
Out(c) ==
    /\ handlerPC[c] = "out" /\ inputLen < InputCap
    /\ delivered' = Append(delivered, Head(pending[c])) /\ inputLen' = inputLen + 1
    /\ pending' = [pending EXCEPT ![c] = Tail(@)]
    /\ handlerPC' = [handlerPC EXCEPT ![c] = IF Len(pending[c]) > 1 THEN "count" ELSE "read"]
    /\ UNCHANGED <<kindVars, stopVars, watcherPC, connOpen, finished, clientVars, wire, buf,
                   consumed, countVars, errors, active, statVars>>

\* The cache's worker receives a message.
CacheReceive ==
    /\ inputLen > 0
    /\ inputLen' = inputLen - 1
    /\ UNCHANGED <<kindVars, stopVars, connVars, clientVars, readVars, delivered, countVars,
                   errors, active, statVars>>

(***************************************************************************)
(* Stat, called by the collector: read the counter, subtract what was read *)
(* (by adding its negative), report it.                                    *)
(***************************************************************************)
StatLoad ==
    /\ statPC = "idle" /\ stats < MaxStats[scheme]
    /\ statPC' = "subtract" /\ statRead' = metricsReceived /\ stats' = stats + 1
    /\ loaded' = counted /\ overrun' = (overrun \/ counted - loaded >= Wrap)
    /\ UNCHANGED <<kindVars, stopVars, connVars, clientVars, readVars, outVars, countVars,
                   errors, active, reported>>

\* Mutant: the counter is set to 0.
StatStoreZero ==
    /\ statPC = "subtract"
    /\ statPC' = "idle" /\ metricsReceived' = 0 /\ reported' = reported + statRead
    /\ UNCHANGED <<kindVars, stopVars, connVars, clientVars, readVars, outVars, counted,
                   errors, active, statRead, stats, loaded, overrun>>

StatSubtract ==
    /\ statPC = "subtract"
    /\ statPC' = "idle" /\ reported' = reported + statRead
    /\ metricsReceived' = (metricsReceived + (Wrap - statRead)) % Wrap
    /\ UNCHANGED <<kindVars, stopVars, connVars, clientVars, readVars, outVars, counted,
                   errors, active, statRead, stats, loaded, overrun>>

-----------------------------------------------------------------------------
Handler(c) == \/ HandlerStart(c) \/ Fill(c) \/ ReadItem(c) \/ ReadBad(c) \/ Count(c) \/ Out(c)
              \/ \E eof \in BOOLEAN : ReadFails(c, eof)
Watcher(c) == WatcherFinished(c) \/ WatcherExit(c)
Listener   == CloseSocket \/ AcceptEnds \/ \E c \in Conn : Accept(c)
Client(c)  == ClientClose(c) \/ \E item \in Items : ClientSend(c, item)
Stat       == StatLoad \/ StatSubtract

Next == \/ StopBegin \/ StopEnds \/ Listener \/ CacheReceive \/ Stat
        \/ \E c \in Conn : Handler(c) \/ Watcher(c) \/ Client(c)

Spec == Init /\ [][Next]_vars

(***************************************************************************)
(* Fairness: goroutines run, a read of a closed connection fails, the      *)
(* cache receives.  Reads of an open connection owe nothing: the deadline  *)
(* is moved by every line, so a client can keep its handler for ever.      *)
(***************************************************************************)
Fairness ==
    /\ WF_vars(CloseSocket) /\ WF_vars(AcceptEnds) /\ WF_vars(StopEnds) /\ WF_vars(CacheReceive)
    /\ \A c \in Conn :
          /\ WF_vars(HandlerStart(c) \/ ReadItem(c) \/ ReadBad(c) \/ Count(c))
          /\ WF_vars(~connOpen[c] /\ ReadFails(c, FALSE))
          /\ WF_vars(Watcher(c))
          /\ SF_vars(Out(c))
FairSpec == Spec /\ Fairness

-----------------------------------------------------------------------------
\* Once Stop has returned nothing more enters the input channel: GraceStop and
\* the dump conclude from an empty channel that there is no input left
\* (grace.go:72, grace.go:191).
QuietAfterStop ==
    [][stopPC = "returned" => delivered' = delivered]_vars

\* The messages of what a handler has read and parsed.
Expected(c) ==
    UNION {{<<c, i, j>> : j \in 1..sent[c][i].n} : i \in {i \in 1..consumed[c] : Readable(sent[c][i])}}
Earlier(x, y) == x[2] < y[2] \/ (x[2] = y[2] /\ x[3] < y[3])

\* What a handler has read it has sent, or is about to send: no message is
\* lost, repeated or reordered on its connection, also when Stop closes the
\* connection in the middle of a frame or of bufio's buffer.
NothingDropped ==
    \A c \in Conn :
        LET out == delivered \o pending[c]
            own == {k \in 1..Len(out) : out[k][1] = c}
        IN  /\ {out[k] : k \in own} = Expected(c)
            /\ \A k, l \in own : k < l => Earlier(out[k], out[l])

\* Counting and Stat run side by side, and Stat subtracts what it has read: the
\* reports add up to exactly what was counted before the last load, whatever was
\* counted between a load and its subtraction and however the counter wraps in
\* it. The condition is exact: when Wrap or more are counted between two loads,
\* the counter has lost Wrap of them before Stat can see them.
StatExact ==
    ~overrun => reported + (IF statPC = "subtract" THEN statRead ELSE 0) = loaded

\* Stop returns whatever the clients do and however full the input channel is,
\* as long as the cache receives.
StopReturns == stopPC = "waiting" ~> stopPC = "returned"
=============================================================================

----------------------------- MODULE Receivers -----------------------------
(***************************************************************************)
(* Everything receiver.New may build: the TCP and pickle receivers of      *)
(* module Receiver and, here, the UDP receiver of receiver/udp.go with its *)
(* store of unfinished lines.                                              *)
(*                                                                         *)
(* A peer sends a text, cut into datagrams anywhere; the network loses and *)
(* reorders them.  A character is <<peer, line, part>> or the newline, and *)
(* a datagram is the interval of the text it carries: the next one to      *)
(* arrive is any interval of what has not arrived yet, which stands for    *)
(* every way to cut the text, to lose datagrams and to reorder them.       *)
(***************************************************************************)
EXTENDS Receiver

Funs == INSTANCE Functions

CONSTANTS
    Peer,        \* senders of datagrams
    Lines,       \* bound: lines in the text of each peer
    Parts,       \* characters of a line: it can be cut between any two
    MaxBreaks,   \* bound: lost, overtaken or expired pieces in a behaviour
    MaxRecords   \* incompleteStorage.MaxSize

ASSUME UdpAssumption == /\ Lines \in [Peer -> Nat] /\ Parts \in Nat \ {0} /\ MaxBreaks \in Nat
                        /\ MaxRecords \in Nat /\ Peer \cap Conn = {}

Newline == <<>>
Nobody  == <<>>

VARIABLES
    arrived,     \* how much of a peer's text has arrived: a set of places
    records,     \* incompleteStorage.Records: a peer's unfinished line, or none
    expired,     \* the peers whose record is past its deadline
    purgeDue,    \* NextPurge is over
    peer, data,  \* the datagram in hand: its sender, and what is left to split
    line,        \* the parsed line that is being sent
    seen,        \* history: where the last datagram of a peer ended
    breaks,      \* history: places where a peer's text was not continued
    refused      \* history: lines of a peer that did not parse

udpVars == <<arrived, records, expired, purgeDue, peer, data, line, seen, breaks, refused>>
tcpVars == <<stopVars, connVars, clientVars, readVars, active, statVars, scheme>>
allVars == <<vars, udpVars>>

TextLength(q) == Lines[q] * (Parts + 1)
Text(q) == [x \in 1..TextLength(q) |->
               IF x % (Parts + 1) = 0 THEN Newline
               ELSE <<q, (x - 1) \div (Parts + 1) + 1, x % (Parts + 1)>>]

ReceiversInit ==
    /\ Init
    /\ arrived = [q \in Peer |-> {}]
    /\ records = [q \in Peer |-> Empty] /\ expired = {} /\ purgeDue = FALSE
    /\ peer = Nobody /\ data = Empty /\ line = Empty
    /\ seen = [q \in Peer |-> 0] /\ breaks = [q \in Peer |-> 0]
    /\ refused = [q \in Peer |-> 0]

Breaks == Funs!FoldFunction(+, 0, breaks)

(***************************************************************************)
(* The clock.                                                              *)
(***************************************************************************)
\* Five seconds have passed since a record was stored.
Expire(q) ==
    /\ records[q] # Empty /\ q \notin expired /\ Breaks < MaxBreaks
    /\ expired' = expired \cup {q}
    /\ UNCHANGED <<vars, arrived, records, purgeDue, peer, data, line, seen, breaks, refused>>

\* A second has passed since the last purge.
PurgeTick ==
    /\ scheme = "udp" /\ ~purgeDue
    /\ purgeDue' = TRUE
    /\ UNCHANGED <<vars, arrived, records, expired, peer, data, line, seen, breaks, refused>>

(***************************************************************************)
(* The receive goroutine.                                                  *)
(***************************************************************************)
\* pop: the record is deleted in any case, and used if it has not expired.
Pop(q) == IF q \in expired THEN Empty ELSE records[q]

\* The text is not continued: a piece was lost or overtaken, or has expired.
Broken(q, from) == from # seen[q] + 1 \/ q \in expired

\* Mutant: pop leaves the record in the map.
ReadKeepsRecord(q, from, to) ==
    /\ workerPC = "read" /\ socketOpen
    /\ from..to \cap arrived[q] = {}
    /\ arrived' = [arrived EXCEPT ![q] = @ \cup from..to]
    /\ peer' = q /\ data' = Pop(q) \o SubSeq(Text(q), from, to)
    /\ seen' = [seen EXCEPT ![q] = to]
    /\ breaks' = [breaks EXCEPT ![q] = @ + (IF Broken(q, from) THEN 1 ELSE 0)]
    /\ Breaks' <= MaxBreaks
    /\ workerPC' = "lines"
    /\ UNCHANGED <<tcpVars, outVars, countVars, errors, purgeDue, line, refused,
                   records, expired>>

\* A datagram is read; the peer's unfinished line is put in front of it.
ReadFromUDP(q, from, to) ==
    /\ workerPC = "read" /\ socketOpen
    /\ from..to \cap arrived[q] = {}
    /\ arrived' = [arrived EXCEPT ![q] = @ \cup from..to]
    /\ peer' = q /\ data' = Pop(q) \o SubSeq(Text(q), from, to)
    /\ records' = [records EXCEPT ![q] = Empty] /\ expired' = expired \ {q}
    /\ seen' = [seen EXCEPT ![q] = to]
    /\ breaks' = [breaks EXCEPT ![q] = @ + (IF Broken(q, from) THEN 1 ELSE 0)]
    /\ Breaks' <= MaxBreaks
    /\ workerPC' = "lines"
    /\ UNCHANGED <<tcpVars, outVars, countVars, errors, purgeDue, line, refused>>

FirstNewline == CHOOSE i \in 1..Len(data) :
                    data[i] = Newline /\ \A j \in 1..(i - 1) : data[j] # Newline
HasNewline   == \E i \in 1..Len(data) : data[i] = Newline

\* The i-th line a peer sent.
Sent(q, i)  == SubSeq(Text(q), (i - 1) * (Parts + 1) + 1, i * (Parts + 1))
Genuine(q, l) == \E i \in 1..Lines[q] : l = Sent(q, i)

\* ReadBytes and ParseText: a line the peer sent parses; one put together from
\* pieces may or may not.
SplitLine(ok) ==
    LET l == SubSeq(data, 1, FirstNewline) IN
    /\ workerPC = "lines" /\ HasNewline
    /\ Genuine(peer, l) => ok
    /\ data' = SubSeq(data, FirstNewline + 1, Len(data))
    /\ IF ok THEN /\ line' = l /\ workerPC' = "out"
                  /\ metricsReceived' = (metricsReceived + 1) % Wrap /\ counted' = counted + 1
                  /\ UNCHANGED <<errors, refused>>
             ELSE /\ errors' = (errors + 1) % Wrap
                  /\ refused' = [refused EXCEPT ![peer] = @ + 1]
                  /\ UNCHANGED <<line, workerPC, countVars>>
    /\ UNCHANGED <<tcpVars, outVars, arrived, records, expired, purgeDue, peer, seen, breaks>>

\* rcv.out(msg) blocks while the input channel is full.
OutLine ==
    /\ workerPC = "out" /\ inputLen < InputCap
    /\ delivered' = Append(delivered, <<peer, line>>) /\ inputLen' = inputLen + 1
    /\ line' = Empty /\ workerPC' = "lines"
    /\ UNCHANGED <<tcpVars, countVars, errors, arrived, records, expired, purgeDue, peer,
                   data, seen, breaks, refused>>

\* Mutant: purge empties the whole store.
PurgeAll(stored) == [q \in Peer |-> Empty]

\* purge: the records past their deadline go.
Purge(stored) == [q \in Peer |-> IF q \in expired \ {peer} THEN Empty ELSE stored[q]]

\* The end of the datagram: what is left is an unfinished line.  It is stored
\* with a new deadline, and a store at its limit is purged, once a second.
StoreRest ==
    LET stored == IF data = Empty THEN records ELSE [records EXCEPT ![peer] = data]
        full   == /\ Cardinality({q \in Peer : stored[q] # Empty}) >= MaxRecords
                  /\ purgeDue
    IN
    /\ workerPC = "lines" /\ ~HasNewline
    /\ workerPC' = "read" /\ data' = Empty /\ peer' = Nobody
    /\ IF data # Empty /\ full
       THEN /\ records' = Purge(stored) /\ expired' = {} /\ purgeDue' = FALSE
            /\ breaks' = [q \in Peer |-> breaks[q] + (IF q \in expired \ {peer} THEN 1 ELSE 0)]
       ELSE /\ records' = stored /\ UNCHANGED <<expired, purgeDue, breaks>>
    /\ UNCHANGED <<tcpVars, outVars, countVars, errors, arrived, line, seen, refused>>

\* The socket is closed: the read fails and the goroutine ends.
WorkerEnds ==
    /\ workerPC = "read" /\ ~socketOpen
    /\ workerPC' = "done"
    /\ UNCHANGED <<tcpVars, outVars, countVars, errors, udpVars>>

-----------------------------------------------------------------------------
Clock  == PurgeTick \/ \E q \in Peer : Expire(q)
Worker == \/ \E q \in Peer : \E from \in 1..TextLength(q) : \E to \in from..TextLength(q) :
                ReadFromUDP(q, from, to)
          \/ \E ok \in BOOLEAN : SplitLine(ok)
          \/ OutLine \/ StoreRest \/ WorkerEnds

ReceiversNext == (Next /\ UNCHANGED udpVars) \/ Clock \/ Worker

(***************************************************************************)
(* Fairness: as for TCP; the receive goroutine runs, and a blocked send    *)
(* gets its turn.  No datagram need ever come.                             *)
(***************************************************************************)
ReceiversSpec ==
    /\ ReceiversInit /\ [][ReceiversNext]_allVars
    /\ Fairness
    /\ WF_allVars((\E ok \in BOOLEAN : SplitLine(ok)) \/ StoreRest \/ WorkerEnds)
    /\ SF_allVars(OutLine)

-----------------------------------------------------------------------------
\* The lines that were delivered or are about to be.
Outgoing == delivered \o (IF workerPC = "out" THEN << <<peer, line>> >> ELSE Empty)
OwnLines(q) == {k \in 1..Len(Outgoing) : Outgoing[k][1] = q}

\* A datagram of the peer is being split.
Splitting(q) == workerPC \in {"lines", "out"} /\ peer = q

\* What of a peer's text is kept and in no line yet.
Rest(q) == IF Splitting(q) THEN data ELSE records[q]

\* A peer whose datagrams arrive in order and in time has its lines delivered,
\* each once, in order and unchanged, and the text from there to the end of the
\* last datagram is kept, however the text is cut and whatever the other peers
\* lose, delay or let expire; no complete line is left behind when a datagram
\* has been split (udp.go:157-190).
IntactPeer ==
    \A q \in Peer : breaks[q] = 0 =>
        \E n \in 0..Lines[q] :
            /\ {Outgoing[k][2] : k \in OwnLines(q)} = {Sent(q, i) : i \in 1..n}
            /\ \A k, l \in OwnLines(q) : k < l =>
                  \E i, j \in 1..n : /\ i < j
                                     /\ Outgoing[k][2] = Sent(q, i) /\ Outgoing[l][2] = Sent(q, j)
            /\ Rest(q) = SubSeq(Text(q), n * (Parts + 1) + 1, seen[q])
            /\ Splitting(q) \/ seen[q] < (n + 1) * (Parts + 1)

\* A gap damages one line: lines that the peer never sent, taken for messages or
\* refused, are at most as many as the places where its text was broken by a
\* lost, overtaken or expired piece.
DamageContained ==
    \A q \in Peer :
        refused[q] + Cardinality({k \in OwnLines(q) : ~Genuine(q, Outgoing[k][2])}) <= breaks[q]
=============================================================================

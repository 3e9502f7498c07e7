-------------------------- MODULE TCPProxyStream --------------------------
(***************************************************************************)
(* A TCPProxyStream between two connections (src/proxystream.go lines 80-84, *)
(* 97-118, 150-184 and 210-291): two goroutines in DoBroker, each of which   *)
(* copies from one connection to the other and to a tap; a goroutine in      *)
(* handleOperation and one in reportError; and goroutines of the program     *)
(* that call Close, CloseSrc and CloseDest.                                  *)
(*                                                                           *)
(* A broker, its notifier and the close operation that sends on the same     *)
(* notifier are named by the connection they belong to: broker "src" reads   *)
(* from src, writes to dest, and ends on SrcNotify().  A broker copies in    *)
(* order, so that the data is counted: n chunks stand for the first n.       *)
(***************************************************************************)
EXTENDS Naturals

CONSTANTS MaxChunks,  \* bound: the chunks that the peer of each connection sends
          MaxCalls    \* bound: the calls of Close<c> under way at once

Conns == {"src", "dest"}
Other(c) == IF c = "src" THEN "dest" ELSE "src"

ASSUME StreamAssumption == MaxChunks \in [Conns -> Nat] /\ MaxCalls \in [Conns -> Nat]

VARIABLES peer,      \* peer[c]: "up", "eof" or "reset"
          open,      \* the connections the proxy has not closed
          sent,      \* sent[c]: chunks the peer of c has sent
          got,       \* got[c]: chunks broker c has read
          put,       \* put[c]: chunks broker c has written to Other(c)
          tapped,    \* tapped[c]: chunks broker c has written to the tap
          broker,    \* broker[c]: where DoBroker is
          failed,    \* failed[c]: io.Copy of broker c returned an error
          sending,   \* brokers whose error waits to be sent on errorend
          reported,  \* brokers whose error reportError has received
          end,       \* end[c]: who sent the token in the notifier of c, of capacity 1
          op,        \* where handleOperation is
          waiting,   \* waiting[c]: the calls of Close<c> that send on its notifier
          closing,   \* the connections that such a call goes on to close
          closings   \* how often p.closed was closed (twice is a panic)

flow == <<sent, got, put, tapped>>
errors == <<failed, sending, reported>>
callers == <<waiting, closing, closings>>
vars == <<peer, open, flow, broker, errors, end, op, callers>>

Init ==
    /\ peer = [c \in Conns |-> "up"]
    /\ open = Conns
    /\ sent = [c \in Conns |-> 0]
    /\ got = [c \in Conns |-> 0]
    /\ put = [c \in Conns |-> 0]
    /\ tapped = [c \in Conns |-> 0]
    /\ broker = [c \in Conns |-> "read"]
    /\ failed = [c \in Conns |-> FALSE]
    /\ sending = {}
    /\ reported = {}
    /\ end = [c \in Conns |-> "empty"]
    /\ op = "start"
    /\ waiting = [c \in Conns |-> 0]
    /\ closing = {}
    /\ closings = 0
----------------------------------------------------------------------------
(* The peers of the two connections.                                         *)

PeerSends(c) ==
    /\ peer[c] = "up" /\ c \in open
    /\ sent[c] < MaxChunks[c]
    /\ sent' = [sent EXCEPT ![c] = @ + 1]
    /\ UNCHANGED <<peer, open, got, put, tapped, broker, errors, end, op, callers>>

\* The peer ends its side, or the connection breaks.
PeerLeaves(c) ==
    /\ peer[c] # "reset"
    /\ \E s \in {"eof", "reset"} : peer' = [peer EXCEPT ![c] = s]
    /\ UNCHANGED <<open, flow, broker, errors, end, op, callers>>
----------------------------------------------------------------------------
(* DoBroker: io.Copy into a MultiWriter of the connection and the tap.       *)

\* io.Copy returns with an error, which a goroutine of its own sends on.
CopyFails(c) ==
    /\ failed' = [failed EXCEPT ![c] = TRUE]
    /\ sending' = sending \cup {c}
    /\ broker' = [broker EXCEPT ![c] = "notify"]

Read(c) ==
    /\ broker[c] = "read"
    /\ c \in open /\ got[c] < sent[c]
    /\ got' = [got EXCEPT ![c] = @ + 1]
    /\ broker' = [broker EXCEPT ![c] = "write"]
    /\ UNCHANGED <<peer, open, sent, put, tapped, errors, end, op, callers>>

\* Bug: io.EOF is taken for an error, and the rest of the input is not read.
StopAtHangup(c) ==
    /\ broker[c] = "read"
    /\ c \in open /\ peer[c] # "up"
    /\ broker' = [broker EXCEPT ![c] = "notify"]
    /\ UNCHANGED <<peer, open, flow, errors, end, op, callers>>

\* io.Copy returns nil at the end of the input.
ReadEOF(c) ==
    /\ broker[c] = "read"
    /\ c \in open /\ peer[c] = "eof" /\ got[c] = sent[c]
    /\ broker' = [broker EXCEPT ![c] = "notify"]
    /\ UNCHANGED <<peer, open, flow, errors, end, op, callers>>

ReadFails(c) ==
    /\ broker[c] = "read"
    /\ c \notin open \/ peer[c] = "reset"
    /\ CopyFails(c)
    /\ UNCHANGED <<peer, open, flow, reported, end, op, callers>>

\* A write to a connection whose peer has ended its side may still succeed.
Write(c) ==
    /\ broker[c] = "write"
    /\ Other(c) \in open /\ peer[Other(c)] # "reset"
    /\ put' = [put EXCEPT ![c] = @ + 1]
    /\ broker' = [broker EXCEPT ![c] = "tap"]
    /\ UNCHANGED <<peer, open, sent, got, tapped, errors, end, op, callers>>

\* A write has no deadline: to a peer that reads no more it blocks until the
\* connection breaks or is closed here.
WriteBlocks(c) ==
    /\ broker[c] = "write"
    /\ Other(c) \in open /\ peer[Other(c)] # "reset"
    /\ broker' = [broker EXCEPT ![c] = "blocked"]
    /\ UNCHANGED <<peer, open, flow, errors, end, op, callers>>

WriteFails(c) ==
    /\ \/ broker[c] = "write" /\ peer[Other(c)] = "eof"
       \/ /\ broker[c] \in {"write", "blocked"}
          /\ Other(c) \notin open \/ peer[Other(c)] = "reset"
    /\ CopyFails(c)
    /\ UNCHANGED <<peer, open, flow, reported, end, op, callers>>

\* The second writer of the MultiWriter, p.Out() or p.In().
Tap(c) ==
    /\ broker[c] = "tap"
    /\ tapped' = [tapped EXCEPT ![c] = @ + 1]
    /\ broker' = [broker EXCEPT ![c] = "read"]
    /\ UNCHANGED <<peer, open, sent, got, put, errors, end, op, callers>>

\* The tap returns an error or a short count, which io.Copy returns.
TapFails(c) ==
    /\ broker[c] = "tap"
    /\ CopyFails(c)
    /\ UNCHANGED <<peer, open, flow, reported, end, op, callers>>

\* Bug: every broker ends on the notifier of src.
NotifySrc(c) ==
    /\ broker[c] = "notify"
    /\ end["src"] = "empty"
    /\ end' = [end EXCEPT !["src"] = "broker"]
    /\ broker' = [broker EXCEPT ![c] = "done"]
    /\ UNCHANGED <<peer, open, flow, errors, op, callers>>

\* end <- struct{}{}: blocks while the notifier is full.
Notify(c) ==
    /\ broker[c] = "notify"
    /\ end[c] = "empty"
    /\ end' = [end EXCEPT ![c] = "broker"]
    /\ broker' = [broker EXCEPT ![c] = "done"]
    /\ UNCHANGED <<peer, open, flow, errors, op, callers>>
----------------------------------------------------------------------------
(* handleOperation and reportError.                                          *)

StartReporter ==
    /\ op = "start"
    /\ op' = "select"
    /\ UNCHANGED <<peer, open, flow, broker, errors, end, callers>>

\* Bug: the reporter ends with the operation.
ReportWhileSelecting ==
    /\ op = "select"
    /\ \E c \in sending :
         /\ sending' = sending \ {c}
         /\ reported' = reported \cup {c}
    /\ UNCHANGED <<peer, open, flow, broker, failed, end, op, callers>>

\* errorend is never closed, so that the goroutine goes on to the next error.
Report ==
    /\ op # "start"
    /\ \E c \in sending :
         /\ sending' = sending \ {c}
         /\ reported' = reported \cup {c}
    /\ UNCHANGED <<peer, open, flow, broker, failed, end, op, callers>>

\* The methods handleOperation calls to close a connection are those of the
\* embedded ProxyStream, whose CloseDest and CloseSrc return nil.
ClosedByOperation == {}

OperationEnds ==
    /\ op' = "done"
    /\ open' = open \ ClosedByOperation

OperationOnClose ==
    /\ op = "select"
    /\ closings > 0
    /\ OperationEnds
    /\ UNCHANGED <<peer, flow, broker, errors, end, callers>>

\* A broker has ended, or a caller of CloseSrc or CloseDest has sent its token.
OperationOnEnd(c) ==
    /\ op = "select"
    /\ end[c] # "empty"
    /\ end' = [end EXCEPT ![c] = "empty"]
    /\ OperationEnds
    /\ UNCHANGED <<peer, flow, broker, errors, callers>>
----------------------------------------------------------------------------
(* Callers of the methods of the stream: any number of goroutines, any        *)
(* number of times.                                                          *)

\* Bug: no sync.Once.
CloseAgain ==
    /\ closings' = closings + 1
    /\ UNCHANGED <<peer, open, flow, broker, errors, end, op, waiting, closing>>

Close ==
    /\ closings' = IF closings = 0 THEN 1 ELSE closings
    /\ UNCHANGED <<peer, open, flow, broker, errors, end, op, waiting, closing>>

\* CloseSrc for "src", CloseDest for "dest".
CloseConn(c) ==
    /\ c \notin closing /\ waiting[c] < MaxCalls[c]
    /\ waiting' = [waiting EXCEPT ![c] = @ + 1]
    /\ UNCHANGED <<peer, open, flow, broker, errors, end, op, closing, closings>>


\* The token is sent first, on the channel that the broker ends on.
CloseConnSends(c) ==
    /\ waiting[c] > 0
    /\ end[c] = "empty"
    /\ end' = [end EXCEPT ![c] = "caller"]
    /\ waiting' = [waiting EXCEPT ![c] = @ - 1]
    /\ closing' = closing \cup {c}
    /\ UNCHANGED <<peer, open, flow, broker, errors, op, closings>>

CloseConnCloses(c) ==
    /\ c \in closing
    /\ closing' = closing \ {c}
    /\ open' = open \ {c}
    /\ UNCHANGED <<peer, flow, broker, errors, end, op, waiting, closings>>
----------------------------------------------------------------------------
Broker(c) ==
    \/ Read(c) \/ ReadEOF(c) \/ ReadFails(c)
    \/ Write(c) \/ WriteFails(c) \/ Tap(c) \/ TapFails(c)
    \/ Notify(c)

Operation == StartReporter \/ OperationOnClose \/ \E c \in Conns : OperationOnEnd(c)

Goroutines ==
    \/ \E c \in Conns : PeerSends(c) \/ PeerLeaves(c) \/ WriteBlocks(c) \/ Broker(c)
    \/ Operation \/ Report

Callers ==
    \/ Close
    \/ \E c \in Conns : CloseConn(c) \/ CloseConnSends(c) \/ CloseConnCloses(c)

Next == Goroutines \/ Callers

\* The goroutines of the stream run, and a write that is not blocked returns;
\* peers and callers act when they like, but a call that has begun goes on.
Fairness ==
    /\ \A c \in Conns : WF_vars(Broker(c))
    /\ WF_vars(Operation)
    /\ WF_vars(Report)
    /\ \A c \in Conns : WF_vars(CloseConnSends(c)) /\ WF_vars(CloseConnCloses(c))

Spec == Init /\ [][Next]_vars /\ Fairness
----------------------------------------------------------------------------
TypeOK ==
    /\ peer \in [Conns -> {"up", "eof", "reset"}]
    /\ open \subseteq Conns
    /\ sent \in [Conns -> Nat] /\ got \in [Conns -> Nat]
    /\ put \in [Conns -> Nat] /\ tapped \in [Conns -> Nat]
    /\ \A c \in Conns : tapped[c] <= got[c] /\ put[c] <= got[c] /\ got[c] <= sent[c]
                      /\ sent[c] <= MaxChunks[c]
    /\ broker \in [Conns -> {"read", "write", "blocked", "tap", "notify", "done"}]
    /\ failed \in [Conns -> BOOLEAN]
    /\ sending \subseteq Conns /\ reported \subseteq Conns
    /\ end \in [Conns -> {"empty", "broker", "caller"}]
    /\ op \in {"start", "select", "done"}
    /\ waiting \in [Conns -> Nat] /\ closing \subseteq Conns /\ closings \in {0, 1}

\* A broker that ends without an error has passed on everything its peer sent,
\* to the other connection and to the tap (lines 284-290).
FlushedAtEnd ==
    \A c \in Conns :
        broker[c] \in {"notify", "done"} /\ ~failed[c] =>
            put[c] = sent[c] /\ tapped[c] = sent[c]

\* The error of a broker is reported, however the operation ended (line 152).
ErrorsReported == \A c \in Conns : failed[c] ~> c \in reported

\* The token of a caller of CloseSrc or CloseDest stays in the notifier of c: the
\* operation, which receives one token, has ended.
Full(c) == op = "done" /\ end[c] = "caller"

\* A broker whose peer has left returns (lines 283-291), unless it writes for
\* ever to a peer that does not read, or a caller of CloseSrc or CloseDest has
\* taken the room that its end needs.  The end of the other broker and any
\* number of Closes leave it that room.
BrokersReturn ==
    \A c \in Conns :
        peer[c] # "up" ~> broker[c] = "done" \/ [](broker[c] = "blocked") \/ Full(c)


\* "close the server and notifier serverend" (line 162), "close the client and
\* notifier clientend" (line 168): the end of one side ends the other.
EndClosesOther == \A c \in Conns : broker[c] = "done" ~> Other(c) \notin open
============================================================================

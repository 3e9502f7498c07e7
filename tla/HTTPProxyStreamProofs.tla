----------------------- MODULE HTTPProxyStreamProofs -----------------------
(***************************************************************************)
(* A broker that ends without an error has passed on all its peer sent, for  *)
(* any number of chunks and of calls, in a stream of any kind.  StreamInv   *)
(* relates the counters of a broker to where it is in io.Copy, and says that *)
(* one that ended well has seen the end of its input, after which the peer   *)
(* sends nothing; in an HTTP stream nothing is copied.                       *)
(***************************************************************************)
EXTENDS HTTPProxyStream, TLAPS

\* The chunks a broker has in hand, by where it is.
InHand(c) ==
    /\ broker[c] = "read" => put[c] = got[c] /\ tapped[c] = got[c]
    /\ broker[c] \in {"write", "blocked"} => put[c] + 1 = got[c] /\ tapped[c] + 1 = got[c]
    /\ broker[c] = "tap" => put[c] = got[c] /\ tapped[c] + 1 = got[c]
    /\ broker[c] \in {"notify", "done"} /\ ~failed[c] =>
         put[c] = sent[c] /\ tapped[c] = sent[c]

\* The input of a broker that ended well has ended; an HTTP stream copies none.
Ended(c) ==
    /\ broker[c] \in {"notify", "done"} /\ ~failed[c] => peer[c] # "up" \/ kind # "tcp"
    /\ kind # "tcp" => sent[c] = 0 /\ got[c] = 0 /\ broker[c] \in {"read", "done"}

StreamInv ==
    /\ StreamTypeOK
    /\ \A c \in Conns : InHand(c) /\ Ended(c)

LEMMA InitStreamInv == StreamInit => StreamInv
<1> SUFFICES ASSUME StreamInit
             PROVE  StreamInv
    OBVIOUS
<1> USE StreamAssumption DEF StreamAssumption, StreamInit, Init, First, Conns
<1>1. TypeOK
    BY DEF TypeOK
<1>2. kind = "tcp" => handler = "none"
    OBVIOUS
<1>3. kind # "tcp" => handler \in {"request", "handshake"}
    OBVIOUS
<1>4. StreamTypeOK
    BY <1>1, <1>2, <1>3 DEF StreamTypeOK
<1>5. \A c \in Conns : InHand(c) /\ Ended(c)
    BY DEF InHand, Ended
<1>6. QED BY <1>4, <1>5 DEF StreamInv

\* The actions of a TCPProxyStream, which every kind of stream has parts of.
LEMMA TCPStep ==
    ASSUME StreamInv, kind = "tcp", Goroutines, UNCHANGED own
    PROVE  StreamInv'
<1> USE StreamAssumption
    DEF StreamAssumption, StreamInv, StreamTypeOK, TypeOK, InHand, Ended, own, flow,
        errors, callers
<1>1. ASSUME NEW c \in Conns, PeerSends(c)
      PROVE  StreamInv'
    BY <1>1 DEF PeerSends
<1>2. ASSUME NEW c \in Conns, PeerLeaves(c)
      PROVE  StreamInv'
    BY <1>2 DEF PeerLeaves
<1>3. ASSUME NEW c \in Conns, Read(c)
      PROVE  StreamInv'
    BY <1>3 DEF Read
<1>4. ASSUME NEW c \in Conns, ReadEOF(c)
      PROVE  StreamInv'
    BY <1>4 DEF ReadEOF
<1>5. ASSUME NEW c \in Conns, ReadFails(c)
      PROVE  StreamInv'
    BY <1>5 DEF ReadFails, CopyFails
<1>6. ASSUME NEW c \in Conns, Write(c)
      PROVE  StreamInv'
    BY <1>6 DEF Write
<1>7. ASSUME NEW c \in Conns, WriteFails(c)
      PROVE  StreamInv'
    BY <1>7 DEF WriteFails, CopyFails
<1>8. ASSUME NEW c \in Conns, Tap(c) \/ WriteBlocks(c)
      PROVE  StreamInv'
    BY <1>8 DEF Tap, WriteBlocks
<1>9. ASSUME NEW c \in Conns, Notify(c)
      PROVE  StreamInv'
    BY <1>9 DEF Notify
<1>10. CASE Operation
    BY <1>10 DEF Operation, StartReporter, OperationOnClose, OperationOnEnd,
                 OperationEnds, ClosedByOperation
<1>11. CASE Report
    BY <1>11 DEF Report
<1>12. ASSUME NEW c \in Conns, TapFails(c)
      PROVE  StreamInv'
    BY <1>12 DEF TapFails, CopyFails
<1>13. QED
    BY <1>1, <1>2, <1>3, <1>4, <1>5, <1>6, <1>7, <1>8, <1>9, <1>10, <1>11, <1>12
       DEF Goroutines, Broker

\* The methods of the stream.
LEMMA CallerStep ==
    ASSUME StreamInv, Callers, UNCHANGED own
    PROVE  StreamInv'
<1> USE StreamAssumption
    DEF StreamAssumption, StreamInv, StreamTypeOK, TypeOK, InHand, Ended, own, flow,
        errors, callers
<1>1. CASE Close
    BY <1>1 DEF Close
<1>2. ASSUME NEW c \in Conns, CloseConn(c)
      PROVE  StreamInv'
    BY <1>2 DEF CloseConn
<1>3. ASSUME NEW c \in Conns, CloseConnSends(c)
      PROVE  StreamInv'
    BY <1>3 DEF CloseConnSends
<1>4. ASSUME NEW c \in Conns, CloseConnCloses(c)
      PROVE  StreamInv'
    BY <1>4 DEF CloseConnCloses
<1>5. QED
    BY <1>1, <1>2, <1>3, <1>4 DEF Callers

LEMMA NextStreamInv == StreamInv /\ [StreamNext]_streamVars => StreamInv'
<1> SUFFICES ASSUME StreamInv, [StreamNext]_streamVars
             PROVE  StreamInv'
    OBVIOUS
<1>1. CASE TCP(Goroutines)
    BY <1>1, TCPStep DEF TCP
<1>2. CASE Callers /\ UNCHANGED own
    BY <1>2, CallerStep
<1>3. CASE Handshake \/ PassRequest \/ PassResponse
    BY <1>3 DEF Handshake, PassRequest, PassResponse, Goes, vars, flow, errors, callers,
                StreamInv, StreamTypeOK, TypeOK, InHand, Ended
<1>4. CASE RunOperation
    BY <1>4 DEF RunOperation, Operation, StartReporter, OperationOnClose, OperationOnEnd,
                OperationEnds, ClosedByOperation, flow, errors, callers, StreamInv,
                StreamTypeOK, TypeOK, InHand, Ended
<1>5. ASSUME NEW c \in Conns, NEW next \in {"src", "done"}, DoBroker(c, next)
      PROVE  StreamInv'
    BY <1>5 DEF DoBroker, flow, errors, callers, StreamInv, StreamTypeOK, TypeOK,
                InHand, Ended, Conns
<1>6. CASE UNCHANGED streamVars
    BY <1>6 DEF streamVars, own, vars, flow, errors, callers, StreamInv, StreamTypeOK,
                TypeOK, InHand, Ended
<1>7. QED
    BY <1>1, <1>2, <1>3, <1>4, <1>5, <1>6 DEF StreamNext, Deferred, Conns

\* The inductive invariant holds throughout every run.
THEOREM StreamInvariant == StreamSpec => []StreamInv
<1>1. QED BY InitStreamInv, NextStreamInv, PTL DEF StreamSpec

\* The variables keep their types, and p.closed is closed at most once.
THEOREM StreamTypes == StreamSpec => []StreamTypeOK
<1>1. StreamInv => StreamTypeOK
    BY DEF StreamInv
<1>2. QED BY <1>1, StreamInvariant, PTL

\* src/proxystream.go lines 284-290: nothing is lost by a clean end.
THEOREM StreamFlushedAtEnd == StreamSpec => []FlushedAtEnd
<1>1. StreamInv => FlushedAtEnd
    BY DEF StreamInv, InHand, FlushedAtEnd
<1>2. QED BY <1>1, StreamInvariant, PTL
=============================================================================

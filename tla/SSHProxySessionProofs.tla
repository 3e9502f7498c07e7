----------------------- MODULE SSHProxySessionProofs -----------------------
(***************************************************************************)
(* A proxied channel is shut down once and completely before NetworkClose is *)
(* told, for any number of channels and of requests.  That the counters are  *)
(* at most one is not inductive: ProxyInv says where the shutter is when     *)
(* they are zero and when one, and that nothing can open a channel again or  *)
(* change wrapSlave behind it, because the manager has left its loop before  *)
(* there is a listener, and the listener is done before there is a shutter.  *)
(***************************************************************************)
EXTENDS SSHProxySession, TLAPS

\* Who opens a channel comes before who shuts it.
InOrder ==
    /\ manager = "loop" => listener = "none"
    /\ shutter # "none" => listener = "run"
    /\ shutter \in {"session", "emit", "done"} => "master" \notin open /\ slave \notin open

\* What the shutter has done, by where it is.
ShutSoFar ==
    /\ copyClosed \in {0, 1}
    /\ shutter \in {"none", "wait", "session"} => closes = 0 /\ emitted = 0
    /\ shutter = "emit" => closes = 1 /\ emitted = 0 /\ ~sessConn
    /\ shutter = "done" => closes = 1 /\ emitted = 1 /\ ~sessConn

ProxyInv == TypeOK /\ InOrder /\ ShutSoFar

LEMMA InitProxyInv == Init => ProxyInv
<1> SUFFICES ASSUME Init
             PROVE  ProxyInv
    OBVIOUS
<1> USE ProxyAssumption DEF ProxyAssumption, Init, Sides
<1>1. \A k \in Chans : chan[k] # "accepted"
    OBVIOUS
<1>2. /\ copy \in [Sides -> {"none", "read", "write", "done"}]
      /\ peer \in [Sides -> {"up", "eof", "gone"}]
      /\ asked \in [Sides -> 0 .. MaxRequests]
    OBVIOUS
<1>3. TypeOK
    <2>1. /\ dropped \in BOOLEAN /\ d \in BOOLEAN /\ closer \in BOOLEAN
          /\ sessConn \in BOOLEAN /\ exit \in BOOLEAN
        BY Zenon
    <2>2. QED BY <1>1, <1>2, <2>1 DEF TypeOK
<1>4. InOrder /\ ShutSoFar
    BY DEF InOrder, ShutSoFar
<1>5. QED BY <1>3, <1>4 DEF ProxyInv

LEMMA NextProxyInv == ProxyInv /\ [Next]_vars => ProxyInv'
<1> SUFFICES ASSUME ProxyInv, [Next]_vars
             PROVE  ProxyInv'
    OBVIOUS
<1> USE ProxyAssumption
    DEF ProxyAssumption, ProxyInv, TypeOK, InOrder, ShutSoFar, Sides, outside,
        managing, ends, relaying, copying, shutting
<1>1. ASSUME NEW k \in Chans, Ask(k)
      PROVE  ProxyInv'
    BY <1>1 DEF Ask
<1>2. ASSUME NEW s \in Sides, PeerEnds(s)
      PROVE  ProxyInv'
    BY <1>2 DEF PeerEnds
<1>3. ASSUME NEW s \in Sides, Request(s)
      PROVE  ProxyInv'
    BY <1>3 DEF Request
<1>4. ASSUME NEW s \in Sides, Read(s)
      PROVE  ProxyInv'
    BY <1>4 DEF Read
<1>5. ASSUME NEW s \in Sides, Written(s)
      PROVE  ProxyInv'
    BY <1>5 DEF Written
<1>6. CASE Drop
    BY <1>6 DEF Drop
<1>7. ASSUME NEW k \in Chans, RefuseChannel(k)
      PROVE  ProxyInv'
    BY <1>7 DEF RefuseChannel
<1>8. ASSUME NEW k \in Chans, AcceptChannel(k)
      PROVE  ProxyInv'
    BY <1>8 DEF AcceptChannel
<1>9. CASE EmitReturns
    BY <1>9 DEF EmitReturns
<1>10. CASE SeeDrop
    BY <1>10 DEF SeeDrop
<1>11. CASE CloseCloser
    BY <1>11 DEF CloseCloser
<1>12. CASE CloseConn
    <2>1. d' = FALSE
        BY <1>12 DEF CloseConn
    <2>2. d' \in BOOLEAN
        BY ONLY <2>1, Zenon
    <2>3. TypeOK'
        BY <1>12, <2>2 DEF CloseConn
    <2>4. InOrder' /\ ShutSoFar'
        BY <1>12, <2>2 DEF CloseConn
    <2>5. QED BY <2>3, <2>4
<1>13. CASE FindSession \/ OpenFails
    <2>1. listener' \in {"opening", "gaveUp"} /\ listener \notin {"none", "run"}
        BY <1>13 DEF FindSession, OpenFails
    <2>2. UNCHANGED <<outside, managing, ends, relaying, copying, shutting>>
        BY <1>13 DEF FindSession, OpenFails
    <2>3. QED BY <2>1, <2>2
<1>14. CASE Opened
    BY <1>14 DEF Opened
<1>15. CASE StartProxy
    BY <1>15 DEF StartProxy
<1>16. ASSUME NEW s \in Sides, RelayRequest(s)
       PROVE  ProxyInv'
    BY <1>16 DEF RelayRequest, Opposite
<1>17. CASE RelayReply
    BY <1>17 DEF RelayReply
<1>18. CASE LoopBreaks
    BY <1>18 DEF LoopBreaks
<1>19. CASE LoopCloses
    BY <1>19 DEF LoopCloses
<1>20. ASSUME NEW s \in Sides, ReadEnds(s) \/ WriteFails(s)
      PROVE  ProxyInv'
    <2>1. /\ copy' \in [Sides -> {"none", "read", "write", "done"}]
          /\ copyClosed' \in {0, 1}
        BY <1>20 DEF ReadEnds, WriteFails, CopyDone
    <2>2. UNCHANGED <<outside, managing, listener, ends, relaying, shutting>>
        BY <1>20 DEF ReadEnds, WriteFails
    <2>3. QED BY <2>1, <2>2
<1>21. CASE ShutChannels
    BY <1>21 DEF ShutChannels
<1>22. CASE ShutSession
    <2>1. sessConn' = FALSE /\ shutter = "session" /\ closes' = closes + 1
        BY <1>22 DEF ShutSession
    <2>2. sessConn' \in BOOLEAN /\ ~sessConn'
        BY ONLY <2>1, Zenon
    <2>3. closes' = 1
        BY <2>1
    <2>4. TypeOK'
        BY <1>22, <2>2, <2>3 DEF ShutSession
    <2>5. InOrder' /\ ShutSoFar'
        BY <1>22, <2>2, <2>3 DEF ShutSession
    <2>6. QED BY <2>4, <2>5
<1>23. CASE EmitClose
    BY <1>23 DEF EmitClose
<1>24. CASE UNCHANGED vars
    BY <1>24 DEF vars
<1>25. QED
    BY <1>1, <1>2, <1>3, <1>4, <1>5, <1>6, <1>7, <1>8, <1>9, <1>10, <1>11, <1>12, <1>13,
       <1>14, <1>15, <1>16, <1>17, <1>18, <1>19, <1>20, <1>21, <1>22, <1>23, <1>24
       DEF Next, Manager, TakeChannel, Listener, Loop, Copy, Shutter

\* The inductive invariant holds throughout every run.
THEOREM ProxyInvariant == Spec => []ProxyInv
<1>1. QED BY InitProxyInv, NextProxyInv, PTL DEF Spec

\* The variables keep their types, and there is a listener exactly for a channel
\* that was accepted.
THEOREM ProxyTypes == Spec => []TypeOK
<1>1. ProxyInv => TypeOK
    BY DEF ProxyInv
<1>2. QED BY <1>1, ProxyInvariant, PTL

\* src/sshprotocol.go lines 219-279: whoever ends first, one shutdown.
THEOREM ProxyShutsOnce == Spec => []ShutOnce
<1>1. ProxyInv => ShutOnce
    BY DEF ProxyInv, TypeOK, ShutSoFar, ShutOnce
<1>2. QED BY <1>1, ProxyInvariant, PTL

\* src/sshprotocol.go lines 267-279: NetworkClose is told when the session, the
\* channel of the client and wrapSlave are closed.
THEOREM ProxyShutsBeforeEmit == Spec => []ShutBeforeEmit
<1>1. ProxyInv => ShutBeforeEmit
    BY DEF ProxyInv, TypeOK, InOrder, ShutSoFar, ShutBeforeEmit
<1>2. QED BY <1>1, ProxyInvariant, PTL
=============================================================================

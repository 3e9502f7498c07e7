-------------------------- MODULE HTTPProxyStream --------------------------
(***************************************************************************)
(* HTTPProxyStream and HTTPSProxyStream (src/proxystream.go lines 294-469).  *)
(* Both embed a TCPProxyStream and redefine handleProcess and DoBroker: one  *)
(* goroutine passes one request to dest and one response back, and then runs *)
(* its deferred calls in reverse order: handleOperation, the broker of dest, *)
(* the broker of src.  The source calls functions of net/http and crypto/tls *)
(* with arguments they do not have; the model has it read a request, write   *)
(* it, read a response and write it.  kind "tcp" is a TCPProxyStream.        *)
(***************************************************************************)
EXTENDS TCPProxyStream

VARIABLES kind,    \* "tcp", "http" or "https"
          tls,     \* the connections that are a *tls.Conn
          handler  \* where handleProcess is; "none" in a TCPProxyStream

own == <<kind, tls, handler>>
streamVars == <<vars, own>>

First == [tcp |-> "none", http |-> "request", https |-> "handshake"]

StreamInit ==
    /\ Init
    /\ kind \in {"tcp", "http", "https"}
    /\ tls \in IF kind = "https" THEN SUBSET Conns ELSE {{}}
    /\ handler = First[kind]
----------------------------------------------------------------------------
(* One exchange.  Every step may fail, and then only the deferred calls      *)
(* remain; the peers are not obliged to talk.                                *)

Goes(from, to) ==
    /\ handler = from
    /\ handler' = to
    /\ UNCHANGED <<vars, kind, tls>>

Handshake ==
    \/ "src" \in tls \cap open /\ Goes("handshake", "request")
    \/ Goes("handshake", "operation")

\* The request is written to dest and its tap before dest is asserted to be a
\* tls.Conn, so that it may be delivered without anybody reading the response.
PassRequest ==
    \/ /\ "src" \in open
       /\ kind = "http" \/ "dest" \in tls
       /\ Goes("request", "response")
    \/ Goes("request", "operation")

PassResponse == Goes("response", "operation")

\* The deferred handleOperation, in this goroutine.
RunOperation ==
    /\ handler = "operation"
    /\ Operation
    /\ handler' = IF op' = "done" THEN "dest" ELSE handler
    /\ UNCHANGED <<kind, tls>>

\* Bug: both brokers end on the notifier of src.
EndOnSrc(c, next) ==
    /\ handler = c
    /\ end["src"] = "empty"
    /\ end' = [end EXCEPT !["src"] = "broker"]
    /\ broker' = [broker EXCEPT ![c] = "done"]
    /\ handler' = next
    /\ UNCHANGED <<peer, open, flow, errors, op, callers, kind, tls>>

\* The deferred DoBroker of connection c copies nothing: end <- struct{}{}.
DoBroker(c, next) ==
    /\ handler = c
    /\ end[c] = "empty"
    /\ end' = [end EXCEPT ![c] = "broker"]
    /\ broker' = [broker EXCEPT ![c] = "done"]
    /\ handler' = next
    /\ UNCHANGED <<peer, open, flow, errors, op, callers, kind, tls>>

Deferred == RunOperation \/ DoBroker("dest", "src") \/ DoBroker("src", "done")

TCP(A) == kind = "tcp" /\ A /\ UNCHANGED own

StreamNext ==
    \/ TCP(Goroutines)
    \/ Callers /\ UNCHANGED own
    \/ Handshake \/ PassRequest \/ PassResponse \/ Deferred

StreamFairness ==
    /\ \A c \in Conns : WF_streamVars(TCP(Broker(c)))
    /\ WF_streamVars(TCP(Operation)) /\ WF_streamVars(TCP(Report))
    /\ \A c \in Conns : WF_streamVars(CloseConnSends(c) /\ UNCHANGED own)
                        /\ WF_streamVars(CloseConnCloses(c) /\ UNCHANGED own)
    /\ WF_streamVars(Deferred)

StreamSpec == StreamInit /\ [][StreamNext]_streamVars /\ StreamFairness
----------------------------------------------------------------------------
StreamTypeOK ==
    /\ TypeOK
    /\ kind \in {"tcp", "http", "https"} /\ tls \subseteq Conns
    /\ handler \in {"none", "handshake", "request", "response", "operation", "dest",
                    "src", "done"}
    /\ handler = "none" <=> kind = "tcp"

\* handleOperation is deferred last and runs first, before the brokers that
\* would wake it: after an exchange the goroutine waits for a caller.  Once
\* Close is called it returns, unless a caller of CloseSrc or CloseDest has
\* taken the room that the end of a broker needs.
HandlerReturns ==
    handler = "operation" /\ closings > 0
      ~> handler = "done" \/ \E c \in Conns : Full(c)
============================================================================

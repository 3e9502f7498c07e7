--------------------------- MODULE HTTPExchange ---------------------------
(***************************************************************************)
(* One request from an HTTPProtocolLink (src/httplink.go) to an HTTPProtocol *)
(* (src/httpprotocol.go): Request and the packet it ends in, Dial and        *)
(* ProcessRequests, CollectHTTPBody (src/formats.go lines 313-381), and the  *)
(* rack in which the routes hand the request to their listeners.             *)
(*                                                                           *)
(* net/http writes the response when the handler returns, with what has been *)
(* written by then, closes the connection of a handler that panics, and puts *)
(* no time limit on the client.  The rack is modelled as in SSHChannel, but  *)
(* with the timeout of the route configuration, of either kind.              *)
(***************************************************************************)
EXTENDS Integers

CONSTANTS Listeners,  \* listeners of the routes
          Lengths     \* values of ContentLength; -1 is an unknown length

ASSUME ExchangeAssumption == Lengths \subseteq Nat \cup {-1}

Kinds == {"json", "form", "multipart", "other"}

VARIABLES cert,       \* the protocol has a certificate
          racked,     \* the routes have a fail handler, and make racks
          timeout,    \* "immediate" when it is negative, else "timed"
          inline,     \* Emit runs the listeners before it returns
          serving,    \* the protocol: "down", "up" or "panicked"
          pc,         \* the request of the link
          content,    \* the kinds its Content-Type names; {} when it has none
          length,     \* its ContentLength
          handler,    \* the goroutine of ProcessRequests
          pkt,        \* what CollectHTTPBody made
          matched,    \* listeners of the routes that the path matches
          listening,  \* those that the request has not reached
          rack,       \* "none", "loaded", "held", "resolved" or "failed"
          keeper,     \* the rack's own goroutine took the payload
          waiting,    \* listeners whose function waits for the rack
          written,    \* listeners that wrote before the handler returned
          response    \* what the packet of the link holds

setting == <<cert, racked, timeout, inline>>
request == <<content, length>>
routes  == <<matched, listening, rack, keeper, waiting, written>>
vars    == <<setting, serving, pc, request, handler, pkt, routes, response>>

Nothing == [type |-> "", read |-> 0, err |-> FALSE]

Init ==
    /\ cert \in BOOLEAN /\ racked \in BOOLEAN /\ inline \in BOOLEAN
    /\ timeout \in {"immediate", "timed"}
    /\ serving = "down" /\ pc = "idle"
    /\ content = {} /\ length = 0
    /\ handler = "none" /\ pkt = Nothing
    /\ matched = {} /\ listening = {} /\ waiting = {} /\ written = {}
    /\ rack = "none" /\ keeper = FALSE
    /\ response = "none"
----------------------------------------------------------------------------
(* The link.                                                                 *)

\* Request makes a GET without a body or a POST with one; what is chained on it
\* may set its headers before it is sent.
Request(kinds, n) ==
    /\ pc = "idle"
    /\ content' = kinds /\ length' = n
    /\ pc' \in {"request", "error"}
    /\ UNCHANGED <<setting, serving, handler, pkt, routes, response>>

\* h.client.Do(rq): the server accepts, or cannot be reached.
Send ==
    /\ pc = "request"
    /\ \/ /\ serving = "up"
          /\ pc' = "sent" /\ handler' = "collect"
          /\ UNCHANGED response
       \/ /\ pc' = "packet" /\ response' = "error"
          /\ UNCHANGED handler
    /\ UNCHANGED <<setting, serving, request, pkt, routes>>

\* NewHTTPPacket, with the response and its body, which may break off.
Receive ==
    /\ pc = "sent"
    /\ pc' = "packet"
    /\ \/ /\ handler = "returned"
          /\ response' \in {IF written # {} THEN "answer" ELSE "empty", "partial"}
       \/ handler = "panicked" /\ response' = "error"
    /\ UNCHANGED <<setting, serving, request, handler, pkt, routes>>

\* The connection breaks: Do gives an error.
Breaks ==
    /\ pc = "sent"
    /\ pc' = "packet" /\ response' = "error"
    /\ UNCHANGED <<setting, serving, request, handler, pkt, routes>>
----------------------------------------------------------------------------
(* The protocol, up to the routes.                                           *)

\* With a certificate Dial serves plain HTTP; without one it looks for its files
\* in the nil certificate.
Dial ==
    /\ serving = "down"
    /\ serving' = IF cert THEN "up" ELSE "panicked"
    /\ UNCHANGED <<setting, pc, request, handler, pkt, routes, response>>

\* ListenAndServe ends with an error, at once or later, and Dial returns it; the
\* handlers that run go on.
DialReturns ==
    /\ serving = "up"
    /\ serving' = "down"
    /\ UNCHANGED <<setting, pc, request, handler, pkt, routes, response>>

\* Bug: a body that cannot be parsed leaves no error.
ParseSilently ==
    \E good \in SUBSET (content \cap {"form", "multipart"}) :
        pkt' = [type |-> IF "multipart" \in good THEN "multipart"
                         ELSE IF "form" \in good THEN "form"
                         ELSE IF "json" \in content THEN "json" ELSE "",
                read |-> 0,
                err  |-> FALSE]

\* A form or a multipart body is parsed; parsing fails or gives its type.
ParseBody ==
    \E bad \in SUBSET (content \cap {"form", "multipart"}) :
        LET good == content \ bad
        IN  pkt' = [type |-> IF "multipart" \in good THEN "multipart"
                             ELSE IF "form" \in good THEN "form"
                             ELSE IF "json" \in good THEN "json" ELSE "",
                    read |-> 0,
                    err  |-> bad # {}]

\* Any other body is read into a buffer of its declared length, with one Read.
ReadBody ==
    \E n \in 0 .. length, err \in BOOLEAN :
        pkt' = [type |-> IF "json" \in content THEN "json" ELSE "binary",
                read |-> n, err |-> err]

\* Bug: a chunked body is taken for an empty one, and the handler waits for it.
CollectAndWait ==
    /\ handler = "collect"
    /\ IF content = {} THEN handler' = "serve" /\ UNCHANGED pkt
       ELSE IF content \cap {"form", "multipart"} # {} THEN handler' = "serve" /\ ParseBody
       ELSE IF length < 0 THEN UNCHANGED <<handler, pkt>>
       ELSE handler' = "serve" /\ ReadBody
    /\ UNCHANGED <<setting, serving, pc, request, routes, response>>

\* CollectHTTPBody.  Without a Content-Type it reads nothing, also of a POST;
\* make([]byte, -1) panics.
Collect ==
    /\ handler = "collect"
    /\ \/ content = {} /\ handler' = "serve" /\ UNCHANGED pkt
       \/ /\ content \cap {"form", "multipart"} # {}
          /\ handler' = "serve" /\ ParseBody
       \/ /\ content # {} /\ content \cap {"form", "multipart"} = {}
          /\ IF length < 0 THEN handler' = "panicked" /\ UNCHANGED pkt
             ELSE handler' = "serve" /\ ReadBody
    /\ UNCHANGED <<setting, serving, pc, request, routes, response>>

\* Serve, on a path that nothing matches, or "/", for nobody.
Serve(listeners) ==
    /\ handler = "serve"
    /\ handler' = "emit"
    /\ matched' = listeners /\ listening' = listeners
    /\ rack' = IF racked THEN "loaded" ELSE "none"
    /\ UNCHANGED <<setting, serving, pc, request, pkt, keeper, waiting, written, response>>

\* Bug: the handler does not wait for the listeners.
ReturnsAnyway ==
    /\ handler = "emit"
    /\ handler' = "returned"
    /\ UNCHANGED <<setting, serving, pc, request, pkt, routes, response>>

Returns ==
    /\ handler = "emit"
    /\ inline => listening = {}
    /\ handler' = "returned"
    /\ UNCHANGED <<setting, serving, pc, request, pkt, routes, response>>
----------------------------------------------------------------------------
(* The listeners and the rack.                                               *)

\* What is written after the handler has returned gets nowhere.
Write(l) == written' = IF handler = "emit" THEN written \cup {l} ELSE written

\* A listener releases the rack and writes what it answers in When; without a
\* rack it gets the packet itself.
Listen(l) ==
    /\ l \in listening
    /\ listening' = listening \ {l}
    /\ rack' = IF rack = "loaded" THEN "resolved" ELSE rack
    /\ IF rack' \in {"none", "resolved"} THEN Write(l) /\ UNCHANGED waiting
       ELSE waiting' = waiting \cup {l} /\ UNCHANGED written
    /\ UNCHANGED <<setting, serving, pc, request, handler, pkt, matched, keeper,
                   response>>

\* The goroutine of the rack takes the payload, at once or when its time is over,
KeeperTakes ==
    /\ rack = "loaded"
    /\ rack' = "held" /\ keeper' = TRUE
    /\ UNCHANGED <<setting, serving, pc, request, handler, pkt, matched, listening,
                   waiting, written, response>>

\* and resolves the rack or fails it.
KeeperSettles ==
    /\ rack = "held"
    /\ rack' = IF timeout = "immediate" THEN "resolved" ELSE "failed"
    /\ UNCHANGED <<setting, serving, pc, request, handler, pkt, matched, listening,
                   keeper, waiting, written, response>>

RunWaiting(l) ==
    /\ rack = "resolved" /\ l \in waiting
    /\ waiting' = waiting \ {l}
    /\ Write(l)
    /\ UNCHANGED <<setting, serving, pc, request, handler, pkt, matched, listening,
                   rack, keeper, response>>
----------------------------------------------------------------------------
Handler == Collect \/ (\E m \in SUBSET Listeners : Serve(m)) \/ Returns

Next ==
    \/ \E kinds \in SUBSET Kinds, n \in Lengths : Request(kinds, n)
    \/ Send \/ Receive \/ Breaks
    \/ Dial \/ DialReturns \/ Handler
    \/ \E l \in Listeners : Listen(l) \/ RunWaiting(l)
    \/ KeeperTakes \/ KeeperSettles

\* The goroutines run.  Nobody has to dial the protocol or to make the request.
Fairness ==
    /\ WF_vars(Send) /\ WF_vars(Receive) /\ WF_vars(Handler)
    /\ WF_vars(KeeperTakes) /\ WF_vars(KeeperSettles)
    /\ \A l \in Listeners : WF_vars(Listen(l)) /\ WF_vars(RunWaiting(l))

Spec == Init /\ [][Next]_vars /\ Fairness
----------------------------------------------------------------------------
\* A packet with a Content-Type has a type or an error, its buffer is not longer
\* than declared, and a parsed form leaves no buffer.
PacketOK ==
    /\ content # {} /\ handler \in {"serve", "emit", "returned"} => pkt.type # "" \/ pkt.err
    /\ pkt.read > 0 => pkt.type \in {"json", "binary"} /\ pkt.read <= length

TypeOK ==
    /\ cert \in BOOLEAN /\ racked \in BOOLEAN /\ inline \in BOOLEAN
    /\ keeper \in BOOLEAN /\ timeout \in {"immediate", "timed"}
    /\ serving \in {"down", "up", "panicked"}
    /\ serving = "up" => cert
    /\ pc \in {"idle", "request", "error", "sent", "packet"}
    /\ content \subseteq Kinds /\ length \in Lengths \cup {0}
    /\ handler \in {"none", "collect", "serve", "emit", "returned", "panicked"}
    /\ rack \in {"none", "loaded", "held", "resolved", "failed"}
    /\ matched \subseteq Listeners
    /\ listening \cup waiting \cup written \subseteq matched
    /\ rack \in {"held", "failed"} \/ waiting # {} => keeper
    /\ rack = "failed" => timeout = "timed"
    /\ response \in {"none", "answer", "empty", "partial", "error"}
    /\ response # "none" <=> pc = "packet"
    /\ PacketOK

\* A request that is sent ends in a packet, with a response or an error: also
\* when the handler panics on a body of unknown length, and when the rack fails.
RequestSettles == pc = "request" ~> pc = "packet"

\* The response holds what every listener of the request answered, unless the
\* listeners run apart from Serve or the goroutine of the rack took the payload
\* before all of them.
AnsweredInTime ==
    response \in {"answer", "empty"} /\ inline /\ ~keeper => written = matched
============================================================================

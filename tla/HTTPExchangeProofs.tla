------------------------- MODULE HTTPExchangeProofs -------------------------
(***************************************************************************)
(* A response holds what every listener answered when they run before Serve  *)
(* returns and the rack did not take the payload from them, for any set of   *)
(* listeners and any lengths.  ExchangeInv follows a request: before it is   *)
(* emitted there is nothing to listen to, while it is, each listener either  *)
(* has it yet to come, or has written, or waits for the goroutine of the     *)
(* rack; when the handler has returned none is left.                         *)
(***************************************************************************)
EXTENDS HTTPExchange, TLAPS

\* Where the request of the link and the handler of the protocol may be.
Together ==
    /\ pc \in {"idle", "request", "error"} => handler = "none"
    /\ handler \in {"none", "collect", "panicked"} => pkt = Nothing
    /\ handler \in {"none", "collect", "serve", "panicked"} => rack = "none" /\ matched = {}
    /\ response \in {"answer", "empty"} => handler = "returned"

\* Where the listeners are.
Heard ==
    /\ handler = "emit" /\ ~keeper => matched \ listening \subseteq written
    /\ handler = "returned" /\ inline => listening = {}
    /\ handler = "returned" /\ inline /\ ~keeper => matched \subseteq written

ExchangeInv == TypeOK /\ Together /\ Heard

LEMMA InitExchangeInv == Init => ExchangeInv
<1> SUFFICES ASSUME Init
             PROVE  ExchangeInv
    OBVIOUS
<1>1. pkt.read = 0
    BY DEF Init, Nothing
<1>2. keeper \in BOOLEAN /\ ~keeper /\ waiting = {}
    BY Zenon DEF Init
<1>3. PacketOK
    BY <1>1 DEF Init, PacketOK
<1>4. TypeOK
    BY <1>3 DEF Init, TypeOK
<1>5. QED BY <1>4 DEF Init, ExchangeInv, Together, Heard

\* The packet that CollectHTTPBody made stays as it is.
LEMMA PacketStays ==
    ASSUME PacketOK, UNCHANGED <<request, pkt>>,
           handler' = handler \/ handler \in {"serve", "emit"} \/ handler' = "collect"
    PROVE  PacketOK'
BY DEF PacketOK, request

LEMMA NextExchangeInv == ExchangeInv /\ [Next]_vars => ExchangeInv'
<1> SUFFICES ASSUME ExchangeInv, [Next]_vars
             PROVE  ExchangeInv'
    OBVIOUS
<1> USE ExchangeAssumption
    DEF ExchangeAssumption, ExchangeInv, TypeOK, Together, Heard, Kinds, setting,
        request, routes
<1>1. ASSUME NEW kinds \in SUBSET Kinds, NEW n \in Lengths, Request(kinds, n)
      PROVE  ExchangeInv'
    <2>1. handler' = "none" /\ ~(pkt'.read > 0)
        <3>1. handler = "none" /\ pkt' = Nothing /\ handler' = handler
            BY <1>1 DEF Request
        <3>2. pkt'.read = 0
            BY ONLY <3>1 DEF Nothing
        <3>3. QED BY ONLY <3>1, <3>2
    <2>2. PacketOK'
        BY <2>1, Zenon DEF PacketOK
    <2>3. content' \subseteq Kinds /\ length' \in Lengths \cup {0}
        BY <1>1 DEF Request
    <2>4. QED BY <1>1, <2>1, <2>2, <2>3 DEF Request
<1>2. CASE Send
    <2>1. PacketOK'
        BY <1>2, PacketStays DEF Send
    <2>2. QED BY <1>2, <2>1 DEF Send
<1>3. CASE Receive
    <2>1. PacketOK'
        BY <1>3, PacketStays DEF Receive
    <2>2. QED BY <1>3, <2>1 DEF Receive
<1>4. CASE Breaks
    <2>1. PacketOK'
        BY <1>4, PacketStays DEF Breaks
    <2>2. QED BY <1>4, <2>1 DEF Breaks
<1>5. CASE Dial \/ DialReturns
    <2>1. PacketOK'
        BY <1>5, PacketStays DEF Dial, DialReturns
    <2>2. CASE Dial
        BY <2>1, <2>2 DEF Dial
    <2>3. CASE DialReturns
        BY <2>1, <2>3 DEF DialReturns
    <2>4. QED BY <1>5, <2>2, <2>3
<1>6. CASE Collect
    <2>1. pkt = Nothing /\ handler = "collect"
        BY <1>6 DEF Collect
    <2>2. CASE content = {} /\ handler' = "serve" /\ UNCHANGED pkt
        <3>1. PacketOK'
            BY <1>6, <2>1, <2>2 DEF Collect, PacketOK, Nothing
        <3>2. QED BY <1>6, <2>1, <2>2, <3>1 DEF Collect
    <2>3. CASE /\ content \cap {"form", "multipart"} # {}
               /\ handler' = "serve" /\ ParseBody
        <3>1. PICK bad \in SUBSET (content \cap {"form", "multipart"}) :
                pkt' = [type |-> IF "multipart" \in content \ bad THEN "multipart"
                                 ELSE IF "form" \in content \ bad THEN "form"
                                 ELSE IF "json" \in content \ bad THEN "json" ELSE "",
                        read |-> 0, err |-> bad # {}]
            BY <2>3 DEF ParseBody
        <3>2. pkt'.type # "" \/ pkt'.err
            <4>1. CASE bad = {}
                BY <2>3, <3>1, <4>1
            <4>2. CASE bad # {}
                BY <3>1, <4>2
            <4>3. QED BY <4>1, <4>2
        <3>3. pkt'.read = 0
            BY ONLY <3>1
        <3>4. ~(pkt'.read > 0)
            BY ONLY <3>3
        <3>5. PacketOK'
            BY <3>2, <3>4, Zenon DEF PacketOK
        <3>6. QED BY <1>6, <2>1, <2>3, <3>5 DEF Collect
    <2>4. CASE handler' = "panicked" /\ UNCHANGED pkt
        <3>1. PacketOK'
            BY <2>1, <2>4 DEF PacketOK, Nothing
        <3>2. QED BY <1>6, <2>1, <2>4, <3>1 DEF Collect
    <2>5. CASE /\ content # {} /\ content \cap {"form", "multipart"} = {}
               /\ length >= 0 /\ handler' = "serve" /\ ReadBody
        <3>1. PICK n \in 0 .. length, err \in BOOLEAN :
                pkt' = [type |-> IF "json" \in content THEN "json" ELSE "binary",
                        read |-> n, err |-> err]
            BY <2>5 DEF ReadBody
        <3>2. /\ pkt'.type \in {"json", "binary"} /\ pkt'.type # ""
              /\ pkt'.read <= length
            BY <3>1
        <3>3. PacketOK'
            BY <1>6, <3>2 DEF Collect, PacketOK
        <3>4. QED BY <1>6, <2>1, <2>5, <3>3 DEF Collect
    <2>6. length >= 0 \/ length < 0
        OBVIOUS
    <2>7. QED BY <1>6, <2>2, <2>3, <2>4, <2>5, <2>6 DEF Collect
<1>7. ASSUME NEW listeners \in SUBSET Listeners, Serve(listeners)
      PROVE  ExchangeInv'
    <2>1. PacketOK'
        BY <1>7, PacketStays DEF Serve
    <2>2. QED BY <1>7, <2>1 DEF Serve
<1>8. CASE Returns
    <2>1. PacketOK'
        BY <1>8, PacketStays DEF Returns
    <2>2. QED BY <1>8, <2>1 DEF Returns
<1>9. ASSUME NEW l \in Listeners, Listen(l)
      PROVE  ExchangeInv'
    <2>1. PacketOK'
        BY <1>9, PacketStays DEF Listen, Write
    <2>2. QED BY <1>9, <2>1 DEF Listen, Write
<1>10. ASSUME NEW l \in Listeners, RunWaiting(l)
       PROVE  ExchangeInv'
    <2>1. PacketOK'
        BY <1>10, PacketStays DEF RunWaiting, Write
    <2>2. QED BY <1>10, <2>1 DEF RunWaiting, Write
<1>11. CASE KeeperTakes
    <2>1. PacketOK'
        BY <1>11, PacketStays DEF KeeperTakes
    <2>2. QED BY <1>11, <2>1 DEF KeeperTakes
<1>12. CASE KeeperSettles
    <2>1. PacketOK'
        BY <1>12, PacketStays DEF KeeperSettles
    <2>2. QED BY <1>12, <2>1 DEF KeeperSettles
<1>13. CASE UNCHANGED vars
    <2>1. PacketOK'
        BY <1>13, PacketStays DEF vars
    <2>2. QED BY <1>13, <2>1 DEF vars
<1>14. QED
    BY <1>1, <1>2, <1>3, <1>4, <1>5, <1>6, <1>7, <1>8, <1>9, <1>10, <1>11, <1>12,
       <1>13 DEF Next, Handler

\* The inductive invariant holds throughout every run.
THEOREM ExchangeInvariant == Spec => []ExchangeInv
<1>1. QED BY InitExchangeInv, NextExchangeInv, PTL DEF Spec

\* The variables keep their types, and a packet with a Content-Type has a type or
\* an error and never a buffer longer than declared (formats.go lines 313-381).
THEOREM ExchangeTypes == Spec => []TypeOK
<1>1. ExchangeInv => TypeOK
    BY DEF ExchangeInv
<1>2. QED BY <1>1, ExchangeInvariant, PTL

\* src/httpprotocol.go lines 16-22: the response is what the listeners answered.
THEOREM ExchangeAnswersInTime == Spec => []AnsweredInTime
<1>1. ExchangeInv => AnsweredInTime
    BY DEF ExchangeInv, TypeOK, Together, Heard, AnsweredInTime
<1>2. QED BY <1>1, ExchangeInvariant, PTL
=============================================================================

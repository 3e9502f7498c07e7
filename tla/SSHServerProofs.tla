-------------------------- MODULE SSHServerProofs --------------------------
(***************************************************************************)
(* What a server has in its hands, for any number of clients and channels,   *)
(* and what its sessions are, for any number of destroyers and addresses.    *)
(*                                                                           *)
(* A connection that was accepted is never dropped on the way: it is in the  *)
(* hand of the accept loop or has a channel manager, which alone closes it.  *)
(* This is the safety under DropClosesServed.  ServerInv adds what the loop  *)
(* has yet to do for the connection in its hand, so that it starts one       *)
(* manager and one DiscardRequests for each, and waits only for one that     *)
(* runs.                                                                     *)
(*                                                                           *)
(* No session that is handed out was closed by a DestroySession before, and  *)
(* none leaves the map without one that closes it.  Neither is inductive:    *)
(* ManagerInv adds where the session a destroyer has found may still be, at  *)
(* its address until the removal and nowhere after it, and that what else is *)
(* there before the removal was stored too late.                             *)
(***************************************************************************)
EXTENDS SSHServer, SessionManager, TLAPS

(* Connections.                                                              *)

\* Each connection of the server is in the hand of the loop, or of a manager, which
\* Drop stops.
AllHeld ==
    \A c \in Conns :
        /\ conn[c] = "accepted" <=> (cur = c /\ loop \in {"before", "handshake"})
        /\ conn[c] = "served" <=> (manager[c] = "loop" \/ (cur = c /\ loop = "channels"))
        /\ conn[c] = "closed" <=> manager[c] = "done"

\* What the loop has done for the connection in its hand.
LoopSoFar ==
    /\ loop \in {"channels", "outbounds"} => discards[cur] = "none"
    /\ loop = "channels" => manager[cur] = "none"
    /\ loop \in {"outbounds", "discarding", "after"} => manager[cur] # "none"
    /\ loop = "discarding" => discards[cur] = "running"

\* Nobody discards requests or serves channels of a connection without a manager, and
\* the discarding ends only with the connection.
Attended ==
    /\ \A c \in Conns :
         /\ discards[c] # "none" => manager[c] # "none"
         /\ discards[c] = "done" => c \in left \/ conn[c] = "closed"
    /\ \A k \in Chans : chan[k] # "none" => conn[ConnOf[k]] \in {"served", "closed"}

\* The listener is open from Dial to Drop.
Listening ==
    /\ loop \notin {"idle", "panicked"} => killer # "none"
    /\ listener = "open" <=> killer = "wait"
    /\ listener = "closed" <=> killer = "dead"
    /\ killer = "dead" => dropped

ServerInv == TypeOK /\ AllHeld /\ LoopSoFar /\ Attended /\ Listening

LEMMA InitServerInv == Init => ServerInv
<1> SUFFICES ASSUME Init
             PROVE  ServerInv
    OBVIOUS
<1>1. TypeOK
    BY Zenon DEF Init, TypeOK
<1>2. AllHeld /\ LoopSoFar /\ Attended /\ Listening
    BY ServerAssumption DEF Init, AllHeld, LoopSoFar, Attended, Listening
<1>3. QED BY <1>1, <1>2 DEF ServerInv

LEMMA NextServerInv == ServerInv /\ [Next]_vars => ServerInv'
<1> SUFFICES ASSUME ServerInv, [Next]_vars
             PROVE  ServerInv'
    OBVIOUS
<1> USE ServerAssumption
    DEF ServerInv, TypeOK, AllHeld, LoopSoFar, Attended, Listening, setting, dialing
<1>1. ASSUME NEW c \in Conns, Connect(c) \/ Leave(c)
      PROVE  ServerInv'
    BY <1>1 DEF Connect, Leave
<1>2. ASSUME NEW k \in Chans, AskChannel(k)
      PROVE  ServerInv'
    BY <1>2 DEF AskChannel
<1>3. CASE Listen \/ ListenFails \/ Kill
    BY <1>3 DEF Listen, ListenFails, Kill
<1>4. CASE Drop
    BY <1>4 DEF Drop
<1>5. ASSUME NEW c \in Conns, Accept(c)
      PROVE  ServerInv'
    BY <1>5 DEF Accept
<1>6. CASE BeforeLets \/ BeforeRefuses
    BY <1>6 DEF BeforeLets, BeforeRefuses
<1>7. CASE HandshakeDone \/ HandshakeFails
    BY <1>7 DEF HandshakeDone, HandshakeFails
<1>8. CASE EmitChannels
    BY <1>8 DEF EmitChannels
<1>9. CASE EmitOutbounds
    BY <1>9 DEF EmitOutbounds
<1>10. ASSUME NEW c \in Conns, Discarded(c)
       PROVE  ServerInv'
    BY <1>10 DEF Discarded
<1>11. CASE After
    BY <1>11 DEF After
<1>12. ASSUME NEW k \in Chans, TakeChannel(k)
       PROVE  ServerInv'
    BY <1>12 DEF TakeChannel, Outcomes
<1>13. ASSUME NEW c \in Conns, StopManager(c)
       PROVE  ServerInv'
    BY <1>13 DEF StopManager
<1>14. CASE UNCHANGED vars
    BY <1>14 DEF vars
<1>15. CASE AcceptFails
    BY <1>14, <1>15 DEF AcceptFails
<1>16. QED
    BY <1>1, <1>2, <1>3, <1>4, <1>5, <1>6, <1>7, <1>8, <1>9, <1>10, <1>11, <1>12,
       <1>13, <1>14, <1>15 DEF Next, AcceptLoop, Callbacks, Manage

\* The inductive invariant holds throughout every run.
THEOREM ServerInvariant == Spec => []ServerInv
<1>1. QED BY InitServerInv, NextServerInv, PTL DEF Spec

\* The variables keep their types, and the loop has a connection in its hand where
\* it works on one (src/sshprotocol.go lines 721-770).
THEOREM ServerTypes == Spec => []TypeOK
<1>1. ServerInv => TypeOK
    BY DEF ServerInv
<1>2. QED BY <1>1, ServerInvariant, PTL

\* A connection that was accepted is in the hand of the loop until its handshake has
\* failed or Before refused it, or it has a manager, which closes it when Drop is
\* called (src/sshprotocol.go lines 724-769 and 781-800).
THEOREM ServerHoldsAll == Spec => []AllHeld
<1>1. ServerInv => AllHeld
    BY DEF ServerInv
<1>2. QED BY <1>1, ServerInvariant, PTL
----------------------------------------------------------------------------
(* Sessions.                                                                 *)

\* Sessions are stored once, each under one address, and closed after that.
StoredOnce ==
    /\ \A a \in Addrs : sessions[a] # NoSession => sessions[a] \in added
    /\ \A a, b \in Addrs : sessions[a] = sessions[b] /\ sessions[a] # NoSession => a = b
    /\ \A s \in Sessions : closedBy[s] # {} => s \in added
    /\ \A p \in Proxies : held[p] # NoSession => held[p] \in added
    /\ removed \subseteq added

\* The session that destroyer g has found.
FoundOf(g) ==
    /\ sh[g] # NoSession => sh[g] \in added
    /\ pc[g] \in {"remove", "close"} => sh[g] # NoSession
    /\ \A a \in Addrs : sh[g] # NoSession /\ sessions[a] = sh[g]
                          => a = addr[g] /\ pc[g] = "remove"
    /\ pc[g] = "remove" => sessions[addr[g]] \in {NoSession, sh[g]} \cup late

ManagerInv ==
    /\ ManagerTypeOK
    /\ StoredOnce
    /\ \A g \in Destroyers : FoundOf(g)
    /\ MapHoldsNoDestroyed
    /\ RemovedIsClosed

LEMMA InitManagerInv == ManagerInit => ManagerInv
BY ManagerAssumption
   DEF ManagerInit, ManagerInv, ManagerTypeOK, StoredOnce, FoundOf, MapHoldsNoDestroyed, RemovedIsClosed

LEMMA NextManagerInv == ManagerInv /\ [ManagerNext]_managerVars => ManagerInv'
<1> SUFFICES ASSUME ManagerInv, [ManagerNext]_managerVars
             PROVE  ManagerInv'
    OBVIOUS
<1> USE ManagerAssumption
    DEF ManagerInv, ManagerTypeOK, StoredOnce, FoundOf, MapHoldsNoDestroyed, RemovedIsClosed
<1>1. ASSUME NEW a \in Addrs, NEW s \in Sessions, AddSession(a, s)
      PROVE  ManagerInv'
    BY <1>1 DEF AddSession
<1>2. ASSUME NEW g \in Destroyers, DestroyGet(g)
      PROVE  ManagerInv'
    BY <1>2 DEF DestroyGet, GetSession
<1>3. ASSUME NEW g \in Destroyers, DestroyRemove(g)
      PROVE  ManagerInv'
    BY <1>3 DEF DestroyRemove
<1>4. ASSUME NEW g \in Destroyers, DestroyClose(g)
      PROVE  ManagerInv'
    BY <1>4 DEF DestroyClose, Closes
<1>5. ASSUME NEW p \in Proxies, NEW a \in Addrs, ProxyGet(p, a)
      PROVE  ManagerInv'
    BY <1>5 DEF ProxyGet, GetSession
<1>6. ASSUME NEW p \in Proxies, ProxyClose(p)
      PROVE  ManagerInv'
    BY <1>6 DEF ProxyClose, Closes
<1>7. CASE UNCHANGED managerVars
    BY <1>7 DEF managerVars
<1>8. QED
    BY <1>1, <1>2, <1>3, <1>4, <1>5, <1>6, <1>7 DEF ManagerNext, Destroy

\* The inductive invariant holds throughout every run of a session manager.
THEOREM ManagerInvariant == ManagerSpec => []ManagerInv
<1>1. QED BY InitManagerInv, NextManagerInv, PTL DEF ManagerSpec

\* The variables keep their types: what is stored late was added.
THEOREM ManagerTypes == ManagerSpec => []ManagerTypeOK
<1>1. ManagerInv => ManagerTypeOK
    BY DEF ManagerInv
<1>2. QED BY <1>1, ManagerInvariant, PTL

\* GetSession never hands out a session that a DestroySession has closed (src/formats.go lines 170-194).
THEOREM ManagerHoldsNoDestroyed == ManagerSpec => []MapHoldsNoDestroyed
<1>1. ManagerInv => MapHoldsNoDestroyed
    BY DEF ManagerInv
<1>2. QED BY <1>1, ManagerInvariant, PTL

\* What DestroySession removes it closes, but for a session that was stored
\* between its lookup and its removal (src/formats.go lines 186-194).
THEOREM ManagerClosesRemoved == ManagerSpec => []RemovedIsClosed
<1>1. ManagerInv => RemovedIsClosed
    BY DEF ManagerInv
<1>2. QED BY <1>1, ManagerInvariant, PTL
=============================================================================

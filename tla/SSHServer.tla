---------------------------- MODULE SSHServer ----------------------------
(***************************************************************************)
(* An SSHProtocol as a server (src/sshprotocol.go lines 18-41, 302-386,      *)
(* 685-888 and 969-982): the accept loop of Dial, the goroutine that waits   *)
(* for Drop, and for each connection the goroutine of the standard channel   *)
(* manager and ssh.DiscardRequests for its out of band requests.             *)
(*                                                                           *)
(* External: net, ssh.NewServerConn, the callbacks Before and After, pty and *)
(* the flux sockets.  Whether Emit runs its listeners in the goroutine of    *)
(* the caller is not fixed by this code, so inline is chosen at the start.   *)
(* Drop is called once; a second close(ProtocolClosed) is a panic.           *)
(***************************************************************************)
EXTENDS Naturals, FiniteSets

CONSTANTS Conns,   \* connections that clients may make
          Chans,   \* channels that clients may ask for
          ConnOf,  \* ConnOf[k]: the connection of channel k
          None

ASSUME ServerAssumption == ConnOf \in [Chans -> Conns] /\ None \notin Conns

VARIABLES inline,    \* Emit runs the listeners before it returns
          silent,    \* clients that stop talking within the handshake
          dropped,   \* ProtocolClosed is closed
          listener,  \* "none", "open" or "closed"
          killer,    \* the goroutine that waits for ProtocolClosed
          loop,      \* where the loop of Dial is
          cur,       \* the connection it has in hand
          conn,      \* conn[c]: the state of connection c
          left,      \* clients that have gone
          manager,   \* manager[c]: the channel manager of c
          discards,  \* discards[c]: ssh.DiscardRequests for c
          chan       \* chan[k]: what has become of channel k

setting == <<inline, silent>>
dialing == <<listener, killer, loop, cur>>
vars == <<setting, dropped, dialing, conn, left, manager, discards, chan>>

Init ==
    /\ inline \in BOOLEAN
    /\ silent \in SUBSET Conns
    /\ dropped = FALSE
    /\ listener = "none" /\ killer = "none"
    /\ loop = "idle" /\ cur = None
    /\ conn = [c \in Conns |-> "away"]
    /\ left = {}
    /\ manager = [c \in Conns |-> "none"]
    /\ discards = [c \in Conns |-> "none"]
    /\ chan = [k \in Chans |-> "none"]
----------------------------------------------------------------------------
(* Clients.                                                                  *)

Connect(c) ==
    /\ conn[c] = "away" /\ listener = "open"
    /\ conn' = [conn EXCEPT ![c] = "backlog"]
    /\ UNCHANGED <<setting, dropped, dialing, left, manager, discards, chan>>

Leave(c) ==
    /\ conn[c] # "away"
    /\ left' = left \cup {c}
    /\ UNCHANGED <<setting, dropped, dialing, conn, manager, discards, chan>>

AskChannel(k) ==
    /\ chan[k] = "none"
    /\ conn[ConnOf[k]] = "served" /\ ConnOf[k] \notin left
    /\ chan' = [chan EXCEPT ![k] = "asked"]
    /\ UNCHANGED <<setting, dropped, dialing, conn, left, manager, discards>>
----------------------------------------------------------------------------
(* Dial and Drop.                                                            *)

Listen ==
    /\ loop = "idle"
    /\ listener' = "open" /\ killer' = "wait" /\ loop' = "accept"
    /\ UNCHANGED <<setting, dropped, cur, conn, left, manager, discards, chan>>

\* The address is taken: Dial panics.
ListenFails ==
    /\ loop = "idle"
    /\ loop' = "panicked"
    /\ UNCHANGED <<setting, dropped, listener, killer, cur, conn, left, manager,
                   discards, chan>>

Drop ==
    /\ ~dropped
    /\ dropped' = TRUE
    /\ UNCHANGED <<setting, dialing, conn, left, manager, discards, chan>>

\* The panic that follows is recovered in the same goroutine.
Kill ==
    /\ killer = "wait" /\ dropped
    /\ listener' = "closed" /\ killer' = "dead"
    /\ UNCHANGED <<setting, dropped, loop, cur, conn, left, manager, discards, chan>>

Accept(c) ==
    /\ loop = "accept" /\ listener = "open" /\ conn[c] = "backlog"
    /\ conn' = [conn EXCEPT ![c] = "accepted"]
    /\ loop' = "before" /\ cur' = c
    /\ UNCHANGED <<setting, dropped, listener, killer, left, manager, discards, chan>>

\* An error is logged and Accept is called again, after Before was called with
\* the nil connection.
AcceptFails ==
    /\ loop = "accept" /\ listener = "closed"
    /\ UNCHANGED vars

BeforeLets ==
    /\ loop = "before"
    /\ loop' = "handshake"
    /\ UNCHANGED <<setting, dropped, listener, killer, cur, conn, left, manager,
                   discards, chan>>

\* Bug: the connection stays in hand.
BeforeRefusesKeeping ==
    /\ loop = "before"
    /\ conn' = [conn EXCEPT ![cur] = "refused"]
    /\ loop' = "accept"
    /\ UNCHANGED <<setting, dropped, listener, killer, cur, left, manager, discards, chan>>

\* The connection that Before refuses is not closed by the loop.
BeforeRefuses ==
    /\ loop = "before"
    /\ conn' = [conn EXCEPT ![cur] = "refused"]
    /\ loop' = "accept" /\ cur' = None
    /\ UNCHANGED <<setting, dropped, listener, killer, left, manager, discards, chan>>

\* ssh.NewServerConn, in the loop.
HandshakeDone ==
    /\ loop = "handshake" /\ cur \notin left \cup silent
    /\ conn' = [conn EXCEPT ![cur] = "served"]
    /\ loop' = "channels"
    /\ UNCHANGED <<setting, dropped, listener, killer, cur, left, manager, discards,
                   chan>>

\* Bug: a failed handshake ends the loop.
HandshakeEndsLoop ==
    /\ loop = "handshake" /\ cur \notin silent \ left
    /\ conn' = [conn EXCEPT ![cur] = "failed"]
    /\ loop' = "panicked" /\ cur' = None
    /\ UNCHANGED <<setting, dropped, listener, killer, left, manager, discards, chan>>

HandshakeFails ==
    /\ loop = "handshake" /\ cur \notin silent \ left
    /\ conn' = [conn EXCEPT ![cur] = "failed"]
    /\ loop' = "accept" /\ cur' = None
    /\ UNCHANGED <<setting, dropped, listener, killer, left, manager, discards, chan>>

\* Bug: the manager is only started when the requests have been discarded.
EmitChannelsLate ==
    /\ loop = "channels"
    /\ manager' = IF ~inline \/ discards[cur] = "done"
                  THEN [manager EXCEPT ![cur] = "loop"] ELSE manager
    /\ loop' = "outbounds"
    /\ UNCHANGED <<setting, dropped, listener, killer, cur, conn, left, discards, chan>>

\* The listener of NetworkChannels starts a goroutine for the connection.
EmitChannels ==
    /\ loop = "channels"
    /\ manager' = [manager EXCEPT ![cur] = "loop"]
    /\ loop' = "outbounds"
    /\ UNCHANGED <<setting, dropped, listener, killer, cur, conn, left, discards, chan>>

\* The listener of NetworkOutbounds discards requests until there are no more.
EmitOutbounds ==
    /\ loop = "outbounds"
    /\ discards' = [discards EXCEPT ![cur] = "running"]
    /\ loop' = IF inline THEN "discarding" ELSE "after"
    /\ UNCHANGED <<setting, dropped, listener, killer, cur, conn, left, manager, chan>>

Discarded(c) ==
    /\ discards[c] = "running"
    /\ c \in left \/ conn[c] = "closed"
    /\ discards' = [discards EXCEPT ![c] = "done"]
    /\ loop' = IF loop = "discarding" /\ cur = c THEN "after" ELSE loop
    /\ UNCHANGED <<setting, dropped, listener, killer, cur, conn, left, manager, chan>>

\* An error of After is only logged.
After ==
    /\ loop = "after"
    /\ loop' = "accept" /\ cur' = None
    /\ UNCHANGED <<setting, dropped, listener, killer, conn, left, manager, discards,
                   chan>>
----------------------------------------------------------------------------
(* The standard channel manager of connection c.                             *)

\* Reject when the type has no route, an error of Accept, a pty that cannot be
\* opened (the channel then stays accepted and unserved), or an open channel.
Outcomes(c) ==
    {"rejected", "broken"}
    \cup (IF c \in left THEN {} ELSE {"noPty", "open"})

\* Bug: the manager returns after one channel, as the proxy manager does.
TakeOneChannel(k) ==
    LET c == ConnOf[k] IN
    /\ manager[c] = "loop" /\ chan[k] = "asked"
    /\ \E o \in Outcomes(c) : chan' = [chan EXCEPT ![k] = o]
    /\ manager' = [manager EXCEPT ![c] = "done"]
    /\ UNCHANGED <<setting, dropped, dialing, conn, left, discards>>

TakeChannel(k) ==
    LET c == ConnOf[k] IN
    /\ manager[c] = "loop" /\ chan[k] = "asked"
    /\ \E o \in Outcomes(c) : chan' = [chan EXCEPT ![k] = o]
    /\ UNCHANGED <<setting, dropped, dialing, conn, left, manager, discards>>

\* Only ProtocolClosed ends the loop; the deferred calls close the connection.
\* When the client has gone the loop spins on the closed channel sc instead.
StopManager(c) ==
    /\ manager[c] = "loop" /\ dropped
    /\ manager' = [manager EXCEPT ![c] = "done"]
    /\ conn' = [conn EXCEPT ![c] = "closed"]
    /\ UNCHANGED <<setting, dropped, dialing, left, discards, chan>>
----------------------------------------------------------------------------
Callbacks == BeforeLets \/ BeforeRefuses \/ After

AcceptLoop ==
    \/ \E c \in Conns : Accept(c)
    \/ AcceptFails \/ Callbacks
    \/ HandshakeDone \/ HandshakeFails \/ EmitChannels \/ EmitOutbounds

Manage(c) ==
    \/ StopManager(c)
    \/ \E k \in Chans : ConnOf[k] = c /\ TakeChannel(k)

Next ==
    \/ \E c \in Conns : Connect(c) \/ Leave(c) \/ Discarded(c) \/ Manage(c)
    \/ \E k \in Chans : AskChannel(k)
    \/ Listen \/ ListenFails \/ Drop \/ Kill \/ AcceptLoop

\* Every goroutine runs: a handshake with a client that talks ends, and the
\* callbacks return.  Clients and the caller of Drop act when they like.
Fairness ==
    /\ WF_vars(Kill) /\ WF_vars(AcceptLoop)
    /\ \A c \in Conns : WF_vars(Discarded(c)) /\ WF_vars(Manage(c))

Spec == Init /\ [][Next]_vars /\ Fairness
----------------------------------------------------------------------------
TypeOK ==
    /\ inline \in BOOLEAN /\ silent \subseteq Conns /\ dropped \in BOOLEAN
    /\ listener \in {"none", "open", "closed"}
    /\ killer \in {"none", "wait", "dead"}
    /\ loop \in {"idle", "panicked", "accept", "before", "handshake", "channels",
                 "outbounds", "discarding", "after"}
    /\ cur \in Conns \cup {None}
    /\ (cur = None) <=> loop \in {"idle", "panicked", "accept"}
    /\ conn \in [Conns -> {"away", "backlog", "accepted", "refused", "failed",
                           "served", "closed"}]
    /\ left \subseteq Conns
    /\ manager \in [Conns -> {"none", "loop", "done"}]
    /\ discards \in [Conns -> {"none", "running", "done"}]
    /\ chan \in [Chans -> {"none", "asked", "rejected", "broken", "noPty", "open"}]

\* Drop closes every connection whose handshake succeeds, before Drop or after it,
\* also one that has no manager yet when Drop is called and when the accept loop
\* itself is blocked in DiscardRequests (lines 757-759 and 868-882).  A client
\* stuck in the handshake (741) it does not reach, and one that Before refused
\* (728) or whose handshake failed the loop leaves alone.
DropClosesServed ==
    \A c \in Conns : dropped /\ conn[c] = "served" ~> conn[c] = "closed"

\* Somebody holds the accept loop: a client that has stopped talking within the
\* handshake and stays, or, when Emit runs the listeners, one that stays.
Held ==
    \/ loop = "handshake" /\ cur \in silent \ left
    \/ loop = "discarding" /\ cur \notin left /\ conn[cur] # "closed"

\* A client in the backlog gets its turn, whatever the others do, unless one of
\* them holds the accept loop for ever: the handshake, which has no deadline,
\* and both emissions are in the loop (lines 722-769).
BacklogMoves ==
    \A c \in Conns :
        conn[c] = "backlog" ~> conn[c] # "backlog" \/ listener = "closed" \/ []Held

\* Every channel a client asks for is answered, unless the server is dropped:
\* no channel waits behind another, and an error with one ends none (802-882).
ChannelsAnswered ==
    \A k \in Chans : chan[k] = "asked" ~> (chan[k] # "asked" \/ dropped)
============================================================================

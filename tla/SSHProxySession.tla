-------------------------- MODULE SSHProxySession --------------------------
(***************************************************************************)
(* One connection of an SSHProxyProtocol (src/sshprotocol.go lines 116-300   *)
(* and 890-967): the channel manager of the proxy, and the goroutines that   *)
(* tie a channel of the client, the master, to a channel of the session's    *)
(* own connection to the remote host: a loop that relays requests, two       *)
(* copying goroutines, and one that waits for a copy to end and shuts down.  *)
(*                                                                           *)
(* The bytes that are copied are left out; where a copy is and how it ends   *)
(* is not.  A peer may read nothing and answer nothing for as long as it     *)
(* likes: OpenChannel, SendRequest and Write then block.  To close a channel *)
(* here wakes nobody: its peer answers the close when it likes.  Only the    *)
(* first channel is ever taken from the connection, so there is one of each. *)
(* inline says, as in SSHServer, that Emit runs its listeners itself.        *)
(***************************************************************************)
EXTENDS Naturals

CONSTANTS Chans,        \* channels the client may ask for
          MaxRequests,  \* bound: requests of one side that wait to be relayed
          None

ASSUME ProxyAssumption == MaxRequests \in Nat /\ None \notin Chans

VARIABLES inline,     \* Emit runs the listeners before it returns
          dropped,    \* ProtocolClosed is closed
          peer,       \* peer[s]: "up", "eof" (its input ended) or "gone"
          d,          \* the connection of the client is open
          closer,     \* the channel closer is closed
          chan,       \* chan[k]: what has become of channel k
          manager,    \* the goroutine of AddProxyChannelManager
          listener,   \* the listener of NetworkOpen
          slave,      \* wrapSlave: the remote channel or a reader of the ChannelMaker
          open,       \* the channels and readers not closed here
          sessConn,   \* session.Connection() is open
          asked,      \* asked[s]: requests from side s that are not relayed yet
          exit,       \* the last request relayed is an exit-status
          loop,       \* the goroutine with clientloop
          copy,       \* copy[s]: the goroutine that reads from s
          copyClosed, \* how often copyCloseFn ran (twice is a panic)
          shutter,    \* the goroutine that waits for copyState
          closes,     \* calls of session.Close
          emitted     \* emissions on NetworkClose

outside == <<inline, dropped, peer>>
managing == <<d, closer, chan, manager>>
ends == <<slave, open, sessConn>>
relaying == <<asked, exit, loop>>
copying == <<copy, copyClosed>>
shutting == <<shutter, closes, emitted>>
vars == <<outside, managing, listener, ends, relaying, copying, shutting>>

Sides == {"master", "remote"}
Opposite(s) == IF s = "master" THEN "remote" ELSE "master"

Init ==
    /\ inline \in BOOLEAN
    /\ dropped = FALSE /\ peer = [s \in Sides |-> "up"]
    /\ d = TRUE /\ closer = FALSE
    /\ chan = [k \in Chans |-> "none"]
    /\ manager = "loop" /\ listener = "none"
    /\ slave = "remote" /\ open = {} /\ sessConn = TRUE
    /\ asked = [s \in Sides |-> 0] /\ exit = FALSE /\ loop = "none"
    /\ copy = [s \in Sides |-> "none"] /\ copyClosed = 0
    /\ shutter = "none" /\ closes = 0 /\ emitted = 0

\* The connection of side s was closed here, or its peer closed the channel or the
\* connection: whoever waits for that side gets an error.
Dead(s) == (IF s = "master" THEN ~d ELSE ~sessConn) \/ peer[s] = "gone"

\* A read from side s ends.
Over(s) == Dead(s) \/ peer[s] = "eof"
----------------------------------------------------------------------------
(* The client, the remote host and Drop.                                     *)

Ask(k) ==
    /\ chan[k] = "none" /\ ~Dead("master")
    /\ chan' = [chan EXCEPT ![k] = "asked"]
    /\ UNCHANGED <<outside, d, closer, manager, listener, ends, relaying, copying,
                   shutting>>

PeerEnds(s) ==
    /\ \/ peer[s] = "up" /\ s \in open /\ peer' = [peer EXCEPT ![s] = "eof"]
       \/ peer[s] # "gone" /\ peer' = [peer EXCEPT ![s] = "gone"]
    /\ UNCHANGED <<inline, dropped, managing, listener, ends, relaying, copying,
                   shutting>>

Request(s) ==
    /\ s \in open /\ ~Dead(s)
    /\ loop \in {"run"} \cup Sides /\ asked[s] < MaxRequests
    /\ asked' = [asked EXCEPT ![s] = @ + 1]
    /\ UNCHANGED <<outside, managing, listener, ends, exit, loop, copying, shutting>>

Drop ==
    /\ ~dropped
    /\ dropped' = TRUE
    /\ UNCHANGED <<inline, peer, managing, listener, ends, relaying, copying,
                   shutting>>
----------------------------------------------------------------------------
(* AddProxyChannelManager.                                                   *)

\* Bug: a channel of an unknown type is rejected, and then accepted all the same.
RejectGoesOn(k) ==
    /\ manager = "loop" /\ chan[k] = "asked"
    /\ chan' = [chan EXCEPT ![k] = "rejected"]
    /\ open' = open \cup {"master"}
    /\ listener' = "session"
    /\ manager' = IF inline THEN "emit" ELSE "return"
    /\ UNCHANGED <<outside, d, closer, slave, sessConn, relaying, copying, shutting>>

\* channelProc refuses the channel, or fails to accept it; the manager returns.
RefuseChannel(k) ==
    /\ manager = "loop" /\ chan[k] = "asked"
    /\ \E o \in {"rejected", "broken"} : chan' = [chan EXCEPT ![k] = o]
    /\ manager' = "return"
    /\ UNCHANGED <<outside, d, closer, listener, ends, relaying, copying, shutting>>

AcceptChannel(k) ==
    /\ manager = "loop" /\ chan[k] = "asked"
    /\ chan' = [chan EXCEPT ![k] = "accepted"]
    /\ open' = open \cup {"master"}
    /\ listener' = "session"
    /\ manager' = IF inline THEN "emit" ELSE "return"
    /\ UNCHANGED <<outside, d, closer, slave, sessConn, relaying, copying, shutting>>

\* With inline, Emit returns when the listener has.
EmitReturns ==
    /\ manager = "emit" /\ listener \in {"run", "gaveUp"}
    /\ manager' = "return"
    /\ UNCHANGED <<outside, d, closer, chan, listener, ends, relaying, copying, shutting>>

SeeDrop ==
    /\ manager = "loop" /\ dropped
    /\ manager' = "return"
    /\ UNCHANGED <<outside, d, closer, chan, listener, ends, relaying, copying, shutting>>

\* The deferred calls: close(closer) first, then d.Close().
CloseCloser ==
    /\ manager = "return" /\ ~closer
    /\ closer' = TRUE
    /\ UNCHANGED <<outside, d, chan, manager, listener, ends, relaying, copying, shutting>>

CloseConn ==
    /\ manager = "return" /\ closer
    /\ d' = FALSE /\ manager' = "done"
    /\ UNCHANGED <<outside, closer, chan, listener, ends, relaying, copying, shutting>>
----------------------------------------------------------------------------
(* The listener of NetworkOpen.                                              *)

\* There is a session for the address, or not.
FindSession ==
    /\ listener = "session"
    /\ \E to \in {"opening", "gaveUp"} : listener' = to
    /\ UNCHANGED <<outside, managing, ends, relaying, copying, shutting>>

\* OpenChannel waits for the remote host, which refuses or breaks the connection.
OpenFails ==
    /\ listener = "opening"
    /\ listener' = "gaveUp"
    /\ UNCHANGED <<outside, managing, ends, relaying, copying, shutting>>

\* It confirms, and the loop is started.
Opened ==
    /\ listener = "opening" /\ ~Dead("remote")
    /\ listener' = "making"
    /\ open' = open \cup {"remote"}
    /\ loop' = "run"
    /\ UNCHANGED <<outside, managing, slave, sessConn, asked, exit, copying, shutting>>

\* The ChannelMaker, if there is one and it does not fail, makes the reader that
\* takes the place of the remote channel; the other goroutines are started.
StartProxy ==
    /\ listener = "making"
    /\ slave' \in {"remote", "reader"}
    /\ open' = open \cup ({slave'} \ {"remote"})
    /\ listener' = "run"
    /\ copy' = [s \in Sides |-> "read"]
    /\ shutter' = "wait"
    /\ UNCHANGED <<outside, managing, sessConn, relaying, copyClosed, closes, emitted>>
----------------------------------------------------------------------------
(* The relay loop.                                                           *)

\* replyMaker: without a reply SendRequest does not wait; to a channel closed here
\* it fails at once.  After an exit-status of either side the loop breaks.
RelayRequest(s) ==
    /\ loop = "run" /\ asked[s] > 0
    /\ asked' = [asked EXCEPT ![s] = @ - 1]
    /\ exit' \in BOOLEAN
    /\ \/ loop' = IF exit' THEN "break" ELSE "run"
       \/ Opposite(s) \in open /\ loop' = Opposite(s)
    /\ UNCHANGED <<outside, managing, listener, ends, copying, shutting>>

\* The side the loop waits for answers, or is dead; the asker gets a reply.
RelayReply ==
    /\ loop \in Sides
    /\ loop' = IF exit THEN "break" ELSE "run"
    /\ UNCHANGED <<outside, managing, listener, ends, asked, exit, copying, shutting>>

\* ChanCloser or MaseterCloser is closed, or one of the two request channels is,
\* which a peer may also do in answer to a close.
LoopBreaks ==
    /\ loop = "run"
    /\ closer \/ dropped \/ \E s \in Sides : Dead(s) \/ s \notin open
    /\ loop' = "break"
    /\ UNCHANGED <<outside, managing, listener, ends, asked, exit, copying, shutting>>

LoopCloses ==
    /\ loop = "break"
    /\ open' = open \ {"master", "remote"}
    /\ loop' = "done"
    /\ UNCHANGED <<outside, managing, listener, slave, sessConn, asked, exit, copying,
                   shutting>>
----------------------------------------------------------------------------
(* The copying goroutines: "master" writes to the remote channel and a tap,  *)
(* "remote" reads from wrapSlave and writes to the master and a tap.         *)

\* Bug: the once is only around the close of one of the channels.
CopyDoneTwice(s) ==
    /\ copy' = [copy EXCEPT ![s] = "done"]
    /\ copyClosed' = copyClosed + 1

\* Bug: the copy to the remote host does not close copyState when it ends.
CopyDoneOut(s) ==
    /\ copy' = [copy EXCEPT ![s] = "done"]
    /\ copyClosed' = IF copyClosed = 0 /\ s = "remote" THEN 1 ELSE copyClosed

\* The deferred copyCloser.Do(copyCloseFn).
CopyDone(s) ==
    /\ copy' = [copy EXCEPT ![s] = "done"]
    /\ copyClosed' = IF copyClosed = 0 THEN 1 ELSE copyClosed

Read(s) ==
    /\ copy[s] = "read" /\ ~Over(s) /\ Opposite(s) \in open
    /\ copy' = [copy EXCEPT ![s] = "write"]
    /\ UNCHANGED <<outside, managing, listener, ends, relaying, copyClosed, shutting>>

\* The peer ends its input, or answers a close; a reader of the ChannelMaker ends
\* when it likes.
ReadEnds(s) ==
    /\ copy[s] = "read"
    /\ Over(s) \/ s \notin open \/ (s = "remote" /\ slave = "reader")
    /\ CopyDone(s)
    /\ UNCHANGED <<outside, managing, listener, ends, relaying, shutting>>

\* The peer of the other side has room for what was read.
Written(s) ==
    /\ copy[s] = "write" /\ Opposite(s) \in open /\ ~Dead(Opposite(s))
    /\ copy' = [copy EXCEPT ![s] = "read"]
    /\ UNCHANGED <<outside, managing, listener, ends, relaying, copyClosed, shutting>>

\* The other side is dead, or closed here and its peer answers, or the tap fails;
\* a write that begins after the close fails at once.
WriteFails(s) ==
    /\ copy[s] = "write" \/ (copy[s] = "read" /\ ~Over(s) /\ Opposite(s) \notin open)
    /\ CopyDone(s)
    /\ UNCHANGED <<outside, managing, listener, ends, relaying, shutting>>
----------------------------------------------------------------------------
(* The goroutine that shuts down.                                            *)

\* wrapMaster and wrapSlave: with a reader the remote channel is left to the close
\* of its connection.
ShutChannels ==
    /\ shutter = "wait" /\ copyClosed > 0
    /\ open' = open \ {"master", slave}
    /\ shutter' = "session"
    /\ UNCHANGED <<outside, managing, listener, slave, sessConn, relaying, copying,
                   closes, emitted>>

ShutSession ==
    /\ shutter = "session"
    /\ sessConn' = FALSE
    /\ closes' = closes + 1
    /\ shutter' = "emit"
    /\ UNCHANGED <<outside, managing, listener, slave, open, relaying, copying, emitted>>

\* Bug: NetworkClose is emitted when the shutdown begins.
EmitFirst ==
    /\ shutter \in {"wait", "emit"} /\ copyClosed > 0
    /\ emitted' = 1
    /\ shutter' = IF shutter = "emit" THEN "done" ELSE shutter
    /\ UNCHANGED <<outside, managing, listener, ends, relaying, copying, closes>>

\* The deferred base.NetworkClose.Emit(nc).
EmitClose ==
    /\ shutter = "emit"
    /\ emitted' = emitted + 1
    /\ shutter' = "done"
    /\ UNCHANGED <<outside, managing, listener, ends, relaying, copying, closes>>
----------------------------------------------------------------------------
TakeChannel == \E k \in Chans : RefuseChannel(k) \/ AcceptChannel(k)
Manager == TakeChannel \/ EmitReturns \/ SeeDrop \/ CloseCloser \/ CloseConn
Listener == FindSession \/ OpenFails \/ Opened \/ StartProxy
Loop == (\E s \in Sides : RelayRequest(s)) \/ RelayReply \/ LoopBreaks \/ LoopCloses
Copy(s) == Read(s) \/ ReadEnds(s) \/ Written(s) \/ WriteFails(s)
Shutter == ShutChannels \/ ShutSession \/ EmitClose

Next ==
    \/ \E k \in Chans : Ask(k)
    \/ \E s \in Sides : PeerEnds(s) \/ Request(s) \/ Copy(s)
    \/ Drop \/ Manager \/ Listener \/ Loop \/ Shutter

\* Every goroutine runs, and who waits for a peer that is dead gets an error; what
\* a living peer does it may never do.  A select with several ready cases takes
\* each of them some time: the loop breaks although requests keep coming.
Fairness ==
    /\ WF_vars(Manager) /\ WF_vars(Shutter)
    /\ WF_vars(FindSession) /\ WF_vars(Dead("remote") /\ OpenFails) /\ WF_vars(StartProxy)
    /\ WF_vars(loop \in Sides /\ Dead(loop) /\ RelayReply) /\ WF_vars(LoopCloses)
    /\ SF_vars((closer \/ dropped \/ \E s \in Sides : Dead(s)) /\ LoopBreaks)
    /\ \A s \in Sides : /\ WF_vars(Over(s) /\ ReadEnds(s))
                        /\ WF_vars(Dead(Opposite(s)) /\ WriteFails(s))

Spec == Init /\ [][Next]_vars /\ Fairness
----------------------------------------------------------------------------
TypeOK ==
    /\ inline \in BOOLEAN /\ dropped \in BOOLEAN
    /\ peer \in [Sides -> {"up", "eof", "gone"}]
    /\ d \in BOOLEAN /\ closer \in BOOLEAN /\ sessConn \in BOOLEAN
    /\ chan \in [Chans -> {"none", "asked", "rejected", "broken", "accepted"}]
    /\ manager \in {"loop", "emit", "return", "done"}
    /\ listener \in {"none", "session", "opening", "making", "run", "gaveUp"}
    /\ slave \in {"remote", "reader"} /\ open \subseteq Sides \cup {"reader"}
    /\ asked \in [Sides -> 0 .. MaxRequests] /\ exit \in BOOLEAN
    /\ loop \in {"none", "run", "break", "done"} \cup Sides
    /\ copy \in [Sides -> {"none", "read", "write", "done"}]
    /\ shutter \in {"none", "wait", "session", "emit", "done"}
    /\ listener # "none" <=> \E k \in Chans : chan[k] = "accepted"
    /\ copyClosed \in Nat /\ closes \in Nat /\ emitted \in Nat

\* However the two copies end and whoever ends them, copyState is closed once,
\* the session once, and NetworkClose gets the channel once (lines 219-279).
ShutOnce == copyClosed <= 1 /\ closes <= 1 /\ emitted <= 1

\* Who is told on NetworkClose finds the session and its connection closed, and
\* the channel of the client and what was read on the other side, the remote
\* channel or the reader of the ChannelMaker: the emission is deferred to the
\* end of the shutdown (lines 267-279).  With such a reader nobody need have
\* closed the remote channel itself; its connection is.
ShutBeforeEmit ==
    emitted > 0 => closes = 1 /\ ~sessConn /\ "master" \notin open /\ slave \notin open

\* The copy from side s is blocked in a write to a peer that is not dead.
Held(s) == copy[s] = "write" /\ ~Dead(Opposite(s))

\* Whatever ends first, the client, the remote host, the protocol or the
\* connection, a proxied channel is shut down and NetworkClose is told, also when
\* the loop waits for an answer of the remote host, unless that host takes the
\* client's input no more: while the copy to it is blocked, nobody closes its
\* connection.  The loop, too, outlives the channels only then.  And the
\* connection of a client whose channel was accepted and is not proxied is closed,
\* unless OpenChannel never returns (lines 128-279 and 908).
ProxyEnds ==
    /\ listener = "run" /\ (dropped \/ \E s \in Sides : Over(s))
         ~> emitted = 1 \/ []Held("master")
    /\ loop = "run" ~> loop = "done" \/ [](loop = "remote" /\ Held("master"))
    /\ listener # "none" ~> listener = "run" \/ ~d \/ [](listener = "opening")

\* "SSHProxyProtocol handles the sshprotcol created and proxies all its
\* connection" (lines 38-39): the connection of a client is closed when one of
\* its two ends or the protocol has ended, or nothing could be proxied.
ProxiedWhileWanted ==
    ~d => (\E s \in Sides : peer[s] # "up") \/ exit \/ dropped \/ listener # "run"
============================================================================

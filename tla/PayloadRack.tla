---------------------------- MODULE PayloadRack ----------------------------
(***************************************************************************)
(* One PayloadRack (src/route.go lines 41-107): an unbuffered channel, a     *)
(* sync.Once, a timeout, and the flux actions done and fail.  The goroutines *)
(* that meet on the channel are the one Load starts to send, the one that    *)
(* one starts in turn (the keeper: it collects at once, or waits for the     *)
(* timeout and then takes what is left), and every caller of Release.        *)
(*                                                                           *)
(* A receive is split where Go splits it: a receiver blocks on the channel,  *)
(* meets the sender or finds the channel closed, and only later fulfils an   *)
(* action with what it holds.                                                *)
(***************************************************************************)
EXTENDS Naturals

CONSTANTS Payloads,   \* payloads the callers of Load may pass
          Loaders,    \* goroutines that call Load, once each
          Releasers,  \* goroutines that call Release, once each
          Keeper,     \* the goroutine of line 54 (collect) or line 56 (timer)
          None        \* no payload

ASSUME RackAssumption ==
    /\ None \notin Payloads
    /\ Keeper \notin Releasers

Receivers == Releasers \cup {Keeper}

VARIABLES timeout,   \* "immediate" when p.timeout <= -1, else "timed"
          loading,   \* loading[l]: has loader l called Load
          boxed,     \* the b that the one run of p.once captured
          sender,    \* pc of the goroutine Load starts
          closed,    \* p.payload is closed
          recv,      \* recv[r]: pc of receiver r
          held,      \* held[r]: what receiver r took from the channel
          done,      \* what p.done was fulfilled with
          fail       \* what p.fail was fulfilled with

vars == <<timeout, loading, boxed, sender, closed, recv, held, done, fail>>

SenderPC == {"off", "start", "send", "close", "end"}
RecvPC   == {"idle", "armed", "receiving", "holding", "returned"}

\* NewPayloadRack.
Init ==
    /\ timeout \in {"immediate", "timed"}
    /\ loading = [l \in Loaders |-> FALSE]
    /\ boxed = None
    /\ sender = "off"
    /\ closed = FALSE
    /\ recv = [r \in Receivers |-> "idle"]
    /\ held = [r \in Receivers |-> None]
    /\ done = None
    /\ fail = None

\* p.once.Do runs its function for the first caller only; it captures b and
\* starts the sending goroutine.
RunOnce(b) ==
    IF boxed = None
    THEN boxed' = b /\ sender' = "start"
    ELSE UNCHANGED <<boxed, sender>>

Load(l, b) ==
    /\ ~loading[l]
    /\ loading' = [loading EXCEPT ![l] = TRUE]
    /\ RunOnce(b)
    /\ UNCHANGED <<timeout, closed, recv, held, done, fail>>

\* What the keeper does first: collect at once, or wait for the timeout.
KeeperStart == IF timeout = "immediate" THEN "receiving" ELSE "armed"

\* The sending goroutine starts the keeper and then blocks on p.payload <- b.
StartKeeper ==
    /\ sender = "start"
    /\ sender' = "send"
    /\ recv' = [recv EXCEPT ![Keeper] = KeeperStart]
    /\ UNCHANGED <<timeout, loading, boxed, closed, held, done, fail>>

\* Bug: the timer gives up instead of taking the payload from the channel.
ExpireAndQuit ==
    /\ recv[Keeper] = "armed"
    /\ recv' = [recv EXCEPT ![Keeper] = "returned"]
    /\ UNCHANGED <<timeout, loading, boxed, sender, closed, held, done, fail>>

\* time.After(p.timeout) fires.
Expire ==
    /\ recv[Keeper] = "armed"
    /\ recv' = [recv EXCEPT ![Keeper] = "receiving"]
    /\ UNCHANGED <<timeout, loading, boxed, sender, closed, held, done, fail>>

\* Bug: a caller of Release waits for the timeout before it collects.
ReleaseLate(r) ==
    /\ recv[r] = "idle"
    /\ recv' = [recv EXCEPT ![r] = "armed"]
    /\ UNCHANGED <<timeout, loading, boxed, sender, closed, held, done, fail>>

\* A caller of Release enters collect and blocks on <-p.payload.
Release(r) ==
    /\ recv[r] = "idle"
    /\ recv' = [recv EXCEPT ![r] = "receiving"]
    /\ UNCHANGED <<timeout, loading, boxed, sender, closed, held, done, fail>>

\* Bug: the payload stays on offer after somebody took it.
HandoverToAll(r) ==
    /\ sender = "send"
    /\ recv[r] = "receiving"
    /\ recv' = [recv EXCEPT ![r] = "holding"]
    /\ held' = [held EXCEPT ![r] = boxed]
    /\ UNCHANGED <<timeout, loading, boxed, sender, closed, done, fail>>

\* The sender and one of the blocked receivers meet on the channel.
Handover(r) ==
    /\ sender = "send"
    /\ recv[r] = "receiving"
    /\ sender' = "close"
    /\ recv' = [recv EXCEPT ![r] = "holding"]
    /\ held' = [held EXCEPT ![r] = boxed]
    /\ UNCHANGED <<timeout, loading, boxed, closed, done, fail>>

\* Bug: the channel is left open.
LeaveOpen ==
    /\ sender = "close"
    /\ sender' = "end"
    /\ UNCHANGED <<timeout, loading, boxed, closed, recv, held, done, fail>>

\* close(p.payload).
CloseChannel ==
    /\ sender = "close"
    /\ sender' = "end"
    /\ closed' = TRUE
    /\ UNCHANGED <<timeout, loading, boxed, recv, held, done, fail>>

\* A receive on the closed channel gives !ok: the receiver does nothing more.
Drain(r) ==
    /\ closed
    /\ recv[r] = "receiving"
    /\ recv' = [recv EXCEPT ![r] = "returned"]
    /\ UNCHANGED <<timeout, loading, boxed, sender, closed, held, done, fail>>

\* flux: an action takes the first value it is fulfilled with.
Fullfilled(action, v) == IF action = None THEN v ELSE action

\* Bug: the keeper reports a failure also when it collects for a negative
\* timeout.
IsKeeper(r) == r = Keeper

\* The goroutine of lines 56-62.
IsTimer(r) == r = Keeper /\ timeout = "timed"

\* The receiver that holds the payload fulfils fail when it is the timer,
\* done when it runs collect.
Settle(r) ==
    /\ recv[r] = "holding"
    /\ recv' = [recv EXCEPT ![r] = "returned"]
    /\ IF IsTimer(r)
       THEN fail' = Fullfilled(fail, held[r]) /\ UNCHANGED done
       ELSE done' = Fullfilled(done, held[r]) /\ UNCHANGED fail
    /\ UNCHANGED <<timeout, loading, boxed, sender, closed, held>>

Next ==
    \/ \E l \in Loaders, b \in Payloads : Load(l, b)
    \/ StartKeeper
    \/ Expire
    \/ \E r \in Releasers : Release(r)
    \/ \E r \in Receivers : Handover(r)
    \/ CloseChannel
    \/ \E r \in Receivers : Drain(r)
    \/ \E r \in Receivers : Settle(r)

\* Every goroutine that can run keeps running and time passes; nobody is
\* obliged to call Load or Release.
Fairness ==
    /\ WF_vars(StartKeeper)
    /\ WF_vars(Expire)
    /\ WF_vars(CloseChannel)
    /\ \A r \in Receivers :
         /\ WF_vars(Handover(r))
         /\ WF_vars(Drain(r))
         /\ WF_vars(Settle(r))

Spec == Init /\ [][Next]_vars /\ Fairness
----------------------------------------------------------------------------
TypeOK ==
    /\ timeout \in {"immediate", "timed"}
    /\ loading \in [Loaders -> BOOLEAN]
    /\ boxed \in Payloads \cup {None}
    /\ sender \in SenderPC
    /\ closed \in BOOLEAN
    /\ recv \in [Receivers -> RecvPC]
    /\ \A r \in Releasers : recv[r] # "armed"
    /\ held \in [Receivers -> Payloads \cup {None}]
    /\ done \in Payloads \cup {None}
    /\ fail \in Payloads \cup {None}

\* The race of a release with the timeout has one winner: a payload that was
\* released is never also reported as failed (lines 56-62 against 71-79).
SettledOnce == done = None \/ fail = None

\* Whatever either action is fulfilled with is the payload of the one Load
\* that ran, however many callers raced in Load (line 51).
SettledWithBoxed ==
    /\ done \in {None, boxed}
    /\ fail \in {None, boxed}

\* The note of lines 39-40: a rack with a negative timeout resolves, it never
\* reports a failure.
ImmediateNeverFails == timeout = "immediate" => fail = None

\* A loaded rack is not forgotten: whoever releases it or not, one of its two
\* actions is fulfilled in the end.
LoadSettles == (boxed # None) ~> (done # None \/ fail # None)

\* Release blocks its caller on the channel only until somebody has taken the
\* payload: no caller of Release on a loaded rack is stuck (lines 71-76, 87-90).
ReleaseReturns ==
    \A r \in Releasers :
        (recv[r] = "receiving" /\ boxed # None) ~> (recv[r] = "returned")

\* The rack as its users see it.
Promise == INSTANCE RackPromise WITH kept <- boxed

\* Every step of the goroutines is a step the promise allows, or invisible.
KeepsPromise == Promise!Safety
============================================================================

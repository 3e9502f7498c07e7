---------------------------- MODULE SSHChannel ----------------------------
(***************************************************************************)
(* One accepted channel of the standard channel manager: the loop over its   *)
(* requests (src/sshprotocol.go lines 847-865) and the behaviours that       *)
(* answer them (lines 412-683).  The loop serves each request to the routes  *)
(* in a PayloadRack with timeout -1, which a goroutine of the rack collects  *)
(* at once, in a race with the listeners that release it.  What a listener   *)
(* asked for with When runs where the rack is resolved: in the listener, or  *)
(* in the goroutine of the rack, while the loop is at a later request.       *)
(*                                                                           *)
(* A rack is modelled by what RackPromise says of it, which PayloadRack      *)
(* implements.  Commands, shells and terminals are external; the bytes on    *)
(* the channel are left out.                                                 *)
(***************************************************************************)
EXTENDS Naturals, Sequences, FiniteSets

CONSTANTS Length,         \* bound: the requests a client sends on the channel
          Streams,        \* the sequences of request types it may send
          Installations,  \* the sets of behaviours a server may have
          None

Behaviours == {"refuse", "redirect", "pty", "shell", "window", "exec"}

Requests == 1 .. Length

ASSUME ChannelAssumption ==
    /\ Length \in Nat
    /\ \A s \in Streams : Len(s) = Length
    /\ \A b \in Installations : b \subseteq Behaviours
    /\ None \notin Behaviours

VARIABLES stream,     \* the requests of this channel
          want,       \* those with WantReply
          installed,  \* the behaviours that were added to the server
          racked,     \* the routes have a fail handler, and make racks
          inline,     \* Emit runs the listeners before it returns
          at,         \* the request the loop has reached
          serving,    \* the loop is in Serve
          listening,  \* listening[i]: behaviours that request i has not reached
          rack,       \* rack[i]: "none", "loaded", "held" or "resolved"
          waiting,    \* waiting[i]: behaviours whose function waits for rack i
          asking,     \* asking[i]: who waits for the client's answer to request i,
                      \* which was sent back to it: "none", "listener" or "resolver"
          do,         \* do[i]: the behaviour that ran in the sync.Once of i
          replies,    \* the replies to the client: the request and the answer
          running,    \* requests whose command or shell is running
          started,    \* requests whose command or shell was started
          open,       \* the channel is open
          panicked    \* a behaviour has panicked, and the program ended

setting == <<stream, want, installed, racked, inline>>
vars == <<setting, at, serving, listening, rack, waiting, asking, do, replies,
          running, started, open, panicked>>
loop == <<at, serving>>
deliveries == <<listening, rack, waiting, asking>>
effects == <<do, replies, running, started, panicked>>

\* The behaviours on the root route see every request, the others their own.
Listeners(i) == installed \cap {"refuse", "redirect", stream[i]}

Init ==
    /\ stream \in Streams
    /\ want \in SUBSET Requests
    /\ installed \in Installations
    /\ racked \in BOOLEAN /\ inline \in BOOLEAN
    /\ at = 1 /\ serving = FALSE
    /\ listening = [i \in Requests |-> {}]
    /\ rack = [i \in Requests |-> "none"]
    /\ waiting = [i \in Requests |-> {}]
    /\ asking = [i \in Requests |-> "none"]
    /\ do = [i \in Requests |-> None]
    /\ replies = <<>>
    /\ running = {} /\ started = {}
    /\ open = TRUE /\ panicked = FALSE
----------------------------------------------------------------------------
(* The loop over the requests.                                               *)

\* NewPayloadRack and Load, on the way through the routes.
Serve ==
    /\ ~serving /\ at \in Requests /\ open
    /\ stream[at] # "exit-status"
    /\ serving' = TRUE
    /\ listening' = [listening EXCEPT ![at] = Listeners(at)]
    /\ rack' = IF racked THEN [rack EXCEPT ![at] = "loaded"] ELSE rack
    /\ UNCHANGED <<setting, at, waiting, asking, effects, open>>

\* Bug: the loop goes on whether there was a request or the channel is at its end.
ServeAnyway ==
    /\ serving' = FALSE
    /\ at' = at + 1
    /\ UNCHANGED <<setting, deliveries, effects, open>>

ServeReturns ==
    /\ serving
    /\ inline => listening[at] = {} /\ asking[at] # "listener"
    /\ serving' = FALSE
    /\ at' = at + 1
    /\ UNCHANGED <<setting, deliveries, effects, open>>

\* An exit-status closes the channel and ends the loop.
ExitStatus ==
    /\ ~serving /\ at \in Requests /\ open
    /\ stream[at] = "exit-status"
    /\ at' = Length + 1
    /\ open' = FALSE
    /\ UNCHANGED <<setting, serving, deliveries, effects>>

\* The client closes the channel, or is gone.
ClientCloses ==
    /\ open
    /\ open' = FALSE
    /\ UNCHANGED <<setting, loop, deliveries, effects>>
----------------------------------------------------------------------------
(* What the behaviours do when they get the payload.                         *)

\* Reply does nothing on a request that wants none, and fails on a closed
\* channel.
Reply(i, answer) ==
    replies' = IF i \in want /\ open
               THEN Append(replies, [req |-> i, ok |-> answer]) ELSE replies

Starts(i) == started' = started \cup {i} /\ running' = running \cup {i}

StartsNothing == UNCHANGED <<started, running>>

\* The body of cpay.Do.Do(...) of behaviour b.  Those that read a length or a size
\* from the payload panic when the payload is too short, and nothing recovers.
Body(i, b) ==
    \/ b \in {"pty", "window", "exec"} /\ panicked' = TRUE /\ UNCHANGED replies
       /\ StartsNothing
    \/ /\ UNCHANGED panicked
       /\ \/ b = "refuse" /\ Reply(i, FALSE) /\ StartsNothing
          \/ b \in {"pty", "window"} /\ Reply(i, TRUE) /\ StartsNothing
          \/ b = "shell" /\ (\E ok \in BOOLEAN : Reply(i, ok)) /\ Starts(i)
          \/ b = "exec" /\ Reply(i, TRUE) /\ Starts(i)
          \/ b = "exec" /\ Reply(i, FALSE) /\ StartsNothing
          \/ b = "redirect" /\ (\E ok \in BOOLEAN : Reply(i, ok)) /\ StartsNothing

\* Bug: each behaviour answers for itself.
EnterAnyway(i, b) == do' = [do EXCEPT ![i] = b] /\ Body(i, b)

\* Of the behaviours of a request one gets to run its body.
Enter(i, b) ==
    IF do[i] = None THEN do' = [do EXCEPT ![i] = b] /\ Body(i, b) ELSE UNCHANGED effects

\* The function given to When, in the goroutine of a listener or in the one that
\* resolves the rack.  The redirection first sends the request to the client, and
\* waits for the answer if the client wants one itself.
Act(i, b, where) ==
    IF b = "redirect"
    THEN /\ asking' = IF i \in want THEN [asking EXCEPT ![i] = where] ELSE asking
         /\ UNCHANGED effects
    ELSE UNCHANGED asking /\ Enter(i, b)

\* The client answers, or is gone: the redirection enters the Once to reply.
Redirected(i) ==
    /\ asking[i] # "none"
    /\ asking' = [asking EXCEPT ![i] = "none"]
    /\ Enter(i, "redirect")
    /\ UNCHANGED <<setting, loop, listening, rack, waiting, open>>

\* Bug: a listener that comes too late to release the payload gives up.
ListenOrLeave(i, b) ==
    /\ b \in listening[i]
    /\ inline => asking[i] # "listener"
    /\ listening' = [listening EXCEPT ![i] = @ \ {b}]
    /\ UNCHANGED waiting
    /\ IF rack[i] = "loaded"
       THEN rack' = [rack EXCEPT ![i] = "resolved"] /\ Act(i, b, "listener")
       ELSE UNCHANGED <<rack, asking, effects>>
    /\ UNCHANGED <<setting, loop, open>>

\* A listener gets request i.  Release takes the payload and resolves the rack,
\* or finds it taken; then When runs the function, or leaves it to be run.
\* Listeners that Emit runs itself come one after the other.
Listen(i, b) ==
    /\ b \in listening[i]
    /\ inline => asking[i] # "listener"
    /\ listening' = [listening EXCEPT ![i] = @ \ {b}]
    /\ rack' = IF rack[i] = "loaded" THEN [rack EXCEPT ![i] = "resolved"] ELSE rack
    /\ waiting' = IF rack[i] = "held"
                  THEN [waiting EXCEPT ![i] = @ \cup {b}] ELSE waiting
    /\ IF rack'[i] = "resolved"
       THEN Act(i, b, "listener") ELSE UNCHANGED <<asking, effects>>
    /\ UNCHANGED <<setting, loop, open>>

\* The rack's own goroutine takes the payload ...
Collect(i) ==
    /\ rack[i] = "loaded"
    /\ rack' = [rack EXCEPT ![i] = "held"]
    /\ UNCHANGED <<setting, loop, listening, waiting, asking, effects, open>>

\* ... and resolves the rack with it,
Resolve(i) ==
    /\ rack[i] = "held"
    /\ rack' = [rack EXCEPT ![i] = "resolved"]
    /\ UNCHANGED <<setting, loop, listening, waiting, asking, effects, open>>

\* which runs the functions that wait for it, one after the other.
RunWaiting(i, b) ==
    /\ rack[i] = "resolved" /\ b \in waiting[i]
    /\ asking[i] # "resolver"
    /\ waiting' = [waiting EXCEPT ![i] = @ \ {b}]
    /\ Act(i, b, "resolver")
    /\ UNCHANGED <<setting, loop, listening, rack, open>>

\* A command exits, or one of the two copies of a shell ends: a goroutine of
\* the behaviour closes the channel.
CommandEnds(i) ==
    /\ i \in running
    /\ running' = running \ {i}
    /\ open' = FALSE
    /\ UNCHANGED <<setting, loop, deliveries, do, replies, started, panicked>>
----------------------------------------------------------------------------
Loop == Serve \/ ServeReturns \/ ExitStatus

Deliver(i) ==
    \/ \E b \in Behaviours : Listen(i, b) \/ RunWaiting(i, b)
    \/ Resolve(i)

Next ==
    /\ ~panicked
    /\ \/ Loop \/ ClientCloses
       \/ \E i \in Requests :
            Deliver(i) \/ Redirected(i) \/ Collect(i) \/ CommandEnds(i)

\* The goroutines run; a command or a shell may run for ever, and a client need not
\* answer the request that was sent back to it.
Fairness ==
    /\ WF_vars(~panicked /\ Loop)
    /\ \A i \in Requests : WF_vars(~panicked /\ (Deliver(i) \/ Collect(i)))

Spec == Init /\ [][Next]_vars /\ Fairness
----------------------------------------------------------------------------
TypeOK ==
    /\ stream \in Streams /\ want \subseteq Requests /\ installed \in Installations
    /\ racked \in BOOLEAN /\ inline \in BOOLEAN
    /\ at \in 1 .. Length + 1 /\ serving \in BOOLEAN /\ open \in BOOLEAN
    /\ listening \in [Requests -> SUBSET Behaviours]
    /\ waiting \in [Requests -> SUBSET Behaviours]
    /\ rack \in [Requests -> {"none", "loaded", "held", "resolved"}]
    /\ asking \in [Requests -> {"none", "listener", "resolver"}]
    /\ panicked \in BOOLEAN
    /\ do \in [Requests -> Behaviours \cup {None}]
    /\ replies \in Seq([req : Requests, ok : BOOLEAN])
    /\ running \subseteq started /\ started \subseteq Requests
    /\ \A i \in Requests :
         /\ listening[i] \cup waiting[i] \subseteq Listeners(i)
         /\ do[i] \in Listeners(i) \cup {None}

Answers(i) == {n \in 1 .. Len(replies) : replies[n].req = i}

\* A request gets at most one reply, however many behaviours are on its routes
\* and in whichever goroutines they run: SSH matches replies to requests by
\* their order alone, so that one too many answers the next request.
AnsweredOnce == \A i \in Requests : Cardinality(Answers(i)) <= 1

\* A server that refuses by default answers every request that wants a reply, on
\* a channel that stays open, also one whose rack its own goroutine has taken
\* before any behaviour could release it; unless a redirection waits for ever for
\* the client's answer before it (line 462), or a short payload ended the program.
AllAnswered ==
    \A i \in Requests :
        rack[i] # "none" /\ i \in want /\ "refuse" \in installed
          ~> ~open \/ Answers(i) # {} \/ panicked \/ [](asking[i] # "none")
============================================================================

-------------------------- MODULE SSHChannelProofs --------------------------
(***************************************************************************)
(* A request is answered at most once, for any streams of any length and any *)
(* installations.  A reply is sent only by the behaviour that has entered    *)
(* the Once of its request: ChannelInv adds to the types that what is        *)
(* answered was done, that no two replies are to one request, that the loop  *)
(* serves a request there is, and that only a server that redirects sends a  *)
(* request back.                                                             *)
(*                                                                           *)
(* A line of up to 251 bytes of a command on a channel runs whole, and       *)
(* nothing but a longer one ends the server, for every set of lengths and    *)
(* any number of users and dials.  LineEnd is the arithmetic of the one      *)
(* byte; CommandInv adds that a user has a session only after it has begun,  *)
(* so that the length of its line does not change under a command.           *)
(***************************************************************************)
EXTENDS SSHChannel, SSHCommand, FiniteSetTheorems, SequenceTheorems, TLAPS

\* What was answered was done, and no request was answered twice.
RepliesOK ==
    /\ \A n \in 1 .. Len(replies) : do[replies[n].req] # None
    /\ \A m, n \in 1 .. Len(replies) : replies[m].req = replies[n].req => m = n

\* The loop serves a request of the channel.
LoopOK == serving => at \in Requests

\* The redirection is one of the behaviours, where it waits for an answer.
AskingOK == \A i \in Requests : asking[i] # "none" => "redirect" \in Listeners(i)

ChannelInv == TypeOK /\ RepliesOK /\ LoopOK /\ AskingOK

LEMMA InstalledBehaviours ==
    ASSUME installed \in Installations, NEW i
    PROVE  Listeners(i) \subseteq Behaviours
BY ChannelAssumption DEF ChannelAssumption, Listeners

LEMMA InitChannelInv == Init => ChannelInv
<1> SUFFICES ASSUME Init
             PROVE  ChannelInv
    OBVIOUS
<1> USE ChannelAssumption DEF ChannelAssumption, Init, Requests
<1>1. replies \in Seq([req : Requests, ok : BOOLEAN]) /\ Len(replies) = 0
    OBVIOUS
<1>2. serving \in BOOLEAN /\ open \in BOOLEAN /\ panicked \in BOOLEAN
    BY Zenon
<1>3. TypeOK
    BY <1>1, <1>2 DEF TypeOK
<1>4. QED BY <1>1, <1>3 DEF ChannelInv, RepliesOK, LoopOK, AskingOK

LEMMA ReplyToRequest ==
    ASSUME replies \in Seq([req : Requests, ok : BOOLEAN]), NEW n \in 1 .. Len(replies)
    PROVE  replies[n].req \in Requests
<1>1. replies[n] \in [req : Requests, ok : BOOLEAN]
    BY ElementOfSeq
<1>2. QED BY <1>1

\* A body of a behaviour replies once or not, to its own request.
LEMMA BodyReplies ==
    ASSUME NEW i \in Requests, NEW b, Body(i, b)
    PROVE  \/ replies' = replies
           \/ \E ok \in BOOLEAN : replies' = Append(replies, [req |-> i, ok |-> ok])
BY DEF Body, Reply

\* A body of a behaviour starts its request or nothing, and may panic.
LEMMA BodyStarts ==
    ASSUME NEW i \in Requests, NEW b, Body(i, b), panicked \in BOOLEAN,
           running \subseteq started, started \subseteq Requests
    PROVE  /\ running' \subseteq started' /\ started' \subseteq Requests
           /\ panicked' \in BOOLEAN
<1>1. running' \subseteq started' /\ started' \subseteq Requests
    BY DEF Body, Starts, StartsNothing
<1>2. panicked' = TRUE \/ panicked' = panicked
    BY DEF Body
<1>3. panicked' \in BOOLEAN
    BY ONLY <1>2, panicked \in BOOLEAN, Zenon
<1>4. QED BY <1>1, <1>3

\* What the behaviours may do to the Once and to the replies.
EffectsOK ==
    /\ do' \in [Requests -> Behaviours \cup {None}]
    /\ \A j \in Requests : do'[j] \in Listeners(j) \cup {None}
    /\ replies' \in Seq([req : Requests, ok : BOOLEAN])
    /\ running' \subseteq started' /\ started' \subseteq Requests
    /\ panicked' \in BOOLEAN
    /\ RepliesOK'

\* What no behaviour touches.
LEMMA EffectsStay ==
    ASSUME TypeOK, RepliesOK, UNCHANGED effects
    PROVE  EffectsOK
<1>1. panicked' \in BOOLEAN
    BY Zenon DEF effects, TypeOK
<1>2. QED BY <1>1 DEF effects, EffectsOK, TypeOK, RepliesOK

LEMMA EnterOK ==
    ASSUME TypeOK, RepliesOK, NEW i \in Requests, NEW b \in Listeners(i), Enter(i, b)
    PROVE  EffectsOK
<1>1. b \in Behaviours /\ b # None
    BY InstalledBehaviours, ChannelAssumption DEF TypeOK, ChannelAssumption
<1>2. CASE do[i] = None
    <2>1. do' = [do EXCEPT ![i] = b] /\ Body(i, b)
        BY <1>2 DEF Enter
    <2>2. do' \in [Requests -> Behaviours \cup {None}]
        BY <1>1, <2>1 DEF TypeOK
    <2>3. \A j \in Requests : do'[j] \in Listeners(j) \cup {None}
        BY <2>1 DEF TypeOK
    <2>4. /\ running' \subseteq started' /\ started' \subseteq Requests
          /\ panicked' \in BOOLEAN
        <3>1. /\ panicked \in BOOLEAN
              /\ running \subseteq started /\ started \subseteq Requests
            BY Zenon DEF TypeOK
        <3>2. QED BY ONLY <3>1, <2>1, BodyStarts, Zenon
    <2>5. \A j \in Requests : do[j] # None => do'[j] # None
        BY <1>2, <2>1 DEF TypeOK
    <2>6. do'[i] # None
        BY <1>1, <2>1 DEF TypeOK
    <2>7. ASSUME replies' = replies
          PROVE  replies' \in Seq([req : Requests, ok : BOOLEAN]) /\ RepliesOK'
        <3>1. \A n \in 1 .. Len(replies) : replies[n].req \in Requests
            BY ReplyToRequest DEF TypeOK
        <3>2. QED BY <2>5, <2>7, <3>1 DEF TypeOK, RepliesOK
    <2>8. ASSUME NEW ok \in BOOLEAN, replies' = Append(replies, [req |-> i, ok |-> ok])
          PROVE  replies' \in Seq([req : Requests, ok : BOOLEAN]) /\ RepliesOK'
        <3> DEFINE r == [req |-> i, ok |-> ok]
        <3>1. replies \in Seq([req : Requests, ok : BOOLEAN])
              /\ r \in [req : Requests, ok : BOOLEAN]
            BY DEF TypeOK
        <3>2. replies' \in Seq([req : Requests, ok : BOOLEAN])
            BY <2>8, <3>1
        <3>3. /\ Len(replies') = Len(replies) + 1
              /\ \A n \in 1 .. Len(replies) : replies'[n] = replies[n]
              /\ replies'[Len(replies) + 1] = r
            BY <2>8, <3>1
        <3>4. \A n \in 1 .. Len(replies) : replies[n].req \in Requests /\ replies[n].req # i
            BY <1>2, <3>1, ReplyToRequest DEF RepliesOK
        <3>5. \A n \in 1 .. Len(replies') : do'[replies'[n].req] # None
            BY <2>5, <2>6, <3>1, <3>3, <3>4 DEF RepliesOK
        <3>6. \A m, n \in 1 .. Len(replies') :
                replies'[m].req = replies'[n].req => m = n
            BY <3>1, <3>3, <3>4 DEF RepliesOK
        <3>7. QED BY <3>2, <3>5, <3>6 DEF RepliesOK
    <2>9. replies' \in Seq([req : Requests, ok : BOOLEAN]) /\ RepliesOK'
        BY <2>1, <2>7, <2>8, BodyReplies
    <2>10. QED BY <2>2, <2>3, <2>4, <2>9, Zenon DEF EffectsOK
<1>3. CASE do[i] # None
    BY <1>3, EffectsStay DEF Enter
<1>4. QED BY <1>2, <1>3

\* What a function given to When may do, and whom a request may be sent back for.
LEMMA ActOK ==
    ASSUME TypeOK, RepliesOK, AskingOK, NEW i \in Requests, NEW b \in Listeners(i),
           NEW where \in {"listener", "resolver"}, Act(i, b, where), UNCHANGED setting
    PROVE  /\ EffectsOK
           /\ asking' \in [Requests -> {"none", "listener", "resolver"}]
           /\ AskingOK'
<1>1. CASE b = "redirect"
    <2>1. EffectsOK
        BY <1>1, EffectsStay DEF Act
    <2>2. asking' \in [Requests -> {"none", "listener", "resolver"}]
        BY <1>1 DEF Act, TypeOK
    <2>3. \A j \in Requests : asking'[j] # "none" => asking[j] # "none" \/ j = i
        BY <1>1 DEF Act, TypeOK
    <2>4. \A j : Listeners(j)' = Listeners(j)
        BY DEF Listeners, setting
    <2>5. AskingOK'
        BY <1>1, <2>3, <2>4 DEF AskingOK
    <2>6. QED BY <2>1, <2>2, <2>5
<1>2. CASE b # "redirect"
    <2>1. EffectsOK
        BY <1>2, EnterOK DEF Act
    <2>2. asking' = asking
        BY <1>2 DEF Act
    <2>3. \A j : Listeners(j)' = Listeners(j)
        BY DEF Listeners, setting
    <2>4. QED BY <2>1, <2>2, <2>3 DEF TypeOK, AskingOK
<1>3. QED BY <1>1, <1>2

\* The types, from those of the parts a step changes.
LEMMA TypesStay ==
    ASSUME TypeOK, EffectsOK, UNCHANGED setting,
           at' \in 1 .. Length + 1, serving' \in BOOLEAN, open' \in BOOLEAN,
           rack' \in [Requests -> {"none", "loaded", "held", "resolved"}],
           asking' \in [Requests -> {"none", "listener", "resolver"}],
           listening' \in [Requests -> SUBSET Behaviours],
           waiting' \in [Requests -> SUBSET Behaviours],
           \A j \in Requests : listening'[j] \cup waiting'[j] \subseteq Listeners(j)
    PROVE  TypeOK'
<1>1. \A j : Listeners(j)' = Listeners(j)
    BY DEF Listeners, setting
<1>2. /\ stream' \in Streams /\ want' \subseteq Requests /\ installed' \in Installations
      /\ racked' \in BOOLEAN /\ inline' \in BOOLEAN
    BY Zenon DEF TypeOK, setting
<1>3. QED BY <1>1, <1>2, Zenon DEF TypeOK, EffectsOK

\* What no redirection touches.
LEMMA AskingStays ==
    ASSUME AskingOK, UNCHANGED <<setting, asking>>
    PROVE  AskingOK'
BY DEF AskingOK, Listeners, setting

LEMMA NextChannelInv == ChannelInv /\ [Next]_vars => ChannelInv'
<1> SUFFICES ASSUME ChannelInv, [Next]_vars
             PROVE  ChannelInv'
    OBVIOUS
<1> USE DEF ChannelInv, loop, deliveries
<1>0. /\ at \in 1 .. Length + 1 /\ serving \in BOOLEAN /\ open \in BOOLEAN
      /\ rack \in [Requests -> {"none", "loaded", "held", "resolved"}]
      /\ asking \in [Requests -> {"none", "listener", "resolver"}]
      /\ listening \in [Requests -> SUBSET Behaviours]
      /\ waiting \in [Requests -> SUBSET Behaviours]
      /\ \A j \in Requests : listening[j] \cup waiting[j] \subseteq Listeners(j)
    BY Zenon DEF TypeOK
<1>1. CASE Serve
    <2>1. at \in Requests /\ Listeners(at) \subseteq Behaviours
        BY <1>1, InstalledBehaviours DEF Serve, TypeOK
    <2>2. /\ rack' \in [Requests -> {"none", "loaded", "held", "resolved"}]
          /\ listening' \in [Requests -> SUBSET Behaviours]
          /\ \A j \in Requests : listening'[j] \cup waiting[j] \subseteq Listeners(j)
        BY <1>0, <1>1, <2>1 DEF Serve
    <2>3. UNCHANGED <<setting, at, waiting, asking, effects, open>> /\ serving' = TRUE
        BY <1>1 DEF Serve
    <2>4. serving' \in BOOLEAN
        BY ONLY <2>3, Zenon
    <2>5. TypeOK'
        BY <1>0, <2>2, <2>3, <2>4, EffectsStay, TypesStay
    <2>6. RepliesOK' /\ AskingOK'
        BY <2>3, EffectsStay, AskingStays DEF EffectsOK
    <2>7. LoopOK'
        BY <2>1, <2>3 DEF LoopOK
    <2>8. QED BY <2>5, <2>6, <2>7
<1>2. CASE ServeReturns
    <2>1. /\ UNCHANGED <<setting, deliveries, effects, open>>
          /\ serving' = FALSE /\ at' = at + 1 /\ at \in 1 .. Length
        BY <1>2 DEF ServeReturns, LoopOK, Requests
    <2>2. serving' \in BOOLEAN
        BY ONLY <2>1, Zenon
    <2>3. at' \in 1 .. Length + 1
        BY <2>1, ChannelAssumption DEF ChannelAssumption
    <2>4. TypeOK'
        BY <1>0, <2>1, <2>2, <2>3, EffectsStay, TypesStay
    <2>5. QED BY <2>1, <2>4, EffectsStay, AskingStays DEF EffectsOK, LoopOK
<1>3. CASE ExitStatus
    <2>1. /\ UNCHANGED <<setting, serving, deliveries, effects>>
          /\ open' = FALSE /\ at' = Length + 1 /\ ~serving
        BY <1>3 DEF ExitStatus
    <2>2. open' \in BOOLEAN
        BY ONLY <2>1, Zenon
    <2>3. at' \in 1 .. Length + 1
        BY <2>1, ChannelAssumption DEF ChannelAssumption
    <2>4. TypeOK'
        BY <1>0, <2>1, <2>2, <2>3, EffectsStay, TypesStay
    <2>5. QED BY <2>1, <2>4, EffectsStay, AskingStays DEF EffectsOK, LoopOK
<1>4. CASE ClientCloses
    <2>1. UNCHANGED <<setting, loop, deliveries, effects>> /\ open' = FALSE
        BY <1>4 DEF ClientCloses
    <2>2. open' \in BOOLEAN
        BY ONLY <2>1, Zenon
    <2>3. TypeOK'
        BY <1>0, <2>1, <2>2, EffectsStay, TypesStay
    <2>4. QED BY <2>1, <2>3, EffectsStay, AskingStays DEF EffectsOK, LoopOK
<1>5. ASSUME NEW i \in Requests, NEW b \in Behaviours, Listen(i, b)
      PROVE  ChannelInv'
    <2>1. UNCHANGED <<setting, loop, open>> /\ b \in Listeners(i)
        BY <1>0, <1>5 DEF Listen
    <2>2. /\ EffectsOK
          /\ asking' \in [Requests -> {"none", "listener", "resolver"}]
          /\ AskingOK'
        <3>1. CASE rack'[i] = "resolved"
            BY <1>5, <2>1, <3>1, ActOK DEF Listen
        <3>2. CASE rack'[i] # "resolved"
            BY <1>0, <1>5, <2>1, <3>2, EffectsStay, AskingStays DEF Listen
        <3>3. QED BY <3>1, <3>2
    <2>3. /\ rack' \in [Requests -> {"none", "loaded", "held", "resolved"}]
          /\ listening' \in [Requests -> SUBSET Behaviours]
          /\ waiting' \in [Requests -> SUBSET Behaviours]
          /\ \A j \in Requests : listening'[j] \cup waiting'[j] \subseteq Listeners(j)
        BY <1>0, <1>5 DEF Listen
    <2>4. TypeOK'
        BY <1>0, <2>1, <2>2, <2>3, TypesStay
    <2>5. QED BY <2>1, <2>2, <2>4 DEF EffectsOK, LoopOK
<1>6. ASSUME NEW i \in Requests, NEW b \in Behaviours, RunWaiting(i, b)
      PROVE  ChannelInv'
    <2>1. UNCHANGED <<setting, loop, listening, rack, open>> /\ b \in Listeners(i)
        BY <1>0, <1>6 DEF RunWaiting
    <2>2. /\ EffectsOK
          /\ asking' \in [Requests -> {"none", "listener", "resolver"}]
          /\ AskingOK'
        BY <1>6, <2>1, ActOK DEF RunWaiting
    <2>3. /\ waiting' \in [Requests -> SUBSET Behaviours]
          /\ \A j \in Requests : waiting'[j] \subseteq waiting[j]
        BY <1>0, <1>6 DEF RunWaiting
    <2>4. TypeOK'
        BY <1>0, <2>1, <2>2, <2>3, TypesStay
    <2>5. QED BY <2>1, <2>2, <2>4 DEF EffectsOK, LoopOK
<1>7. ASSUME NEW i \in Requests, Collect(i) \/ Resolve(i)
      PROVE  ChannelInv'
    <2>1. UNCHANGED <<setting, loop, listening, waiting, asking, effects, open>>
        BY <1>7 DEF Collect, Resolve
    <2>2. rack' \in [Requests -> {"none", "loaded", "held", "resolved"}]
        BY <1>0, <1>7 DEF Collect, Resolve
    <2>3. TypeOK'
        BY <1>0, <2>1, <2>2, EffectsStay, TypesStay
    <2>4. QED BY <2>1, <2>3, EffectsStay, AskingStays DEF EffectsOK, LoopOK
<1>8. ASSUME NEW i \in Requests, CommandEnds(i)
      PROVE  ChannelInv'
    <2>1. /\ UNCHANGED <<setting, loop, deliveries, do, replies, started, panicked>>
          /\ open' = FALSE /\ running' \subseteq running
        BY <1>8 DEF CommandEnds
    <2>2. open' \in BOOLEAN
        BY ONLY <2>1, Zenon
    <2>3. panicked' \in BOOLEAN
        BY <2>1, Zenon DEF TypeOK
    <2>4. EffectsOK
        BY <2>1, <2>3 DEF EffectsOK, TypeOK, RepliesOK
    <2>5. TypeOK'
        BY <1>0, <2>1, <2>2, <2>4, TypesStay
    <2>6. QED BY <2>1, <2>4, <2>5, AskingStays DEF EffectsOK, LoopOK
<1>9. ASSUME NEW i \in Requests, Redirected(i)
      PROVE  ChannelInv'
    <2>1. /\ UNCHANGED <<setting, loop, listening, rack, waiting, open>>
          /\ "redirect" \in Listeners(i)
          /\ asking' = [asking EXCEPT ![i] = "none"]
        BY <1>9 DEF Redirected, AskingOK
    <2>2. EffectsOK
        BY <1>9, <2>1, EnterOK DEF Redirected
    <2>3. asking' \in [Requests -> {"none", "listener", "resolver"}]
        BY <1>0, <2>1
    <2>4. TypeOK'
        BY <1>0, <2>1, <2>2, <2>3, TypesStay
    <2>5. \A j : Listeners(j)' = Listeners(j)
        BY <2>1 DEF Listeners, setting
    <2>6. AskingOK'
        BY <1>0, <2>1, <2>5 DEF AskingOK
    <2>7. QED BY <2>1, <2>2, <2>4, <2>6 DEF EffectsOK, LoopOK
<1>10. CASE UNCHANGED vars
    <2>1. UNCHANGED <<setting, loop, deliveries, effects, open>>
        BY <1>10 DEF vars, effects
    <2>2. TypeOK'
        BY <1>0, <2>1, EffectsStay, TypesStay
    <2>3. QED BY <2>1, <2>2, EffectsStay, AskingStays DEF EffectsOK, LoopOK
<1>11. QED
    BY <1>1, <1>2, <1>3, <1>4, <1>5, <1>6, <1>7, <1>8, <1>9, <1>10
    DEF Next, Loop, Deliver

\* The inductive invariant holds throughout every run.
THEOREM ChannelInvariant == Spec => []ChannelInv
<1>1. QED BY InitChannelInv, NextChannelInv, PTL DEF Spec

\* The variables keep their types; only behaviours that were added to the server
\* and listen for a request get it or act on it.
THEOREM ChannelTypes == Spec => []TypeOK
<1>1. ChannelInv => TypeOK
    BY DEF ChannelInv
<1>2. QED BY <1>1, ChannelInvariant, PTL

LEMMA InvAnsweredOnce == ChannelInv => AnsweredOnce
<1> SUFFICES ASSUME ChannelInv, NEW i \in Requests
             PROVE  Cardinality(Answers(i)) <= 1
    BY DEF AnsweredOnce
<1>1. CASE Answers(i) = {}
    BY <1>1, FS_EmptySet
<1>2. ASSUME NEW n \in Answers(i)
      PROVE  Cardinality(Answers(i)) <= 1
    <2>1. \A m \in Answers(i) : m = n
        BY <1>2 DEF ChannelInv, RepliesOK, Answers
    <2>2. Answers(i) = {n}
        BY <1>2, <2>1
    <2>3. Cardinality({n}) = 1
        BY FS_Singleton
    <2>4. QED BY <2>2, <2>3
<1>3. QED BY <1>1, <1>2

\* src/sshprotocol.go lines 412-683: however many behaviours listen, one reply.
THEOREM ChannelAnswersOnce == Spec => []AnsweredOnce
<1>1. QED BY InvAnsweredOnce, ChannelInvariant, PTL

----------------------------------------------------------------------------
(* Commands.                                                                 *)

\* The byte End counts as it should up to 251, and wraps only beyond.
LEMMA LineEnd ==
    ASSUME NEW n \in Nat
    PROVE  /\ End(n) \in 0 .. 255
           /\ n < 252 => End(n) = n + 4
           /\ End(n) < 4 => n > 251
<1>1. CASE n < 252
    <2>1. n % 256 = n
        BY <1>1
    <2>2. (n + 4) % 256 = n + 4
        BY <1>1
    <2>3. QED BY <1>1, <2>1, <2>2 DEF End
<1>2. CASE ~(n < 252)
    BY <1>2 DEF End
<1>3. QED BY <1>1, <1>2

\* Where a user is when it has a session.
HasSession(u) ==
    /\ pc[u] \in {"run", "close", "done"} => chan[u] # "none"
    /\ pc[u] \in {"idle", "session", "error", "files"} => chan[u] = "none"

CommandInv ==
    /\ CommandTypeOK
    /\ \A u \in Users : HasSession(u)
    /\ \A u \in Users : cmd[u] \in {"running", "exited"} /\ len[u] < 252 => ran[u] = len[u]
    /\ crashed => \E u \in Users : pc[u] # "idle" /\ len[u] > 251

\* The length of a line, or of none.
LEMMA LengthIsNat ==
    ASSUME NEW n \in {0} \cup Lengths
    PROVE  n \in Nat
BY CommandAssumption DEF CommandAssumption

LEMMA InitCommandInv == CommandInit => CommandInv
<1> SUFFICES ASSUME CommandInit
             PROVE  CommandInv
    OBVIOUS
<1> USE CommandAssumption DEF CommandAssumption, CommandInit, Zero, Dials
<1>1. /\ conn \in 0 .. dials /\ dials \in 0 .. MaxDials
      /\ up \cup dropped \subseteq 1 .. dials
    OBVIOUS
<1>2. ran \in [Users -> 0 .. 251]
    OBVIOUS
<1>3. over \in [Users -> {0} \cup Dials] /\ len \in [Users -> {0} \cup Lengths]
    OBVIOUS
<1>4. CommandTypeOK
    BY <1>1, <1>2, <1>3 DEF CommandTypeOK
<1>5. QED BY <1>4 DEF CommandInv, HasSession

LEMMA NextCommandInv == CommandInv /\ [CommandNext]_commandVars => CommandInv'
<1> SUFFICES ASSUME CommandInv, [CommandNext]_commandVars
             PROVE  CommandInv'
    OBVIOUS
<1> USE CommandAssumption
    DEF CommandAssumption, CommandInv, CommandTypeOK, HasSession, Dials, link, server
<1>1. ASSUME NEW ok \in BOOLEAN, Dial(ok)
      PROVE  CommandInv'
    BY <1>1 DEF Dial
<1>2. CASE Drop
    BY <1>2 DEF Drop
<1>3. ASSUME NEW c \in Dials, Breaks(c)
      PROVE  CommandInv'
    BY <1>3 DEF Breaks
<1>4. ASSUME NEW u \in Users, NEW n \in Lengths, Command(u, n)
      PROVE  CommandInv'
    BY <1>4 DEF Command, Goes
<1>5. ASSUME NEW u \in Users, NewSession(u)
      PROVE  CommandInv'
    BY <1>5 DEF NewSession, Panics, Goes
<1>6. ASSUME NEW u \in Users, FS(u)
      PROVE  CommandInv'
    BY <1>6 DEF FS, Panics, Goes
<1>7. ASSUME NEW u \in Users, RunReturns(u)
      PROVE  CommandInv'
    BY <1>7 DEF RunReturns, Goes
<1>8. ASSUME NEW u \in Users, CloseSession(u)
      PROVE  CommandInv'
    BY <1>8 DEF CloseSession, Goes
<1>9. ASSUME NEW u \in Users, Exec(u)
      PROVE  CommandInv'
    <2> DEFINE n == len[u]
    <2>0. n \in Nat
        BY LengthIsNat
    <2>1. /\ End(n) \in 0 .. 255
          /\ n < 252 => End(n) = n + 4
          /\ End(n) < 4 => n > 251
        BY <2>0, LineEnd
    <2> HIDE DEF n
    <2>2. CASE End(n) < 4
        BY <1>9, <2>0, <2>1, <2>2 DEF Exec, n
    <2>3. CASE ~(End(n) < 4)
        BY <1>9, <2>0, <2>1, <2>3 DEF Exec, n
    <2>4. QED BY <2>2, <2>3
<1>10. ASSUME NEW u \in Users, Exits(u)
       PROVE  CommandInv'
    BY <1>10 DEF Exits
<1>11. ASSUME NEW u \in Users, WaitAndClose(u)
       PROVE  CommandInv'
    BY <1>11 DEF WaitAndClose
<1>12. CASE UNCHANGED commandVars
    BY <1>12 DEF commandVars
<1>13. QED
    BY <1>1, <1>2, <1>3, <1>4, <1>5, <1>6, <1>7, <1>8, <1>9, <1>10, <1>11, <1>12
    DEF CommandNext, User

\* The inductive invariant holds throughout every run.
THEOREM CommandInvariant == CommandSpec => []CommandInv
<1>1. QED BY InitCommandInv, NextCommandInv, PTL DEF CommandSpec

\* The variables keep their types, a session is over a connection and a command
\* in a session.
THEOREM CommandTypes == CommandSpec => []CommandTypeOK
<1>1. CommandInv => CommandTypeOK
    BY DEF CommandInv
<1>2. QED BY <1>1, CommandInvariant, PTL

\* src/sshprotocol.go line 648: a line of up to 251 bytes runs whole.
THEOREM CommandRunsWhole == CommandSpec => []LineRunsWhole
<1>1. CommandInv => LineRunsWhole
    BY DEF CommandInv, LineRunsWhole
<1>2. QED BY <1>1, CommandInvariant, PTL
=============================================================================

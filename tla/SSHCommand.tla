---------------------------- MODULE SSHCommand ----------------------------
(***************************************************************************)
(* A command over SSH, end to end: SSHProtocolLink (src/sshlink.go) composed *)
(* with the exec behaviour of the server (src/sshprotocol.go lines 623-683). *)
(* One owner dials and drops the link while its users run commands on it;    *)
(* link.conn is read and written without a lock.  Connections are numbered   *)
(* in the order of the dials, 0 is nil.                                      *)
(*                                                                           *)
(* The actions of flux run what is chained on a request before the function  *)
(* that closes its session, as src/httplink.go lines 54-55 say; a command is *)
(* known by the length of its line, and its output is left out.              *)
(*                                                                           *)
(* A command runs on a channel of SSHChannel; what both modules would name   *)
(* alike has the prefix Command here, so that one module can extend both.    *)
(***************************************************************************)
EXTENDS Naturals

CONSTANTS Users,     \* goroutines that use the link
          Lengths,   \* lengths, in bytes, of the lines they run
          MaxDials   \* bound: calls of Dial

ASSUME CommandAssumption ==
    /\ Lengths \subseteq Nat \ {0}
    /\ MaxDials \in Nat

VARIABLES conn,     \* the connection in the link
          dials,    \* calls of Dial so far
          up,       \* the connections that are open
          dropped,  \* those that Drop was called on
          able,     \* the server has a terminal and a fail handler for the channel
          crashed,  \* the server has panicked
          pc,       \* where a user is
          over,     \* the connection of its session
          len,      \* the length of its line
          chan,     \* the server's end of its session: "none", "open" or "closed"
          cmd,      \* "none", "refused", "running" or "exited"
          ran       \* the length of the line the shell was given

link == <<conn, dials, up, dropped>>
server == <<able, crashed, chan, cmd, ran>>
commandVars == <<link, server, pc, over, len>>

Dials == 1 .. MaxDials

Zero == [u \in Users |-> 0]

CommandInit ==
    /\ conn = 0 /\ dials = 0 /\ up = {} /\ dropped = {}
    /\ able \in BOOLEAN /\ crashed = FALSE
    /\ pc = [u \in Users |-> "idle"]
    /\ over = Zero /\ len = Zero /\ ran = Zero
    /\ chan = [u \in Users |-> "none"]
    /\ cmd = [u \in Users |-> "none"]
----------------------------------------------------------------------------
(* The owner of the link, and the network.                                   *)

Alive == \A u \in Users : pc[u] # "panicked"

\* What Dial gets goes into the link, also nil over a connection that is open.
Dial(ok) ==
    /\ Alive /\ dials < MaxDials
    /\ ok => ~crashed
    /\ dials' = dials + 1
    /\ conn' = IF ok THEN dials' ELSE 0
    /\ up' = IF ok THEN up \cup {dials'} ELSE up
    /\ UNCHANGED <<dropped, server, pc, over, len>>

\* Bug: Drop forgets the connection and does not close it.
Forget ==
    /\ Alive /\ conn # 0
    /\ dropped' = dropped \cup {conn}
    /\ conn' = 0
    /\ UNCHANGED <<dials, up, server, pc, over, len>>

\* Drop closes the connection and leaves it in the link.
Drop ==
    /\ Alive /\ conn # 0
    /\ dropped' = dropped \cup {conn}
    /\ up' = up \ {conn}
    /\ UNCHANGED <<conn, dials, server, pc, over, len>>

Breaks(c) ==
    /\ c \in up
    /\ up' = up \ {c}
    /\ UNCHANGED <<conn, dials, dropped, server, pc, over, len>>
----------------------------------------------------------------------------
(* A user: Command, and the session it gets from Request.                    *)

Goes(u, from, to) ==
    /\ pc[u] = from
    /\ pc' = [pc EXCEPT ![u] = to]

\* A nil connection is used: the program of the client ends.
Panics ==
    /\ pc' = [v \in Users |-> "panicked"]
    /\ up' = {}
    /\ UNCHANGED <<conn, dials, dropped, server, over, len>>

Command(u, n) ==
    /\ Goes(u, "idle", IF conn = 0 THEN "error" ELSE "session")
    /\ len' = [len EXCEPT ![u] = n]
    /\ UNCHANGED <<link, server, over>>

\* Bug: a session that cannot be opened is run as if it was.
SessionAnyway(u) ==
    /\ Goes(u, "session", "run")
    /\ over' = [over EXCEPT ![u] = conn]
    /\ chan' = [chan EXCEPT ![u] = "open"]
    /\ UNCHANGED <<link, able, crashed, cmd, ran, len>>

\* The link's connection is read again for h.conn.NewSession().
NewSession(u) ==
    \/ pc[u] = "session" /\ conn = 0 /\ Panics
    \/ /\ conn # 0 /\ Goes(u, "session", "error")
       /\ UNCHANGED <<link, server, over, len>>
    \/ /\ conn \in up /\ Goes(u, "session", "run")
       /\ over' = [over EXCEPT ![u] = conn]
       /\ chan' = [chan EXCEPT ![u] = "open"]
       /\ UNCHANGED <<link, able, crashed, cmd, ran, len>>

\* FS uses the connection without a look at it.
FS(u) ==
    \/ pc[u] = "idle" /\ conn = 0 /\ Panics
    \/ /\ conn # 0
       /\ \/ Goes(u, "idle", "error")
          \/ conn \in up /\ Goes(u, "idle", "files")
       /\ UNCHANGED <<link, server, over, len>>

Lost(u) == over[u] \notin up

\* s.Run(cmd) ends with an error or without, and Command does not look which.
RunReturns(u) ==
    /\ Goes(u, "run", "close")
    /\ Lost(u) \/ cmd[u] = "refused" \/ chan[u] = "closed"
    /\ UNCHANGED <<link, server, over, len>>

CloseSession(u) ==
    /\ Goes(u, "close", "done")
    /\ chan' = [chan EXCEPT ![u] = "closed"]
    /\ UNCHANGED <<link, able, crashed, cmd, ran, over, len>>
----------------------------------------------------------------------------
(* The server: the exec behaviour, the command and its goroutines.           *)

\* Bug: the four bytes before the line are not counted.
EndOfBytes(n) == n % 256

\* Payload[3] + 4, in a byte: where the line ends that begins at 4.
End(n) == ((n % 256) + 4) % 256

Exec(u) ==
    /\ able /\ ~Lost(u) /\ chan[u] = "open" /\ cmd[u] = "none"
    /\ IF End(len[u]) < 4
       THEN /\ crashed' = TRUE /\ up' = {}
            /\ UNCHANGED <<cmd, ran>>
       ELSE /\ \/ /\ cmd' = [cmd EXCEPT ![u] = "running"]
                  /\ ran' = [ran EXCEPT ![u] = End(len[u]) - 4]
               \/ /\ cmd' = [cmd EXCEPT ![u] = "refused"]
                  /\ UNCHANGED ran
            /\ UNCHANGED <<crashed, up>>
    /\ UNCHANGED <<conn, dials, dropped, able, chan, pc, over, len>>

Exits(u) ==
    /\ cmd[u] = "running"
    /\ cmd' = [cmd EXCEPT ![u] = "exited"]
    /\ UNCHANGED <<link, able, crashed, chan, ran, pc, over, len>>

\* The goroutine of the behaviour: cmd.Process.Wait(), which does not wait for
\* the copying, and cpay.Chan.Close().
WaitAndClose(u) ==
    /\ ~crashed /\ cmd[u] = "exited" /\ chan[u] = "open"
    /\ chan' = [chan EXCEPT ![u] = "closed"]
    /\ UNCHANGED <<link, able, crashed, cmd, ran, pc, over, len>>
----------------------------------------------------------------------------
User(u) == NewSession(u) \/ RunReturns(u) \/ CloseSession(u)

CommandNext ==
    \/ \E ok \in BOOLEAN : Dial(ok)
    \/ Drop
    \/ \E c \in Dials : Breaks(c)
    \/ \E u \in Users :
         \/ \E n \in Lengths : Command(u, n)
         \/ FS(u) \/ User(u)
         \/ Exec(u) \/ Exits(u) \/ WaitAndClose(u)

\* Nobody has to dial, drop or start a command, and a command need not end.
CommandFairness ==
    \A u \in Users :
        /\ WF_commandVars(User(u)) /\ WF_commandVars(Exec(u))
        /\ WF_commandVars(WaitAndClose(u))

CommandSpec == CommandInit /\ [][CommandNext]_commandVars /\ CommandFairness
----------------------------------------------------------------------------
\* A session is over a connection, and a command is in a session.
CommandTypeOK ==
    /\ conn \in 0 .. dials /\ dials \in 0 .. MaxDials
    /\ up \cup dropped \subseteq 1 .. dials
    /\ able \in BOOLEAN /\ crashed \in BOOLEAN
    /\ crashed => up = {}
    /\ pc \in [Users -> {"idle", "session", "run", "close", "done", "error", "files",
                        "panicked"}]
    /\ over \in [Users -> {0} \cup Dials] /\ len \in [Users -> {0} \cup Lengths]
    /\ chan \in [Users -> {"none", "open", "closed"}]
    /\ cmd \in [Users -> {"none", "refused", "running", "exited"}]
    /\ ran \in [Users -> 0 .. 251]
    /\ \A u \in Users :
         /\ over[u] # 0 <=> chan[u] # "none"
         /\ cmd[u] # "none" => chan[u] # "none"

\* A line of up to 251 bytes reaches the shell whole; the server panics only on a
\* longer one.  A line of 256 bytes or more may lose its end without an error.
LineRunsWhole ==
    /\ \A u \in Users : cmd[u] \in {"running", "exited"} /\ len[u] < 252 => ran[u] = len[u]
    /\ crashed => \E u \in Users : len[u] > 251

\* A Command comes back, and its session is closed, when its command has exited
\* or was refused, when its connection is lost, and when Drop was called while the
\* link held its connection, also if the owner dials again after that; unless the
\* client's program has ended.  A connection that a Dial has replaced is out of
\* Drop's reach (src/sshlink.go lines 87-100), and so are the commands over it.
CommandReturns ==
    \A u \in Users :
        /\ pc[u] = "run"
        /\ Lost(u) \/ cmd[u] \in {"refused", "exited"} \/ over[u] \in dropped
        ~> pc[u] \in {"done", "panicked"}
============================================================================
